------------------------------ MODULE Shutdown ------------------------------
(***************************************************************************)
(* What a SIGTERM does to the playbooks.  The handler of the signal runs   *)
(* in the main thread, inside TThreadPoolServer.serve, while the threads   *)
(* of Playbooks go on.  It iterates over active_playbooks and removes, for *)
(* each VM, the key pair, the run, the hash and the server.  serve() logs  *)
(* any exception of the handler and accepts connections as before; only    *)
(* SystemExit, which ends a complete loop, ends the process.               *)
(***************************************************************************)
EXTENDS Playbooks

CONSTANT MaxSignals   \* bound on the signals

ASSUME SignalsAssumption == MaxSignals \in Nat /\ IsFiniteSet(VMs)

VARIABLES
  handler,      \* keyboard_interrupt_handler_playbooks: its step and locals
  found,        \* the VMs that were registered when its loop began
  changed,      \* have the keys of active_playbooks changed since?
  terminated,   \* playbooks whose process was sent a SIGTERM
  deleted,      \* servers deleted in OpenStack
  signals       \* signals so far

traces == <<terminated, deleted>>
shutdownVars == <<handler, found, changed, traces, signals>>
allVars == <<vars, shutdownVars>>

\* The keys of active_playbooks.
Keys == {v \in VMs : active[v] # NoPlaybook}

\* seen: the keys the iterator has given; left, size: the keys it still
\* expects to give, and the size the dictionary must keep.
Visiting == {"name", "key", "stop", "clean", "delete", "server"}
Off == [pc |-> "off", vm |-> NoVM, pb |-> NoPlaybook, seen |-> {}, left |-> 0, size |-> 0]

GoTo(step) == handler' = [handler EXCEPT !.pc = step]

\* An exception leaves the handler, and serve() logs it.
Abort == handler' = Off

\* The key the iterator may give next.  When a key was removed and another one
\* added, the table may have been rebuilt: it may give one twice, or miss one.
Gives(v) == v \in Keys /\ (v \notin handler.seen \/ changed)

-----------------------------------------------------------------------------
(* Mutants: what the named action would be with a plausible bug.  They are *)
(* not part of the specification.                                          *)

\* LoopNext, over a dictionary that may grow.
NextWithoutCount ==
  /\ handler.pc = "next"
  /\ \/ \E v \in Keys \ handler.seen :
          handler' = [handler EXCEPT !.pc = "name", !.vm = v, !.pb = active[v],
                                     !.seen = @ \cup {v}, !.left = @ - 1]
     \/ Keys \subseteq handler.seen /\ GoTo("exit")
  /\ UNCHANGED <<vars, found, changed, traces, signals>>

\* LoopDeleteKeypair that logs an exception and goes on to the server.
ServerWithoutStop ==
  /\ handler.pc = "key"
  /\ GoTo("stop") \/ GoTo("server")
  /\ UNCHANGED <<vars, found, changed, traces, signals>>

\* StopTerminate of a playbook that only saves its logs.
StopWithoutTerminate ==
  /\ handler.pc = "stop"
  /\ GoTo("clean") \/ Abort
  /\ UNCHANGED <<vars, found, changed, traces, signals>>

\* LoopDeleteServer that logs the exception and goes on.
DeleteServerOrLog ==
  /\ handler.pc = "server"
  /\ \/ deleted' = deleted \cup {handler.vm}
     \/ UNCHANGED deleted
  /\ GoTo("next")
  /\ UNCHANGED <<vars, found, changed, terminated, signals>>

-----------------------------------------------------------------------------
(* The handler                                                             *)

\* The signal can also arrive while the handler runs.  Whatever becomes of the
\* new loop, its exception or its SystemExit ends the interrupted one too.
Signal ==
  /\ signals < MaxSignals
  /\ handler.pc # "exited"
  /\ signals' = signals + 1
  /\ handler' = [Off EXCEPT !.pc = "next", !.left = Cardinality(Keys),
                            !.size = Cardinality(Keys)]
  /\ found' = Keys
  /\ changed' = FALSE
  /\ UNCHANGED <<vars, traces>>

\* The next pair of active_playbooks.items().  The iterator raises when the
\* size has changed, or when it finds more keys than there were.
LoopNext ==
  /\ handler.pc = "next"
  /\ \/ Cardinality(Keys) # handler.size /\ Abort
     \/ /\ Cardinality(Keys) = handler.size
        /\ \E v \in VMs :
             /\ Gives(v)
             /\ \/ /\ handler.left > 0
                   /\ handler' = [handler EXCEPT !.pc = "name", !.vm = v, !.pb = active[v],
                                                 !.seen = @ \cup {v}, !.left = @ - 1]
                \/ handler.left = 0 /\ Abort
     \/ /\ Cardinality(Keys) = handler.size
        /\ Keys \subseteq handler.seen \/ changed
        /\ GoTo("exit")
  /\ UNCHANGED <<vars, found, changed, traces, signals>>

\* hget(k, "name").decode: AttributeError when there is no name.
LoopName ==
  /\ handler.pc = "name"
  /\ \/ redis[handler.vm].full /\ GoTo("key")
     \/ Abort
  /\ UNCHANGED <<vars, found, changed, traces, signals>>

\* delete_keypair: the SDK may raise.
LoopDeleteKeypair ==
  /\ handler.pc = "key"
  /\ GoTo("stop") \/ Abort
  /\ UNCHANGED <<vars, found, changed, traces, signals>>

\* Playbook.stop: the process is told to end, and its logs so far are saved
\* under a key of their own, which may raise.
StopTerminate ==
  /\ handler.pc = "stop"
  /\ terminated' = terminated \cup {handler.pb}
  /\ GoTo("clean") \/ Abort
  /\ UNCHANGED <<vars, found, changed, deleted, signals>>

\* Playbook.cleanup: the directory, then the hash.  Either may raise, the
\* deletion of the hash also after its effect.  The entry of active_playbooks
\* stays.
StopCleanup ==
  /\ handler.pc = "clean"
  /\ \/ dir' = [dir EXCEPT ![handler.pb] = "removed"] /\ GoTo("delete")
     \/ UNCHANGED dir /\ Abort
  /\ UNCHANGED <<store, owner, proc, returncode, locals, restarts,
                 found, changed, traces, signals>>

StopDelete ==
  /\ handler.pc = "delete"
  /\ \/ redis' = [redis EXCEPT ![handler.vm] = Absent] /\ (GoTo("server") \/ Abort)
     \/ UNCHANGED redis /\ Abort
  /\ UNCHANGED <<servers, active, unanswered, objects, locals, restarts,
                 found, changed, traces, signals>>

\* delete_server raises when the server is gone, is busy or cannot be deleted,
\* and also after the deletion, over the security groups.
LoopDeleteServer ==
  /\ handler.pc = "server"
  /\ \/ deleted' = deleted \cup {handler.vm} /\ (GoTo("next") \/ Abort)
     \/ UNCHANGED deleted /\ Abort
  /\ UNCHANGED <<vars, found, changed, terminated, signals>>

\* SystemExit: the threads are daemons and die; the directories of living
\* playbooks are removed.
Exit ==
  /\ handler.pc = "exit"
  /\ GoTo("exited")
  /\ dir' = [p \in Playbooks |-> IF dir[p] = "live" /\ Referenced(p) THEN "removed" ELSE dir[p]]
  /\ UNCHANGED <<store, owner, proc, returncode, locals, restarts,
                 found, changed, traces, signals>>

Handle ==
  \/ LoopNext \/ LoopName \/ LoopDeleteKeypair \/ StopTerminate \/ StopCleanup
  \/ StopDelete \/ LoopDeleteServer \/ Exit

-----------------------------------------------------------------------------
(* The rest of the client                                                  *)

\* The threads of Playbooks, until the process has ended.
Serve ==
  /\ handler.pc # "exited"
  /\ \E t \in Threads : Request(t) \/ Work(t)
  /\ changed' = (changed \/ (handler.pc # "exit" /\ Keys' # Keys))
  /\ UNCHANGED <<handler, found, traces, signals>>

ProcessEnds ==
  /\ \E p \in Playbooks : ProcessExit(p)
  /\ UNCHANGED shutdownVars

\* The client dies, or has ended, and is started again.
StartAgain ==
  /\ Restart
  /\ handler' = Off
  /\ found' = {}
  /\ changed' = FALSE
  /\ UNCHANGED <<traces, signals>>

ShutdownInit ==
  /\ Init
  /\ handler = Off
  /\ found = {}
  /\ changed = FALSE
  /\ terminated = {}
  /\ deleted = {}
  /\ signals = 0

ShutdownNext == Signal \/ Handle \/ Serve \/ ProcessEnds \/ StartAgain

ShutdownSpec == ShutdownInit /\ [][ShutdownNext]_allVars

-----------------------------------------------------------------------------
(* Properties                                                              *)

ShutdownTypeOK ==
  /\ handler \in [pc : {"off", "next", "exit", "exited"} \cup Visiting,
                  vm : VMs \cup {NoVM}, pb : Playbooks \cup {NoPlaybook},
                  seen : SUBSET VMs, left : Nat, size : Nat]
  /\ found \subseteq VMs
  /\ changed \in BOOLEAN
  /\ terminated \subseteq Playbooks
  /\ deleted \subseteq VMs
  /\ signals \in 0..MaxSignals
  /\ handler.pc \in Visiting => handler.vm \in handler.seen /\ handler.pb \in Playbooks

Complete == handler.pc \in {"exit", "exited"} /\ ~changed

\* When the client exits, every playbook that was registered when the signal
\* came has been told to end, unless the dictionary changed under the loop, or
\* the portal deployed twice on a VM.
ExitStopsRuns ==
  Complete => \A p \in Playbooks :
    proc[p] = "running" /\ owner[p] \in found /\ Only(p) => p \in terminated

\* ... and every server it found is deleted: the first one that cannot be
\* deleted keeps the client alive.
ExitDeletesServers == Complete => found \subseteq deleted

\* However a shutdown is cut short, no server is deleted before its playbook
\* has been told to end, unless the portal deployed twice on the VM.
DeletedAreStopped ==
  \A p \in Playbooks :
    proc[p] = "running" /\ owner[p] \in deleted /\ Only(p) => p \in terminated
=============================================================================
