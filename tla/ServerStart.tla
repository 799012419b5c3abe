----------------------------- MODULE ServerStart -----------------------------
(***************************************************************************)
(* Starting servers: the key pair that is put into OpenStack for the time  *)
(* of one start, the server made with it, and the record of the generated  *)
(* private key in Redis.                                                   *)
(*                                                                         *)
(* start_server imports the public key of the user under a name that       *)
(* begins with three random hex digits; start_server_with_custom_key has   *)
(* OpenStack generate a pair under the name of the server.  Both create    *)
(* the server by the *name* of the pair and then delete the pair again.    *)
(* An action is one call of OpenStack or Redis.  A call may raise, with or *)
(* without effect: an OpenStackCloudException is caught and the pair       *)
(* deleted, anything else (a lost connection, a volume without an id) goes *)
(* through to the caller.  The session of the OpenStack client sends a     *)
(* DELETE again when its answer is lost, and OpenStack then carries it out *)
(* again.                                                                  *)
(***************************************************************************)
EXTENDS Naturals

CONSTANTS
  Threads,      \* worker threads of the server
  Servers,      \* OpenStack servers; they bound the creations
  RandomNames,  \* "<3 hex digits>_<servername[:10]>_<project>"
  ServerNames,  \* names of servers that get a generated pair
  PublicKeys,   \* key pairs of users
  Generated,    \* key pairs made by OpenStack; they bound the creations
  NoKey, NoName, NoServer,
  MaxRepeats    \* HTTPAdapter(max_retries)

ASSUME StartAssumption ==
  /\ RandomNames \cap ServerNames = {}
  /\ PublicKeys \cap Generated = {}
  /\ NoKey \notin PublicKeys \cup Generated
  /\ NoName \notin RandomNames \cup ServerNames
  /\ NoServer \notin Servers
  /\ MaxRepeats \in Nat

VARIABLES
  pair,       \* pair[n]: the key pair OpenStack has under name n
  made,       \* key pairs generated so far
  keyName,    \* key_name of each server; NoName: it does not exist
  serverKey,  \* the key pair that the server was given
  record,     \* Redis: the key in the hash of the server
  lost,       \* history: names for which the answer to a deletion was lost
  left,       \* history: names whose pair nobody has to delete any more
  pc,         \* per thread: next step
  name,       \* key_name
  key,        \* public_key, or key_creation with its private key
  srv,        \* openstack_id
  cleanup,    \* why delete_keypair was called
  repeats,    \* how often its DELETE was sent again
  shared      \* history: another request used the name in the meantime

cloud   == <<pair, made, keyName, serverKey>>
history == <<lost, left>>
locals  == <<pc, name, key, srv, cleanup, repeats, shared>>
vars    == <<cloud, record, history, locals>>

Names == RandomNames \cup ServerNames
Keys  == PublicKeys \cup Generated

Steps == {"idle", "prepare", "import_get", "import_create", "generate", "boot",
          "del_get", "del", "record"}
Reasons == {"none", "replace", "booted", "failed"}

Unborn == {s \in Servers : keyName[s] = NoName}
IsCustom(t) == name[t] \in ServerNames

Init ==
  /\ pair = [n \in Names |-> NoKey]
  /\ made = {}
  /\ keyName = [s \in Servers |-> NoName]
  /\ serverKey = [s \in Servers |-> NoKey]
  /\ record = [s \in Servers |-> NoKey]
  /\ lost = {} /\ left = {}
  /\ pc = [t \in Threads |-> "idle"]
  /\ name = [t \in Threads |-> NoName]
  /\ key = [t \in Threads |-> NoKey]
  /\ srv = [t \in Threads |-> NoServer]
  /\ cleanup = [t \in Threads |-> "none"]
  /\ repeats = [t \in Threads |-> 0]
  /\ shared = [t \in Threads |-> FALSE]

Goto(t, s) == pc' = [pc EXCEPT ![t] = s]

(* The handler returns or raises.                                          *)
Return(t) ==
  /\ Goto(t, "idle")
  /\ name' = [name EXCEPT ![t] = NoName]
  /\ key' = [key EXCEPT ![t] = NoKey]
  /\ srv' = [srv EXCEPT ![t] = NoServer]
  /\ cleanup' = [cleanup EXCEPT ![t] = "none"]
  /\ shared' = [shared EXCEPT ![t] = FALSE]

(* An exception that is not caught where a pair of the request may exist.  *)
Abandon(t) ==
  /\ Return(t)
  /\ left' = left \cup {name[t]}

Delete(t, why) ==
  /\ Goto(t, "del_get")
  /\ cleanup' = [cleanup EXCEPT ![t] = why]
  /\ UNCHANGED <<name, key, srv, shared>>

(* `except OpenStackCloudException`: delete the pair, raise                *)
(* DefaultException.                                                       *)
Fail(t) == Delete(t, "failed")

(* Nobody else is served under this name.                                  *)
Alone(t, n) == \A u \in Threads \ {t} : name[u] # n

-----------------------------------------------------------------------------
(* Mutants: what the named action would be with a plausible bug.  They are *)
(* not part of the specification.                                          *)

(* Generate that knows its key_name before the pair is made.               *)
GenerateNamed(t) ==
  /\ pc[t] = "generate"
  /\ \/ /\ pair[name[t]] = NoKey
        /\ \E k \in Generated \ made :
             /\ pair' = [pair EXCEPT ![name[t]] = k]
             /\ made' = made \cup {k}
             /\ Goto(t, "boot")
             /\ key' = [key EXCEPT ![t] = k]
             /\ UNCHANGED <<name, srv, cleanup, shared>>
     \/ Fail(t) /\ UNCHANGED <<pair, made>>
  /\ UNCHANGED <<left, keyName, serverKey, record, lost, repeats>>

(* ImportGet that keeps whatever pair it finds.                            *)
ImportKeepsOld(t) ==
  /\ pc[t] = "import_get"
  /\ Goto(t, IF pair[name[t]] = NoKey THEN "import_create" ELSE "boot")
  /\ UNCHANGED <<cloud, record, history, repeats, name, key, srv,
                 cleanup, shared>>

(* Boot outside the try block.                                             *)
BootUnguarded(t) ==
  /\ pc[t] = "boot"
  /\ Return(t)
  /\ UNCHANGED <<cloud, record, history, repeats>>

(* Deleted that records the key of every server.                           *)
DeletedThenRecord(t) ==
  /\ Goto(t, IF cleanup[t] = "replace" THEN "import_create" ELSE "record")
  /\ UNCHANGED <<name, key, srv, cleanup, shared>>

(* DeleteRaises that tries again until OpenStack obeys.                    *)
RetryDeletion(t) == Fail(t) /\ UNCHANGED left

-----------------------------------------------------------------------------
Begin(t, n, k) ==
  /\ pc[t] = "idle"
  /\ Goto(t, "prepare")
  /\ name' = [name EXCEPT ![t] = n]
  /\ key' = [key EXCEPT ![t] = k]
  /\ shared' = [u \in Threads |->
                  IF u = t THEN ~Alone(t, n) ELSE shared[u] \/ name[u] = n]
  /\ UNCHANGED <<cloud, record, history, repeats, srv, cleanup>>

(* VirtualMachineHandler.start_server: uuid4()[0:3] may repeat.            *)
StartServer(t) == \E n \in RandomNames, k \in PublicKeys : Begin(t, n, k)

StartServerWithCustomKey(t) == \E n \in ServerNames : Begin(t, n, NoKey)

(* The security groups, image, flavor and network of the new server are    *)
(* looked up.  When this raises, start_server already has a key_name to    *)
(* delete; start_server_with_playbook has none.                            *)
Prepare(t) ==
  /\ pc[t] = "prepare"
  /\ \/ /\ Goto(t, IF IsCustom(t) THEN "generate" ELSE "import_get")
        /\ UNCHANGED <<name, key, srv, cleanup, shared>>
     \/ ~IsCustom(t) /\ Fail(t)
     \/ Return(t)
  /\ UNCHANGED <<cloud, record, history, repeats>>

-----------------------------------------------------------------------------
(* import_keypair.                                                         *)

ImportGet(t) ==
  /\ pc[t] = "import_get"
  /\ \/ /\ pair[name[t]] = NoKey
        /\ Goto(t, "import_create")
        /\ UNCHANGED <<name, key, srv, cleanup, shared>>
     \/ pair[name[t]] \notin {NoKey, key[t]} /\ Delete(t, "replace")
     \/ /\ pair[name[t]] = key[t]
        /\ Goto(t, "boot")
        /\ UNCHANGED <<name, key, srv, cleanup, shared>>
     \/ Fail(t)
     \/ Return(t)
  /\ UNCHANGED <<cloud, record, history, repeats>>

(* create_keypair: names are unique, so a pair that has come meanwhile     *)
(* makes it raise.                                                         *)
ImportCreate(t) ==
  /\ pc[t] = "import_create"
  /\ \/ /\ pair[name[t]] = NoKey
        /\ pair' = [pair EXCEPT ![name[t]] = key[t]]
        /\ \/ /\ Goto(t, "boot")
              /\ UNCHANGED <<left, name, key, srv, shared>>
              /\ cleanup' = [cleanup EXCEPT ![t] = "none"]
           \/ Fail(t) /\ UNCHANGED left
           \/ Abandon(t)
     \/ Fail(t) /\ UNCHANGED <<pair, left>>
     \/ Return(t) /\ UNCHANGED <<pair, left>>
  /\ UNCHANGED <<made, keyName, serverKey, record, lost, repeats>>

(* start_server_with_playbook, create_keypair(name=servername).  Until it  *)
(* returns key_name is None, so an exception deletes nothing.              *)
Generate(t) ==
  /\ pc[t] = "generate"
  /\ \/ /\ pair[name[t]] = NoKey
        /\ \E k \in Generated \ made :
             /\ pair' = [pair EXCEPT ![name[t]] = k]
             /\ made' = made \cup {k}
             /\ \/ /\ Goto(t, "boot")
                   /\ key' = [key EXCEPT ![t] = k]
                   /\ UNCHANGED <<left, name, srv, cleanup, shared>>
                \/ Abandon(t)
     \/ Return(t) /\ UNCHANGED <<pair, made, left>>
  /\ UNCHANGED <<keyName, serverKey, record, lost, repeats>>

(* create_userdata and create_server.  OpenStack resolves key_name, and    *)
(* refuses one that it does not know.                                      *)
Boot(t) ==
  /\ pc[t] = "boot"
  /\ \/ \E s \in Unborn :
          /\ pair[name[t]] # NoKey
          /\ keyName' = [keyName EXCEPT ![s] = name[t]]
          /\ serverKey' = [serverKey EXCEPT ![s] = pair[name[t]]]
          /\ srv' = [srv EXCEPT ![t] = s]
          /\ Goto(t, "del_get")
          /\ cleanup' = [cleanup EXCEPT ![t] = "booted"]
          /\ UNCHANGED <<left, name, key, shared>>
     \/ Fail(t) /\ UNCHANGED <<keyName, serverKey, left>>
     \/ Abandon(t) /\ UNCHANGED <<keyName, serverKey>>
  /\ UNCHANGED <<pair, made, record, lost, repeats>>

-----------------------------------------------------------------------------
(* delete_keypair, from import_keypair, after the creation of the server   *)
(* and in the two exception handlers.                                      *)

Deleted(t) ==
  \/ /\ cleanup[t] = "replace"
     /\ Goto(t, "import_create")
     /\ UNCHANGED <<name, key, srv, cleanup, shared>>
  \/ /\ cleanup[t] = "booted"
     /\ IsCustom(t)
     /\ Goto(t, "record")
     /\ UNCHANGED <<name, key, srv, cleanup, shared>>
  \/ /\ \/ cleanup[t] = "booted" /\ ~IsCustom(t)
        \/ cleanup[t] = "failed"
     /\ Return(t)

(* Inside the handler of an exception nothing is caught any more.          *)
DeleteRaises(t) ==
  \/ cleanup[t] # "failed" /\ Fail(t) /\ UNCHANGED left
  \/ Abandon(t)

DeleteGet(t) ==
  /\ pc[t] = "del_get"
  /\ \/ pair[name[t]] = NoKey /\ Deleted(t) /\ UNCHANGED left
     \/ /\ pair[name[t]] # NoKey
        /\ Goto(t, "del")
        /\ UNCHANGED <<name, key, srv, cleanup, shared, left>>
     \/ DeleteRaises(t)
  /\ UNCHANGED <<cloud, record, lost, repeats>>

(* Sent again, the DELETE takes away whatever has the name by then; when   *)
(* nothing has, it is as good as done.                                     *)
DeleteKeypair(t) ==
  /\ pc[t] = "del"
  /\ \/ /\ pair' = [pair EXCEPT ![name[t]] = NoKey]
        /\ \/ Deleted(t) /\ UNCHANGED <<left, lost>>
           \/ DeleteRaises(t) /\ lost' = lost \cup {name[t]}
     \/ DeleteRaises(t) /\ UNCHANGED <<pair, lost>>
  /\ repeats' = [repeats EXCEPT ![t] = 0]
  /\ UNCHANGED <<made, keyName, serverKey, record>>

DeleteAgain(t) ==
  /\ pc[t] = "del"
  /\ repeats[t] < MaxRepeats
  /\ repeats' = [repeats EXCEPT ![t] = @ + 1]
  /\ pair' = [pair EXCEPT ![name[t]] = NoKey]
  /\ lost' = lost \cup {name[t]}
  /\ UNCHANGED <<made, keyName, serverKey, record, left, pc, name,
                 key, srv, cleanup, shared>>

(* set_vm_wait_for_playbook.                                               *)
RecordKey(t) ==
  /\ pc[t] = "record"
  /\ \/ record' = [record EXCEPT ![srv[t]] = key[t]]
     \/ UNCHANGED record
  /\ Return(t)
  /\ UNCHANGED <<cloud, history, repeats>>

(* The service crashes and is started again; OpenStack and Redis stay.     *)
Restart ==
  /\ left' = left \cup {name[t] : t \in {u \in Threads : pc[u] # "idle"}}
  /\ pc' = [t \in Threads |-> "idle"]
  /\ name' = [t \in Threads |-> NoName]
  /\ key' = [t \in Threads |-> NoKey]
  /\ srv' = [t \in Threads |-> NoServer]
  /\ cleanup' = [t \in Threads |-> "none"]
  /\ repeats' = [t \in Threads |-> 0]
  /\ shared' = [t \in Threads |-> FALSE]
  /\ UNCHANGED <<cloud, record, lost>>

-----------------------------------------------------------------------------
Step(t) ==
  \/ Prepare(t) \/ ImportGet(t) \/ ImportCreate(t) \/ Generate(t) \/ Boot(t)
  \/ DeleteGet(t) \/ DeleteKeypair(t) \/ DeleteAgain(t) \/ RecordKey(t)

Next ==
  \/ Restart
  \/ \E t \in Threads :
       StartServer(t) \/ StartServerWithCustomKey(t) \/ Step(t)

Spec == Init /\ [][Next]_vars

(* Every thread goes on with what it has begun.                            *)
FairSpec == Spec /\ \A t \in Threads : WF_vars(Step(t))

-----------------------------------------------------------------------------
(* Properties.                                                             *)

TypeOK ==
  /\ pair \in [Names -> Keys \cup {NoKey}]
  /\ made \subseteq Generated
  /\ keyName \in [Servers -> Names \cup {NoName}]
  /\ serverKey \in [Servers -> Keys \cup {NoKey}]
  /\ record \in [Servers -> Generated \cup {NoKey}]
  /\ lost \subseteq Names
  /\ left \subseteq Names
  /\ pc \in [Threads -> Steps]
  /\ name \in [Threads -> Names \cup {NoName}]
  /\ key \in [Threads -> Keys \cup {NoKey}]
  /\ srv \in [Threads -> Servers \cup {NoServer}]
  /\ cleanup \in [Threads -> Reasons]
  /\ repeats \in [Threads -> 0..MaxRepeats]
  /\ shared \in [Threads -> BOOLEAN]

(* The private key that Redis keeps for Ansible opens the server, though   *)
(* the server was created by the name of the pair and requests for the     *)
(* same server name overlap: a refused one never takes the pair of         *)
(* another away.  The exception is a deletion whose answer was lost,       *)
(* because the session or the exception handler repeats it, and may hit    *)
(* the pair of another start.                                              *)
RecordedKeyOpens ==
  \A s \in Servers :
    record[s] # NoKey => serverKey[s] = record[s] \/ keyName[s] \in lost

(* A server that start_server reports has the public key of the request,   *)
(* even when an old pair was left under the name, unless another request   *)
(* used the same name at the same time.                                    *)
OwnKeyUnlessShared ==
  \A t \in Threads :
    srv[t] # NoServer /\ ~IsCustom(t) =>
      serverKey[srv[t]] = key[t] \/ shared[t]

(* A pair stays in OpenStack only while a request will still delete it, or *)
(* after an exception nothing catches, a failed clean-up or a crash.       *)
PairsAreTemporary ==
  \A n \in Names :
    pair[n] # NoKey /\ n \notin left =>
      \E t \in Threads :
        /\ name[t] = n
        /\ pc[t] \in {"boot", "del_get", "del"} /\ cleanup[t] # "replace"

(* And it will: a name is free again after a while.                        *)
NamesAreFreed ==
  \A n \in Names : pair[n] # NoKey ~> pair[n] = NoKey \/ n \in left
=============================================================================
