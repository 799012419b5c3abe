-------------------------------- MODULE Calls --------------------------------
(***************************************************************************)
(* What the portal may rely on when it calls the client, whatever threads, *)
(* queues and messages there are: on a connection one call follows the     *)
(* other, a call is worked on only until it is answered, what it changes   *)
(* it changes once, and what the portal hears is true of that very call.   *)
(* That a call is answered at all is not promised.                         *)
(***************************************************************************)
EXTENDS Naturals, Sequences

CONSTANTS
  Conns,           \* connections
  Methods,         \* what may be called
  Results,         \* what a request of a handler can meet at the other side
  Repeats,         \* methods whose request is sent again after a failure
  Truthful(_, _)   \* may the second be heard of the first, a call?

VARIABLES
  client,  \* [at, heard] of the portal's end of each connection
  calls,   \* the calls made on each connection: [method, changes, outcome]
  busy     \* connections whose last call may still change something

callVars == <<client, calls, busy>>

Nothing == [to |-> 0, what |-> ""]

CallsInit ==
  /\ client = [c \in Conns |-> [at |-> "new", heard |-> Nothing]]
  /\ calls = [c \in Conns |-> <<>>]
  /\ busy = {}

Open(c) ==
  /\ client[c].at = "new"
  /\ client' = [client EXCEPT ![c].at = "idle"]
  /\ UNCHANGED <<calls, busy>>

\* The next call begins when nothing is left to do for the last one.
Begin(c) ==
  /\ client[c].at = "idle" /\ c \notin busy
  /\ client' = [client EXCEPT ![c] = [at |-> "waiting", heard |-> Nothing]]
  /\ \E m \in Methods :
       calls' = [calls EXCEPT ![c] =
                   Append(@, [method |-> m, changes |-> 0, outcome |-> ""])]
  /\ busy' = busy \cup {c}

\* One request for the last call of c, perhaps the last one.
Work(c) ==
  /\ c \in busy
  /\ \E outcome \in Results, change \in {0, 1} :
       LET n == Len(calls[c])
           call == [method |-> calls[c][n].method, outcome |-> outcome,
                    changes |-> calls[c][n].changes + change]
       IN /\ call.changes > 1 => call.method \in Repeats
          /\ calls' = [calls EXCEPT ![c][n] = call]
  /\ busy' \in {busy, busy \ {c}}
  /\ UNCHANGED client

\* The call of c is answered without a request.
Settle(c) ==
  /\ c \in busy
  /\ busy' = busy \ {c}
  /\ UNCHANGED <<client, calls>>

Learn(c) ==
  /\ client[c].at = "waiting" /\ c \notin busy
  /\ client'[c].at = "idle"
  /\ client'[c].heard.to = Len(calls[c])
  /\ Truthful(calls[c][Len(calls[c])], client'[c].heard.what)
  /\ client' = [client EXCEPT ![c] = client'[c]]
  /\ UNCHANGED <<calls, busy>>

\* The portal closes its end; the server may not have noticed.
Close(c) ==
  /\ client[c].at \in {"idle", "waiting"}
  /\ client' = [client EXCEPT ![c] = [at |-> "gone", heard |-> Nothing]]
  /\ UNCHANGED <<calls, busy>>

\* Both ends are closed: nothing more is done for calls on c.
Forget(c) ==
  /\ client[c].at \in {"idle", "waiting", "gone"}
  /\ client' = [client EXCEPT ![c] = [at |-> "gone", heard |-> Nothing]]
  /\ calls' = [calls EXCEPT ![c] = <<>>]
  /\ busy' = busy \ {c}

CallStep(c) ==
  \/ Open(c) \/ Begin(c) \/ Work(c) \/ Settle(c) \/ Learn(c) \/ Close(c) \/ Forget(c)

CallsSpec == CallsInit /\ [][\E c \in Conns : CallStep(c)]_callVars
=============================================================================
