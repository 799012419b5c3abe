-------------------------------- MODULE Rpc --------------------------------
(***************************************************************************)
(* Calls of the portal: the generated Client at one end of a connection,   *)
(* the threads of the TThreadPoolServer with the generated Processor at    *)
(* the other, and behind them the handlers.  A thread serves one           *)
(* connection until it ends.  Messages carry no usable call number: the    *)
(* client does not compare the sequence number of an answer with the one   *)
(* it sent, so that the number kept here is for the properties only.       *)
(***************************************************************************)
EXTENDS Naturals, Sequences, FiniteSets

CONSTANTS
  Conns,    \* connections the portal opens, each at most once
  Workers,  \* threads of the server
  Asks      \* Asks[c][n]: methods the n-th call on connection c may be for

IDL == INSTANCE Interface
Handler == INSTANCE Handlers

Known == DOMAIN IDL!Methods

NoConn == "none"
NoAnswer == [raises |-> "", value |-> "", fails |-> FALSE]

VARIABLES
  client,   \* [at, heard] of the portal's end of each connection
  history,  \* the calls made on each connection: [method, changes, outcome]
  request,  \* numbers of the calls on their way to the server
  reply,    \* answers on their way to the client
  queue,    \* accepted connections no thread serves yet
  worker,   \* [conn, pc, n, tries, answer] of each thread
  shut      \* connections the server has closed

vars == <<client, history, request, reply, queue, worker, shut>>

Free == [conn |-> NoConn, pc |-> "free", n |-> 0, tries |-> 0, answer |-> NoAnswer]
Silence == [to |-> 0, what |-> ""]

\* The method of the call a thread works on.
Method(w) == history[worker[w].conn][worker[w].n].method

Serving(w, c) == worker[w].conn = c

-----------------------------------------------------------------------------
(* Mutants: what the named definition would be with a plausible bug.  They *)
(* are not part of the specification.                                      *)

\* HangUp, of a portal that goes on with the connection after a timeout.
HangUpAndGoOn(c) ==
  /\ client[c].at = "waiting"
  /\ client' = [client EXCEPT ![c].at = "idle"]
  /\ UNCHANGED <<history, request, reply, queue, worker, shut>>

\* Attempt, with <= for < where the repetitions are counted.
AttemptOnceMore(w) ==
  /\ worker[w].pc = "calling"
  /\ worker[w].tries <= Handler!Repeats(Method(w))
  /\ worker' = [worker EXCEPT ![w].tries = @ + 1]
  /\ UNCHANGED <<client, history, request, reply, queue, shut>>

\* Attempt, with a count that starts again.
AttemptUncounted(w) ==
  LET answers == Handler!Answers[Method(w)]
  IN /\ worker[w].pc = "calling"
     /\ \/ \E outcome \in Handler!Outcome : \E answer \in answers[outcome] :
             /\ worker' = [worker EXCEPT ![w].pc = "writing", ![w].answer = answer]
             /\ history' = [history EXCEPT ![worker[w].conn][worker[w].n] =
                              [@ EXCEPT !.changes = IF outcome = "done" THEN 1 ELSE 0,
                                        !.outcome = outcome]]
        \/ /\ answers["broken"] # {} /\ Handler!Repeats(Method(w)) > 0
           /\ worker' = [worker EXCEPT ![w].tries = 1 - @]
           /\ history' = history
     /\ UNCHANGED <<client, request, reply, queue, shut>>

\* Write, of a thread that survives an answer it cannot write.
WriteOrGoOn(w) ==
  /\ worker[w].pc = "writing"
  /\ worker' = [worker EXCEPT ![w] =
                  [Free EXCEPT !.conn = worker[w].conn, !.pc = "reading"]]
  /\ UNCHANGED <<client, history, request, reply, queue, shut>>

\* Response, with a catch-all clause that only logs.
ResponseOfLogger(m, answer) ==
  LET method == IDL!Methods[m]
  IN [raises |-> IF answer.raises \in method.raises \cup {""} THEN answer.raises
                 ELSE IF method.result = IDL!Void THEN "" ELSE "INTERNAL_ERROR",
      success |-> /\ answer.raises = ""
                  /\ method.result # IDL!Void
                  /\ answer.value # Handler!None,
      fails |-> answer.fails]

\* Response, with a catch-all clause that raises a declared exception.
ResponseOfCatchAll(m, answer) ==
  LET method == IDL!Methods[m]
      named == method.raises \ {"DefaultException"}
  IN [raises |-> IF answer.raises \in method.raises \cup {""} THEN answer.raises
                 ELSE IF named = {} THEN "INTERNAL_ERROR" ELSE CHOOSE e \in named : TRUE,
      success |-> /\ answer.raises = ""
                  /\ method.result # IDL!Void
                  /\ answer.value # Handler!None,
      fails |-> answer.fails]

-----------------------------------------------------------------------------
(* What the generated code makes of an answer                              *)

\* Can process_<method> write the result?  A method that returns nothing does
\* not assign the value of the handler, None is left out, an exception that
\* is not declared becomes an "Internal error".
CanWrite(m, answer) ==
  LET method == IDL!Methods[m]
  IN IF answer.raises = ""
     THEN \/ method.result = IDL!Void
          \/ answer.value = Handler!None
          \/ IDL!Writable(method.result, answer.value)
     ELSE answer.raises \in method.raises =>
            IDL!Writable(IDL!Struct(answer.raises), answer.value)

\* The message process_<method> writes: the exception it carries, whether
\* "success" is set, and whether the content tells of a failure.
Response(m, answer) ==
  LET method == IDL!Methods[m]
  IN [raises |-> IF answer.raises \in method.raises \cup {""}
                 THEN answer.raises ELSE "INTERNAL_ERROR",
      success |-> /\ answer.raises = ""
                  /\ method.result # IDL!Void
                  /\ answer.value # Handler!None,
      fails |-> answer.fails]

\* What recv_<method> makes of a message.
Heard(m, message) ==
  IF message.raises \in {"INTERNAL_ERROR", "UNKNOWN_METHOD"}
  THEN message.raises
  ELSE IF message.success
  THEN IF message.fails THEN "failure_reported" ELSE "returned"
  ELSE IF message.raises # ""
  THEN message.raises
  ELSE IF IDL!Methods[m].result = IDL!Void THEN "returned" ELSE "MISSING_RESULT"

-----------------------------------------------------------------------------
(* The portal                                                              *)

Init ==
  /\ client = [c \in Conns |-> [at |-> "new", heard |-> Silence]]
  /\ history = [c \in Conns |-> <<>>]
  /\ request = [c \in Conns |-> <<>>]
  /\ reply = [c \in Conns |-> <<>>]
  /\ queue = <<>>
  /\ worker = [w \in Workers |-> Free]
  /\ shut = {}

\* The portal opens the connection; serve() accepts it and queues it.
Connect(c) ==
  /\ client[c].at = "new"
  /\ client' = [client EXCEPT ![c].at = "idle"]
  /\ queue' = Append(queue, c)
  /\ UNCHANGED <<history, request, reply, worker, shut>>

\* send_<method>
Ask(c) ==
  /\ client[c].at = "idle"
  /\ Len(history[c]) < Len(Asks[c])
  /\ \E m \in Asks[c][Len(history[c]) + 1] :
        history' = [history EXCEPT ![c] =
                      Append(@, [method |-> m, changes |-> 0, outcome |-> ""])]
  /\ client' = [client EXCEPT ![c] = [at |-> "waiting", heard |-> Silence]]
  /\ request' = [request EXCEPT ![c] = Append(@, Len(history[c]) + 1)]
  /\ UNCHANGED <<reply, queue, worker, shut>>

\* recv_<method> reads the next message, whichever call it answers.
Hear(c) ==
  /\ client[c].at = "waiting"
  /\ reply[c] # <<>>
  /\ LET message == Head(reply[c])
         m == history[c][Len(history[c])].method
     IN client' = [client EXCEPT
                     ![c] = [at |-> "idle",
                             heard |-> [to |-> message.to, what |-> Heard(m, message)]]]
  /\ reply' = [reply EXCEPT ![c] = Tail(@)]
  /\ UNCHANGED <<history, request, queue, worker, shut>>

\* A connection is over when both ends have closed it: the messages on it are
\* lost, and its calls are forgotten.
Over(c) ==
  /\ history' = [history EXCEPT ![c] = <<>>]
  /\ request' = [request EXCEPT ![c] = <<>>]
  /\ reply' = [reply EXCEPT ![c] = <<>>]

\* The portal closes the connection: it has no further call, its patience or
\* its process ends, or it finds the connection closed.  Until the server
\* closes it too, a request already sent stays in the server's buffers.
HangUp(c) ==
  /\ client[c].at \in {"idle", "waiting"}
  /\ client' = [client EXCEPT ![c] = [at |-> "gone", heard |-> Silence]]
  /\ IF c \in shut THEN Over(c) ELSE UNCHANGED <<history, request, reply>>
  /\ UNCHANGED <<queue, worker, shut>>

-----------------------------------------------------------------------------
(* A thread of the server                                                  *)

\* The thread takes the connection that has waited longest.
Take(w) ==
  /\ worker[w].pc = "free"
  /\ queue # <<>>
  /\ worker' = [worker EXCEPT ![w] = [Free EXCEPT !.conn = Head(queue), !.pc = "reading"]]
  /\ queue' = Tail(queue)
  /\ UNCHANGED <<client, history, request, reply, shut>>

\* The thread closes the connection and is free again.
Leave(w) ==
  /\ worker' = [worker EXCEPT ![w] = Free]
  /\ shut' = shut \cup {worker[w].conn}
  /\ IF client[worker[w].conn].at = "gone"
     THEN Over(worker[w].conn)
     ELSE UNCHANGED <<history, request, reply>>

\* Processor.process reads the name of the method; one that the process map
\* does not hold is answered at once.
Read(w) ==
  LET c == worker[w].conn
  IN /\ worker[w].pc = "reading"
     /\ request[c] # <<>>
     /\ request' = [request EXCEPT ![c] = Tail(@)]
     /\ LET n == Head(request[c])
            unknown == [to |-> n, raises |-> "UNKNOWN_METHOD", success |-> FALSE,
                        fails |-> TRUE]
        IN \/ /\ history[c][n].method \in Known
              /\ worker' = [worker EXCEPT ![w] = [@ EXCEPT !.pc = "calling", !.n = n]]
              /\ reply' = reply
           \/ /\ history[c][n].method \notin Known
              /\ reply' = [reply EXCEPT ![c] = Append(@, unknown)]
              /\ worker' = worker
     /\ UNCHANGED <<client, history, queue, shut>>

\* The outcomes a request can meet, and the changes each can have made.  What
\* was deleted by its identifier is not deleted again.
Outcomes(m) == {o \in Handler!Outcome : Handler!Answers[m][o] # {}}
MayChange(m, outcome) ==
  IF m \notin Handler!Changing \/ outcome \in {"absent", "lookup"} THEN {0}
  ELSE IF outcome = "done" THEN {1}
  ELSE IF outcome \in {"missed", "slow", "broken"} \/ m \in Handler!FailsLate THEN {0, 1}
  ELSE {0}
Changes(call, outcome) ==
  IF call.method \in Handler!DeletingById /\ call.changes > 0 THEN {0}
  ELSE MayChange(call.method, outcome)

\* One request of the connector, with the lookups before it.  The session
\* repeats it when its answer is lost, and some after a server error, as often
\* as Repeats allows; otherwise the handler ends.
Attempt(w) ==
  LET c == worker[w].conn
      n == worker[w].n
      repeats == Handler!Repeats(Method(w))
  IN /\ worker[w].pc = "calling"
     /\ \E outcome \in Outcomes(Method(w)) :
          /\ outcome = "lookup" => worker[w].tries = 0
          /\ \E change \in Changes(history[c][n], outcome) :
               history' = [history EXCEPT ![c][n] =
                             [method |-> @.method, changes |-> @.changes + change,
                              outcome |-> outcome]]
          /\ \/ /\ outcome \in {"slow", "broken"} /\ worker[w].tries < repeats
                /\ worker' = [worker EXCEPT ![w].tries = @ + 1]
             \/ /\ outcome = "slow" => worker[w].tries = repeats
                /\ \E answer \in Handler!Answers[Method(w)][outcome] :
                     worker' = [worker EXCEPT
                                  ![w] = [@ EXCEPT !.pc = "writing", !.answer = answer]]
     /\ UNCHANGED <<client, request, reply, queue, shut>>

\* process_<method> writes the answer.  When it cannot, the exception leaves
\* process() before anything was flushed, and the thread leaves the connection.
Write(w) ==
  LET c == worker[w].conn
      n == worker[w].n
      answer == worker[w].answer
      message == Response(Method(w), answer)
  IN /\ worker[w].pc = "writing"
     /\ IF CanWrite(Method(w), answer)
        THEN /\ reply' = [reply EXCEPT ![c] =
                            Append(@, [to |-> n, raises |-> message.raises,
                                       success |-> message.success,
                                       fails |-> message.fails])]
             /\ worker' = [worker EXCEPT ![w] =
                             [Free EXCEPT !.conn = c, !.pc = "reading"]]
             /\ UNCHANGED <<history, request, shut>>
        ELSE Leave(w)
     /\ UNCHANGED <<client, queue>>

\* The thread finds that the client has closed the connection: when there is
\* no further request to read, or when the answer cannot be sent.
FindClosed(w) ==
  /\ \/ worker[w].pc = "reading" /\ request[worker[w].conn] = <<>>
     \/ worker[w].pc = "writing"
  /\ client[worker[w].conn].at = "gone"
  /\ Leave(w)
  /\ UNCHANGED <<client, queue>>

-----------------------------------------------------------------------------
(* Specification                                                           *)

Next ==
  \/ \E c \in Conns : Connect(c) \/ Ask(c) \/ Hear(c) \/ HangUp(c)
  \/ \E w \in Workers : Take(w) \/ Read(w) \/ Attempt(w) \/ Write(w) \/ FindClosed(w)

\* The requests that may have no end: that for the log of a cluster has no
\* timeout, nor have those to Redis and the waits for a volume or a snapshot.
Untimed ==
  {"get_cluster_log", "get_server", "get_server_by_unique_name", "get_servers",
   "get_playbook_logs", "create_and_deploy_playbook", "start_server_with_custom_key",
   "attach_volume_to_server", "detach_volume", "create_volume_snapshot"}

TimedAttempt(w) ==
  /\ worker[w].pc = "calling"
  /\ Method(w) \notin Untimed
  /\ Attempt(w)

\* A thread that can go on does.  The other requests end by their timeouts.
\* Nothing is assumed of the portal.
Fairness ==
  \A w \in Workers :
     WF_vars(Take(w)) /\ WF_vars(Read(w)) /\ WF_vars(TimedAttempt(w)) /\ WF_vars(Write(w))

Spec == Init /\ [][Next]_vars /\ Fairness

-----------------------------------------------------------------------------
(* Properties                                                              *)

\* The types of the variables; a thread at work has a call of its connection,
\* for a method the processor knows, and repeats its request at most as often
\* as the session allows.
Asked == UNION {UNION {Asks[c][n] : n \in 1..Len(Asks[c])} : c \in Conns}
Raised == {"", "INTERNAL_ERROR", "UNKNOWN_METHOD"}
            \cup UNION {IDL!Methods[m].raises : m \in Known}
Call == [method : Asked, changes : Nat, outcome : Handler!Outcome \cup {""}]
Message == [to : Nat, raises : Raised, success : BOOLEAN, fails : BOOLEAN]
Hearing == [to : Nat, what : Raised \cup {"returned", "failure_reported", "MISSING_RESULT"}]

TypeOK ==
  /\ client \in [Conns -> [at : {"new", "idle", "waiting", "gone"}, heard : Hearing]]
  /\ history \in [Conns -> Seq(Call)]
  /\ request \in [Conns -> Seq(Nat)]
  /\ reply \in [Conns -> Seq(Message)]
  /\ queue \in Seq(Conns)
  /\ \A w \in Workers :
       \/ worker[w] = Free
       \/ /\ worker[w].conn \in Conns
          /\ worker[w].pc \in {"reading", "calling", "writing"}
          /\ worker[w].pc # "reading" =>
               /\ worker[w].n \in 1..Len(history[worker[w].conn])
               /\ Method(w) \in Known
               /\ worker[w].tries \in 0..Handler!Repeats(Method(w))
  /\ shut \subseteq Conns

\* The last call of a connection, and what the client heard of it.
Last(c) == history[c][Len(history[c])]
HasHeard(c, what) == client[c].heard.what = what

\* The client takes every answer for the answer to the call it has made last,
\* and it is.
AnswersMatchCalls ==
  \A c \in Conns : client[c].heard # Silence => client[c].heard.to = Len(history[c])

\* A call whose client still waits is not lost: its request or its answer is on
\* the way, a thread works on it, or the connection was closed.
NoCallIsLost ==
  \A c \in Conns : client[c].at = "waiting" =>
     \/ request[c] # <<>>
     \/ reply[c] # <<>>
     \/ \E w \in Workers : Serving(w, c) /\ worker[w].pc \in {"calling", "writing"}
     \/ c \in shut

\* The methods that return although their request may have been refused: the
\* handler of detach_ip_from_server is the empty one of Iface, set_metadata and
\* remove_metadata swallow every failure, delete_backend raises for 404 and 500
\* only, terminate_cluster takes any JSON for an answer.
Silent ==
  {"detach_ip_from_server", "set_metadata_server_data", "remove_metadata_server_data",
   "delete_backend", "terminate_cluster"}

\* When a call that is to change something returns, the change was made, or
\* the thing to be changed did not exist.
ReturnedMeansDone ==
  \A c \in Conns :
     HasHeard(c, "returned") /\ Last(c).method \in Handler!Changing \ Silent =>
        Last(c).changes > 0 \/ Last(c).outcome = "absent"

\* When a call ends with a declared exception that names a reason (not found,
\* conflict, not available; DefaultException names none), nothing was changed.
\* The exceptions are the reasons that a method can meet after a change of its
\* own or at the repetition of its DELETE, and that of delete_backend, which
\* takes a server error of FORC for a missing backend.
Excused(m) ==
  CASE m \in {"create_snapshot", "delete_server", "detach_volume",
              "remove_security_groups_from_server",
              "open_port_range_for_vm_in_project"} -> {"OpenStackConflictException"}
    [] m = "start_server_with_custom_key" ->
         {"ImageNotFoundException", "FlavorNotFoundException"}
    [] m = "delete_volume" -> {"VolumeNotFoundException"}
    [] m = "delete_volume_snapshot" -> {"SnapshotNotFoundException"}
    [] m = "delete_backend" -> {"BackendNotFoundException"}
    [] OTHER -> {}

NamedReasons(m) == IDL!Methods[m].raises \ ({"DefaultException"} \cup Excused(m))

ReasonMeansUndone ==
  \A c \in Conns :
     ( /\ client[c].heard # Silence
       /\ Last(c).method \in Known
       /\ client[c].heard.what \in NamedReasons(Last(c).method) )
     => Last(c).changes = 0

\* A client hears of a missing result only from a method of Iface the handler
\* does not define, and from a deployment to a server whose ssh port is closed.
Undefined ==
  {"is_version", "get_client_version", "scale_up_cluster", "create_and_deploy_playbook"}

MissingOnlyUndefined ==
  \A c \in Conns : HasHeard(c, "MISSING_RESULT") => Last(c).method \in Undefined

\* What a client hears of a call that was not carried out is true: a reason is
\* named only if nothing was changed, and a result is missing only where the
\* handler has none.
RefusalsAreTrue == ReasonMeansUndone /\ MissingOnlyUndefined

\* A call changes something at most once, unless the session of the connector
\* repeats its request: then a cluster may be created or terminated again, as
\* often as the request is sent, and the key pair or the attachment deleted
\* that another call has made meanwhile.
Repeated == {"start_cluster", "terminate_cluster"} \cup Handler!DeletingByName

ChangedOncePerCall ==
  \A c \in Conns : \A n \in 1..Len(history[c]) :
     LET call == history[c][n]
     IN call.changes <= IF call.method \in Repeated THEN 4 ELSE 1

\* What a client may hear of a call: the properties above, of one call.
Accords(call, what) ==
  /\ what = "returned" /\ call.method \in Handler!Changing \ Silent =>
       call.changes > 0 \/ call.outcome = "absent"
  /\ call.method \in Known /\ what \in NamedReasons(call.method) => call.changes = 0
  /\ what = "MISSING_RESULT" => call.method \in Undefined

\* The last call of c may still change something: its request has not been read
\* or a thread is about to send one of its own.
Working(c) ==
  \/ request[c] # <<>>
  \/ \E w \in Workers : Serving(w, c) /\ worker[w].pc = "calling"

Promise == INSTANCE Calls WITH
  calls <- history, busy <- {c \in Conns : Working(c)},
  Methods <- Asked, Results <- Handler!Outcome, Repeats <- Repeated,
  Truthful <- Accords

\* The portal sees one call after the other, although nobody compares the
\* numbers of messages: an answer is that of the call made last, nothing is
\* changed for a call that was answered, and what is heard of it is true.
ImplementsCalls == Promise!CallsSpec

\* A thread that has begun a call comes to its end, unless its request may have
\* none.
CallsEnd ==
  \A w \in Workers :
     (worker[w].pc \in {"calling", "writing"} /\ Method(w) \notin Untimed) ~>
        (worker[w].pc \in {"free", "reading"})

-----------------------------------------------------------------------------
(* What the theorems need of the constants and of the tables               *)

ASSUME ConnsAssumption == NoConn \notin Conns

ASSUME AsksAssumption == Asks \in [Conns -> Seq(SUBSET Asked)]

\* No declared exception is called like something else a client may hear.
ASSUME NamesAssumption ==
  \A m \in Known :
     IDL!Methods[m].raises \cap
       {"", "INTERNAL_ERROR", "UNKNOWN_METHOD", "MISSING_RESULT", "returned",
        "failure_reported"} = {}

\* Every answer of a known method has the shape Processor expects.
ASSUME AnswersAssumption ==
  \A m \in Known : \A o \in Handler!Outcome : \A a \in Handler!Answers[m][o] :
     a.fails \in BOOLEAN

\* A method that changes something returns a plain value or nothing only when
\* it was done, or there was nothing to do it to.
ASSUME ReturnsAssumption ==
  \A m \in (Known \cap Handler!Changing) \ Silent :
  \A o \in Handler!Outcome \ {"done", "absent"} : \A a \in Handler!Answers[m][o] :
     a.raises = "" => /\ IDL!Methods[m].result # IDL!Void
                      /\ a.value = Handler!None \/ a.fails

\* A reason is named, in an exception that can be written, only by an outcome
\* that changes nothing, of a request that is not repeated or comes before it.
ASSUME ReasonsAssumption ==
  \A m \in Known \cap Handler!Changing :
  \A o \in Handler!Outcome : \A a \in Handler!Answers[m][o] :
     a.raises \in NamedReasons(m) /\ IDL!Writable(IDL!Struct(a.raises), a.value) =>
       /\ MayChange(m, o) = {0}
       /\ Handler!Repeats(m) = 0 \/ o = "lookup"

\* Only these methods return None where the interface has a result.
ASSUME ResultsAssumption ==
  \A m \in Known \ Undefined : \A o \in Handler!Outcome : \A a \in Handler!Answers[m][o] :
     a.raises = "" /\ a.value = Handler!None => IDL!Methods[m].result = IDL!Void

=============================================================================
