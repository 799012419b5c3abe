------------------------------ MODULE Rpc_proofs ------------------------------
(***************************************************************************)
(* Proofs about Rpc.  A connection is in one place at a time, and so is    *)
(* the call made last on it: in the request, with one thread, in the       *)
(* answer, or with the client.  What the answer says of the call was true  *)
(* when the handler ended, and nothing touches the call afterwards.  The   *)
(* tables of Interface and Handlers are used through the assumptions at    *)
(* the end of Rpc only.                                                    *)
(***************************************************************************)
EXTENDS Rpc, SequenceTheorems, TLAPS

AnyAnswer ==
  {NoAnswer} \cup UNION {UNION {Handler!Answers[m][o] : o \in Handler!Outcome} : m \in Known}

WorkerType ==
  [conn : Conns \cup {NoConn}, pc : {"free", "reading", "calling", "writing"},
   n : Nat, tries : Nat, answer : AnyAnswer]

Types ==
  /\ client \in [Conns -> [at : {"new", "idle", "waiting", "gone"}, heard : Hearing]]
  /\ history \in [Conns -> Seq(Call)]
  /\ request \in [Conns -> Seq(Nat)]
  /\ reply \in [Conns -> Seq(Message)]
  /\ queue \in Seq(Conns)
  /\ worker \in [Workers -> WorkerType]
  /\ shut \subseteq Conns

(* A connection is new, queued, served by one thread, or shut.             *)
Served == \A w \in Workers :
  /\ worker[w].pc = "free" => worker[w] = Free
  /\ worker[w].conn = NoConn <=> worker[w].pc = "free"
  /\ worker[w].conn # NoConn =>
       worker[w].conn \notin shut /\ client[worker[w].conn].at # "new"
  /\ \A i \in 1..Len(queue) : queue[i] # worker[w].conn

Alone == \A v, w \in Workers :
  worker[v].conn = worker[w].conn /\ worker[v].conn # NoConn => v = w

Queued ==
  /\ \A i, j \in 1..Len(queue) : queue[i] = queue[j] => i = j
  /\ \A i \in 1..Len(queue) : queue[i] \notin shut /\ client[queue[i]].at # "new"

Opened == \A c \in shut : client[c].at # "new"

Places == Served /\ Alone /\ Queued /\ Opened

(* The call made last on c, at each place it can be in.                    *)
InRequest(c) ==
  request[c] # <<>> =>
    /\ client[c].at \in {"waiting", "gone"}
    /\ client[c].at = "waiting" => reply[c] = <<>>
    /\ Len(request[c]) = 1
    /\ Head(request[c]) = Len(history[c])
    /\ Len(history[c]) > 0
    /\ Last(c).changes = 0

InReply(c) ==
  reply[c] # <<>> /\ client[c].at # "gone" =>
    /\ client[c].at = "waiting"
    /\ Len(reply[c]) = 1
    /\ Head(reply[c]).to = Len(history[c])
    /\ Len(history[c]) > 0
    /\ Accords(Last(c), Heard(Last(c).method, Head(reply[c])))

WithClient(c) ==
  client[c].heard # Silence =>
    /\ client[c].at = "idle"
    /\ client[c].heard.to = Len(history[c])
    /\ Len(history[c]) > 0
    /\ Accords(Last(c), client[c].heard.what)

Busy(w) == worker[w].pc \in {"calling", "writing"}

InThread(w) ==
  Busy(w) =>
    /\ client[worker[w].conn].at \in {"waiting", "gone"}
    /\ client[worker[w].conn].at = "waiting" => reply[worker[w].conn] = <<>>
    /\ request[worker[w].conn] = <<>>
    /\ worker[w].n = Len(history[worker[w].conn])
    /\ worker[w].n > 0
    /\ Method(w) \in Known
    /\ worker[w].tries <= Handler!Repeats(Method(w))

Flow ==
  /\ \A c \in Conns : InRequest(c) /\ InReply(c) /\ WithClient(c)
  /\ \A w \in Workers : InThread(w)

(* What a thread has done for its call.                                    *)
ThreadsCall(w) == Last(worker[w].conn)

Calling(w) ==
  worker[w].pc = "calling" =>
    ThreadsCall(w).changes <=
      IF ThreadsCall(w).method \in Handler!Changing THEN worker[w].tries ELSE 0

(* A request that changes nothing, and that is not repeated.               *)
Harmless(call) ==
  /\ MayChange(call.method, call.outcome) = {0}
  /\ Handler!Repeats(call.method) = 0 \/ call.outcome = "lookup"

Writing(w) ==
  worker[w].pc = "writing" =>
    LET call == ThreadsCall(w)
    IN /\ call.outcome \in Handler!Outcome
       /\ worker[w].answer \in Handler!Answers[call.method][call.outcome]
       /\ call.method \in Handler!Changing /\ call.outcome = "done" => call.changes > 0
       /\ call.method \notin Handler!Changing => call.changes = 0
       /\ Harmless(call) => call.changes = 0

Reading(w) == worker[w].pc = "reading" => worker[w].tries = 0

Work == \A w \in Workers : Reading(w) /\ Calling(w) /\ Writing(w)

(* Everything the theorems need.                                           *)
IInv == Types /\ Places /\ Flow /\ Work /\ ChangedOncePerCall /\ NoCallIsLost

-----------------------------------------------------------------------------
(* The tables                                                              *)

(* A session sends a request four times at most.  Of those it repeats, few *)
(* change something, and some of these can do so only once.                *)
LEMMA RepeatsBound ==
  ASSUME NEW m
  PROVE  /\ Handler!Repeats(m) \in 0..3
         /\ m \in Handler!Changing \ (Repeated \cup Handler!DeletingById) =>
              Handler!Repeats(m) = 0
BY DEF Handler!Repeats, Handler!Changing, Handler!Reading, Handler!DeletingById,
       Handler!DeletingByName, Handler!Retrying, Repeated

LEMMA DistinctMethods ==
  /\ Repeated \subseteq Handler!Changing
  /\ Repeated \cap Handler!DeletingById = {}
BY DEF Handler!Changing, Handler!DeletingById, Handler!DeletingByName, Repeated

(* A request changes something at most once; one of a method that changes  *)
(* nothing never does.                                                     *)
LEMMA ChangesBound ==
  ASSUME NEW call, NEW o, NEW change \in Changes(call, o)
  PROVE  /\ change \in {0, 1}
         /\ call.method \notin Handler!Changing => change = 0
         /\ MayChange(call.method, o) = {0} => change = 0
         /\ call.method \in Handler!Changing /\ o = "done" => change = 1 \/ call.changes > 0
         /\ call.method \in Handler!DeletingById /\ call.changes > 0 => change = 0
BY DEF Changes, MayChange

(* What a client may hear of an answer the generated code can write.       *)
LEMMA AnswersAccord ==
  ASSUME NEW call \in Call, call.method \in Known,
         NEW answer \in Handler!Answers[call.method][call.outcome],
         call.outcome \in Handler!Outcome,
         call.method \in Handler!Changing /\ call.outcome = "done" => call.changes > 0,
         call.method \notin Handler!Changing => call.changes = 0,
         Harmless(call) => call.changes = 0,
         CanWrite(call.method, answer),
         NEW to
  PROVE  LET r == Response(call.method, answer)
         IN Accords(call, Heard(call.method, [to |-> to, raises |-> r.raises,
                                              success |-> r.success, fails |-> r.fails]))
<1> DEFINE m == call.method
           o == call.outcome
           r == Response(m, answer)
           message == [to |-> to, raises |-> r.raises, success |-> r.success,
                       fails |-> r.fails]
           what == Heard(m, message)
<1>1. IDL!Methods[m].raises \cap
        {"", "INTERNAL_ERROR", "UNKNOWN_METHOD", "MISSING_RESULT", "returned",
         "failure_reported"} = {}
  BY NamesAssumption
<1>2. ASSUME what = "returned", m \in Handler!Changing \ Silent
      PROVE  call.changes > 0 \/ o = "absent"
  <2>1. answer.raises = ""
    BY <1>1, <1>2 DEF Heard, Response
  <2>2. ~ (/\ IDL!Methods[m].result # IDL!Void
           /\ answer.value = Handler!None \/ answer.fails)
    BY <1>1, <1>2, <2>1 DEF Heard, Response
  <2>3. o \in {"done", "absent"}
    BY <1>2, <2>1, <2>2, ReturnsAssumption
  <2> QED
    BY <1>2, <2>3
<1>3. ASSUME m \in Known, what \in NamedReasons(m)
      PROVE  call.changes = 0
  <2>1. answer.raises \in NamedReasons(m)
    BY <1>1, <1>3 DEF Heard, Response, NamedReasons
  <2>2. IDL!Writable(IDL!Struct(answer.raises), answer.value)
    BY <1>1, <2>1 DEF CanWrite, NamedReasons
  <2>3. CASE m \in Handler!Changing
    BY <1>3, <2>1, <2>2, <2>3, ReasonsAssumption DEF Harmless
  <2>4. CASE m \notin Handler!Changing
    BY <2>4
  <2> QED
    BY <2>3, <2>4
<1>4. ASSUME what = "MISSING_RESULT"
      PROVE  m \in Undefined
  <2>1. answer.raises = "" /\ answer.value = Handler!None /\ IDL!Methods[m].result # IDL!Void
    BY <1>1, <1>4 DEF Heard, Response
  <2> QED
    BY <2>1, ResultsAssumption
<1> QED
  BY <1>2, <1>3, <1>4 DEF Accords

-----------------------------------------------------------------------------
(* Types                                                                   *)

LEMMA AppendType ==
  ASSUME NEW S, NEW s \in Seq(S), NEW e \in S
  PROVE  Append(s, e) \in Seq(S)
OBVIOUS

LEMMA AnswerTypes ==
  ASSUME NEW answer \in AnyAnswer
  PROVE  answer.fails \in BOOLEAN
<1>1. CASE answer = NoAnswer
  BY <1>1 DEF NoAnswer
<1>2. CASE answer # NoAnswer
  <2>1. PICK m \in Known, o \in Handler!Outcome : answer \in Handler!Answers[m][o]
    BY <1>2 DEF AnyAnswer
  <2> QED
    BY <2>1, AnswersAssumption
<1> QED
  BY <1>1, <1>2

LEMMA ResponseTypes ==
  ASSUME NEW m \in Known, NEW answer \in AnyAnswer
  PROVE  LET r == Response(m, answer)
         IN r.raises \in Raised /\ r.success \in BOOLEAN /\ r.fails \in BOOLEAN
<1>1. IDL!Methods[m].raises \cup {"", "INTERNAL_ERROR"} \subseteq Raised
  BY DEF Raised
<1> QED
  BY <1>1, AnswerTypes DEF Response

LEMMA HeardType ==
  ASSUME NEW m, NEW message \in Message
  PROVE  Heard(m, message) \in
           Raised \cup {"returned", "failure_reported", "MISSING_RESULT"}
<1>1. message.raises \in Raised
  BY DEF Message
<1> QED
  BY <1>1 DEF Heard

LEMMA SilenceType == Silence \in Hearing
BY DEF Silence, Hearing, Raised

LEMMA FreeType == Free \in WorkerType /\ NoAnswer \in AnyAnswer
BY DEF Free, WorkerType, AnyAnswer

LEMMA LastType ==
  ASSUME Types, NEW c \in Conns, Len(history[c]) > 0
  PROVE  Last(c) \in Call /\ Len(history[c]) \in 1..Len(history[c])
<1>1. history[c] \in Seq(Call)
  BY DEF Types
<1>2. Len(history[c]) \in Nat
  BY <1>1, LenProperties
<1>3. Len(history[c]) \in 1..Len(history[c])
  BY <1>2
<1> QED
  BY <1>1, <1>3, ElementOfSeq DEF Last

LEMMA TypesInit == Init => Types
<1> SUFFICES ASSUME Init PROVE Types
  OBVIOUS
<1>1. worker \in [Workers -> WorkerType]
  BY FreeType DEF Init
<1>2. \A S : <<>> \in Seq(S)
  BY EmptySeq
<1> QED
  BY <1>1, <1>2, SilenceType DEF Init, Types

(* The call of a thread is the last of its connection.                     *)
LEMMA ThreadFacts ==
  ASSUME IInv, NEW w \in Workers, Busy(w)
  PROVE  /\ worker[w].conn \in Conns
         /\ Len(history[worker[w].conn]) > 0
         /\ worker[w].n \in 1..Len(history[worker[w].conn])
         /\ worker[w].n = Len(history[worker[w].conn])
         /\ Method(w) = Last(worker[w].conn).method
         /\ history[worker[w].conn][worker[w].n] = Last(worker[w].conn)
         /\ Last(worker[w].conn) \in Call
         /\ Method(w) \in Known
<1>1. worker[w].conn \in Conns
  BY DEF IInv, Types, WorkerType, Places, Served, Busy
<1>2. worker[w].n = Len(history[worker[w].conn]) /\ worker[w].n > 0 /\ Method(w) \in Known
  BY DEF IInv, Flow, InThread
<1>3. Last(worker[w].conn) \in Call /\ worker[w].n \in 1..Len(history[worker[w].conn])
  BY <1>1, <1>2, LastType DEF IInv
<1> QED
  BY <1>1, <1>2, <1>3 DEF Method, Last

LEMMA TypesOver ==
  ASSUME Types, NEW c \in Conns, Over(c)
  PROVE  /\ history' \in [Conns -> Seq(Call)]
         /\ request' \in [Conns -> Seq(Nat)]
         /\ reply' \in [Conns -> Seq(Message)]
<1>1. \A S : <<>> \in Seq(S)
  BY EmptySeq
<1> QED
  BY <1>1 DEF Types, Over

LEMMA TypesStep ==
  ASSUME IInv, [Next]_vars
  PROVE  Types'
<1>1. Types
  BY DEF IInv
<1>2. ASSUME NEW c \in Conns, Connect(c) PROVE Types'
  <2>1. Append(queue, c) \in Seq(Conns)
    BY <1>1 DEF Types
  <2> QED
    BY <1>1, <1>2, <2>1 DEF Connect, Types
<1>3. ASSUME NEW c \in Conns, Ask(c) PROVE Types'
  <2>1. history[c] \in Seq(Call) /\ Len(history[c]) \in Nat /\ request[c] \in Seq(Nat)
    BY <1>1 DEF Types
  <2>2. Len(history[c]) + 1 \in 1..Len(Asks[c])
    <3>1. Asks[c] \in Seq(SUBSET Asked)
      BY AsksAssumption
    <3>2. Len(Asks[c]) \in Nat
      BY <3>1
    <3>3. Len(history[c]) < Len(Asks[c])
      BY <1>3 DEF Ask
    <3> QED
      BY <2>1, <3>2, <3>3
  <2>3. Asks[c][Len(history[c]) + 1] \in SUBSET Asked
    <3>1. Asks[c] \in Seq(SUBSET Asked)
      BY AsksAssumption
    <3> QED
      BY <2>2, <3>1, ElementOfSeq
  <2>4. history' \in [Conns -> Seq(Call)]
    <3>1. PICK m \in Asks[c][Len(history[c]) + 1] :
            history' = [history EXCEPT ![c] =
                          Append(@, [method |-> m, changes |-> 0, outcome |-> ""])]
      BY <1>3 DEF Ask
    <3>2. [method |-> m, changes |-> 0, outcome |-> ""] \in Call
      <4>1. m \in Asked
        BY <2>3
      <4> QED
        BY <4>1 DEF Call
    <3>3. Append(history[c], [method |-> m, changes |-> 0, outcome |-> ""]) \in Seq(Call)
      BY <2>1, <3>2, AppendType
    <3> QED
      BY <1>1, <3>1, <3>3 DEF Types
  <2>5. request' \in [Conns -> Seq(Nat)]
    <3>1. Append(request[c], Len(history[c]) + 1) \in Seq(Nat)
      BY <2>1
    <3> QED
      BY <1>1, <1>3, <3>1 DEF Ask, Types
  <2> QED
    BY <1>1, <1>3, <2>4, <2>5, SilenceType DEF Ask, Types
<1>4. ASSUME NEW c \in Conns, Hear(c) PROVE Types'
  <2>1. reply[c] \in Seq(Message) /\ reply[c] # <<>>
    BY <1>1, <1>4 DEF Types, Hear
  <2>2. Head(reply[c]) \in Message /\ Tail(reply[c]) \in Seq(Message)
    BY <2>1, HeadTailProperties
  <2>3. Head(reply[c]).to \in Nat
    BY <2>2 DEF Message
  <2>4. [to |-> Head(reply[c]).to,
         what |-> Heard(history[c][Len(history[c])].method, Head(reply[c]))] \in Hearing
    BY <2>2, <2>3, HeardType DEF Hearing
  <2> QED
    BY <1>1, <1>4, <2>2, <2>3, <2>4 DEF Hear, Types
<1>5. ASSUME NEW c \in Conns, HangUp(c) PROVE Types'
  <2>1. /\ history' \in [Conns -> Seq(Call)]
        /\ request' \in [Conns -> Seq(Nat)]
        /\ reply' \in [Conns -> Seq(Message)]
    BY <1>1, <1>5, TypesOver DEF HangUp, Types
  <2> QED
    BY <1>1, <1>5, <2>1, SilenceType DEF HangUp, Types
<1>6. ASSUME NEW w \in Workers, Take(w) PROVE Types'
  <2>1. Head(queue) \in Conns /\ Tail(queue) \in Seq(Conns)
    BY <1>1, <1>6, HeadTailProperties DEF Types, Take
  <2>2. [Free EXCEPT !.conn = Head(queue), !.pc = "reading"] \in WorkerType
    BY <2>1, FreeType DEF Free, WorkerType
  <2> QED
    BY <1>1, <1>6, <2>1, <2>2 DEF Take, Types
<1>7. ASSUME NEW w \in Workers, Read(w) PROVE Types'
  <2> DEFINE c == worker[w].conn
  <2>1. c \in Conns
    BY <1>1, <1>7 DEF Read, IInv, Places, Served, Types, WorkerType
  <2>2. Head(request[c]) \in Nat /\ Tail(request[c]) \in Seq(Nat)
    BY <1>1, <1>7, <2>1, HeadTailProperties DEF Types, Read
  <2>3. request' \in [Conns -> Seq(Nat)]
    BY <1>1, <1>7, <2>2 DEF Types, Read
  <2>4. [to |-> Head(request[c]), raises |-> "UNKNOWN_METHOD", success |-> FALSE,
         fails |-> TRUE] \in Message
    BY <2>2 DEF Message, Raised
  <2>5. Append(reply[c], [to |-> Head(request[c]), raises |-> "UNKNOWN_METHOD",
                          success |-> FALSE, fails |-> TRUE]) \in Seq(Message)
    BY <1>1, <2>1, <2>4 DEF Types
  <2>6. reply' \in [Conns -> Seq(Message)]
    BY <1>1, <1>7, <2>5 DEF Types, Read
  <2>7. worker' \in [Workers -> WorkerType]
    <3>1. worker[w] \in WorkerType
      BY <1>1 DEF Types
    <3>2. [worker[w] EXCEPT !.pc = "calling", !.n = Head(request[c])] \in WorkerType
      BY <2>2, <3>1 DEF WorkerType
    <3> QED
      BY <1>1, <1>7, <3>2 DEF Types, Read
  <2> QED
    BY <1>1, <1>7, <2>3, <2>6, <2>7 DEF Types, Read
<1>8. ASSUME NEW w \in Workers, Attempt(w) PROVE Types'
  <2> DEFINE c == worker[w].conn
             n == worker[w].n
  <2>1. Busy(w)
    BY <1>8 DEF Attempt, Busy
  <2>2. c \in Conns /\ n \in 1..Len(history[c]) /\ history[c][n] \in Call /\ Method(w) \in Known
    BY <2>1, ThreadFacts
  <2>3. PICK outcome \in Outcomes(Method(w)) :
          /\ \E change \in Changes(history[c][n], outcome) :
               history' = [history EXCEPT ![c][n] =
                             [method |-> @.method, changes |-> @.changes + change,
                              outcome |-> outcome]]
          /\ \/ worker' = [worker EXCEPT ![w].tries = @ + 1]
             \/ \E answer \in Handler!Answers[Method(w)][outcome] :
                  worker' = [worker EXCEPT ![w] = [@ EXCEPT !.pc = "writing", !.answer = answer]]
    BY <1>8 DEF Attempt
  <2>4. history' \in [Conns -> Seq(Call)]
    <3>1. PICK change \in Changes(history[c][n], outcome) :
               history' = [history EXCEPT ![c][n] =
                             [method |-> @.method, changes |-> @.changes + change,
                              outcome |-> outcome]]
      BY <2>3
    <3>2. change \in {0, 1} /\ outcome \in Handler!Outcome
      BY ChangesBound DEF Outcomes
    <3>3. [method |-> history[c][n].method, changes |-> history[c][n].changes + change,
           outcome |-> outcome] \in Call
      <4>1. history[c][n].method \in Asked /\ history[c][n].changes \in Nat
        BY <2>2 DEF Call
      <4>2. history[c][n].changes + change \in Nat
        BY <3>2, <4>1
      <4> QED
        BY <3>2, <4>1, <4>2 DEF Call
    <3>4. [history[c] EXCEPT ![n] =
             [method |-> @.method, changes |-> @.changes + change, outcome |-> outcome]]
            \in Seq(Call)
      BY <1>1, <2>2, <3>3, ExceptSeq DEF Types
    <3> QED
      BY <1>1, <3>1, <3>4 DEF Types
  <2>5. worker' \in [Workers -> WorkerType]
    <3>1. worker[w] \in WorkerType
      BY <1>1 DEF Types
    <3>2. [worker[w] EXCEPT !.tries = @ + 1] \in WorkerType
      BY <3>1 DEF WorkerType
    <3>3. ASSUME NEW answer \in Handler!Answers[Method(w)][outcome]
          PROVE  [worker[w] EXCEPT !.pc = "writing", !.answer = answer] \in WorkerType
      <4>1. answer \in AnyAnswer
        BY <2>2 DEF AnyAnswer, Outcomes
      <4> QED
        BY <3>1, <4>1 DEF WorkerType
    <3>4. CASE worker' = [worker EXCEPT ![w].tries = @ + 1]
      <4> DEFINE r == [worker[w] EXCEPT !.tries = @ + 1]
      <4>1. r \in WorkerType /\ worker' = [worker EXCEPT ![w] = r]
        BY <3>2, <3>4
      <4> HIDE DEF r
      <4> QED
        BY <1>1, <4>1 DEF Types
    <3>5. CASE \E answer \in Handler!Answers[Method(w)][outcome] :
                 worker' = [worker EXCEPT ![w] = [@ EXCEPT !.pc = "writing", !.answer = answer]]
      BY <1>1, <3>3, <3>5 DEF Types
    <3> QED
      BY <2>3, <3>4, <3>5
  <2> QED
    BY <1>1, <1>8, <2>4, <2>5 DEF Types, Attempt
<1>9. ASSUME NEW w \in Workers, Leave(w), worker[w].pc # "free",
             UNCHANGED <<client, queue, reply>> \/ UNCHANGED <<client, queue>>
      PROVE  Types'
  <2>1. worker[w].conn \in Conns
    BY <1>1, <1>9 DEF IInv, Places, Served, Types, WorkerType
  <2>2. /\ history' \in [Conns -> Seq(Call)]
        /\ request' \in [Conns -> Seq(Nat)]
        /\ reply' \in [Conns -> Seq(Message)]
    BY <1>1, <1>9, <2>1, TypesOver DEF Leave, Types
  <2> QED
    BY <1>1, <1>9, <2>1, <2>2, FreeType DEF Leave, Types
<1>10. ASSUME NEW w \in Workers, Write(w) PROVE Types'
  <2> DEFINE c == worker[w].conn
             message == Response(Method(w), worker[w].answer)
  <2>1. c \in Conns /\ worker[w].n \in Nat /\ worker[w].answer \in AnyAnswer
    BY <1>1, <1>10 DEF Write, IInv, Places, Served, Types, WorkerType
  <2>4. Method(w) \in Known
    BY <1>10, ThreadFacts DEF Write, Busy
  <2>2. CASE CanWrite(Method(w), worker[w].answer)
    <3>1. [to |-> worker[w].n, raises |-> message.raises, success |-> message.success,
           fails |-> message.fails] \in Message
      BY <2>1, <2>4, ResponseTypes DEF Message
    <3>2. Append(reply[c], [to |-> worker[w].n, raises |-> message.raises,
                            success |-> message.success, fails |-> message.fails])
            \in Seq(Message)
      BY <1>1, <2>1, <3>1 DEF Types
    <3>3. [Free EXCEPT !.conn = c, !.pc = "reading"] \in WorkerType
      BY <2>1, FreeType DEF Free, WorkerType
    <3> QED
      BY <1>1, <1>10, <2>1, <2>2, <3>2, <3>3 DEF Write, Types
  <2>3. CASE ~CanWrite(Method(w), worker[w].answer)
    BY <1>9, <1>10, <2>3 DEF Write
  <2> QED
    BY <2>2, <2>3
<1>11. ASSUME NEW w \in Workers, FindClosed(w) PROVE Types'
  BY <1>9, <1>11 DEF FindClosed
<1>12. CASE UNCHANGED vars
  BY <1>1, <1>12 DEF Types, vars
<1> QED
  BY <1>2, <1>3, <1>4, <1>5, <1>6, <1>7, <1>8, <1>10, <1>11, <1>12 DEF Next

-----------------------------------------------------------------------------
(* What the steps of a thread change                                       *)

LEMMA ReadFacts ==
  ASSUME IInv, NEW w \in Workers, Read(w)
  PROVE  LET c == worker[w].conn
         IN /\ c \in Conns
            /\ request[c] # <<>>
            /\ request'[c] = <<>>
            /\ Head(request[c]) = Len(history[c])
            /\ \A d \in Conns \ {c} : request'[d] = request[d] /\ reply'[d] = reply[d]
            /\ \A v \in Workers \ {w} : worker'[v] = worker[v]
            /\ worker'[w].conn = c
            /\ UNCHANGED <<client, history>>
            /\ \/ /\ worker'[w].pc = "calling"
                  /\ worker'[w].n = Len(history[c])
                  /\ worker'[w].tries = 0
                  /\ Last(c).method \in Known
                  /\ reply'[c] = reply[c]
               \/ /\ worker'[w] = worker[w]
                  /\ worker[w].pc = "reading"
                  /\ Last(c).method \notin Known
                  /\ reply'[c] = Append(reply[c], [to |-> Len(history[c]),
                        raises |-> "UNKNOWN_METHOD", success |-> FALSE, fails |-> TRUE])
<1> DEFINE c == worker[w].conn
<1>1. Types /\ Places /\ Flow /\ Work
  BY DEF IInv
<1>2. worker[w] \in WorkerType /\ worker[w].pc = "reading" /\ request[c] # <<>>
  BY <1>1 DEF Types, Read
<1>3. c \in Conns
  BY <1>1, <1>2 DEF Places, Served, WorkerType
<1>4. Len(request[c]) = 1 /\ Head(request[c]) = Len(history[c])
  BY <1>1, <1>2, <1>3 DEF Flow, InRequest
<1>5. Tail(request[c]) = <<>>
  <2>1. request[c] \in Seq(Nat)
    BY <1>1, <1>3 DEF Types
  <2>2. Tail(request[c]) \in Seq(Nat) /\ Len(Tail(request[c])) = 0
    BY <1>2, <1>4, <2>1, HeadTailProperties
  <2> QED
    BY <2>2, EmptySeq
<1>6. request' = [request EXCEPT ![c] = Tail(@)] /\ UNCHANGED <<client, history>>
  BY DEF Read
<1>7. CASE /\ history[c][Head(request[c])].method \in Known
           /\ worker' = [worker EXCEPT ![w] = [@ EXCEPT !.pc = "calling",
                                                       !.n = Head(request[c])]]
           /\ reply' = reply
  <2>1. worker'[w] = [worker[w] EXCEPT !.pc = "calling", !.n = Head(request[c])]
    BY <1>1, <1>7 DEF Types
  <2>2. worker'[w].conn = c /\ worker'[w].pc = "calling"
        /\ worker'[w].n = Len(history[c]) /\ worker'[w].tries = worker[w].tries
    BY <1>2, <1>4, <2>1 DEF WorkerType
  <2>3. worker[w].tries = 0
    BY <1>1, <1>2 DEF Work, Reading
  <2>4. \A v \in Workers \ {w} : worker'[v] = worker[v]
    BY <1>1, <1>7 DEF Types
  <2> QED
    BY <1>1, <1>2, <1>3, <1>4, <1>5, <1>6, <1>7, <2>2, <2>3, <2>4 DEF Types, Last
<1>8. CASE /\ history[c][Head(request[c])].method \notin Known
           /\ reply' = [reply EXCEPT ![c] = Append(@,
                [to |-> Head(request[c]), raises |-> "UNKNOWN_METHOD", success |-> FALSE,
                 fails |-> TRUE])]
           /\ worker' = worker
  BY <1>1, <1>2, <1>3, <1>4, <1>5, <1>6, <1>8 DEF Types, Last
<1> QED
  BY <1>7, <1>8 DEF Read

(* One request: the last call of the connection has a new outcome, and the *)
(* thread goes on or has an answer.                                        *)
LEMMA AttemptFacts ==
  ASSUME IInv, NEW w \in Workers, Attempt(w)
  PROVE  LET c == worker[w].conn
             m == Method(w)
         IN \E outcome \in Handler!Outcome : \E change \in Changes(Last(c), outcome) :
            /\ Len(history'[c]) = Len(history[c])
            /\ history'[c][Len(history[c])] =
                 [method |-> m, changes |-> Last(c).changes + change, outcome |-> outcome]
            /\ \A i \in 1..Len(history[c]) :
                 i # Len(history[c]) => history'[c][i] = history[c][i]
            /\ \A d \in Conns \ {c} : history'[d] = history[d]
            /\ \A v \in Workers \ {w} : worker'[v] = worker[v]
            /\ worker'[w].conn = c
            /\ worker'[w].n = worker[w].n
            /\ UNCHANGED <<client, request, reply>>
            /\ outcome = "lookup" => worker[w].tries = 0
            /\ \/ /\ worker'[w].pc = "calling"
                  /\ worker'[w].tries = worker[w].tries + 1
                  /\ worker[w].tries < Handler!Repeats(m)
               \/ /\ worker'[w].pc = "writing"
                  /\ worker'[w].tries = worker[w].tries
                  /\ worker'[w].answer \in Handler!Answers[m][outcome]
<1> DEFINE c == worker[w].conn
           m == Method(w)
           n == worker[w].n
<1>1. Types
  BY DEF IInv
<1>2. worker[w] \in WorkerType /\ worker[w].pc = "calling" /\ Busy(w)
  BY <1>1 DEF Types, Attempt, Busy
<1>3. /\ c \in Conns /\ n \in 1..Len(history[c]) /\ n = Len(history[c])
      /\ m = Last(c).method /\ history[c][n] = Last(c) /\ Last(c) \in Call
  BY <1>2, ThreadFacts
<1>4. PICK outcome \in Outcomes(m) :
        /\ outcome = "lookup" => worker[w].tries = 0
        /\ \E change \in Changes(history[c][n], outcome) :
             history' = [history EXCEPT ![c][n] =
                           [method |-> @.method, changes |-> @.changes + change,
                            outcome |-> outcome]]
        /\ \/ /\ worker[w].tries < Handler!Repeats(m)
              /\ worker' = [worker EXCEPT ![w].tries = @ + 1]
           \/ \E answer \in Handler!Answers[m][outcome] :
                worker' = [worker EXCEPT ![w] = [@ EXCEPT !.pc = "writing", !.answer = answer]]
  BY DEF Attempt
<1>5. PICK change \in Changes(Last(c), outcome) :
        history' = [history EXCEPT ![c][n] =
                      [method |-> @.method, changes |-> @.changes + change,
                       outcome |-> outcome]]
  BY <1>3, <1>4
<1> DEFINE call == [method |-> m, changes |-> Last(c).changes + change, outcome |-> outcome]
<1>6. outcome \in Handler!Outcome /\ change \in {0, 1}
  BY ChangesBound DEF Outcomes
<1>7. call \in Call
  <2>1. Last(c).method \in Asked /\ Last(c).changes \in Nat
    BY <1>3 DEF Call
  <2>2. Last(c).changes + change \in Nat
    BY <1>6, <2>1
  <2> QED
    BY <1>3, <1>6, <2>1, <2>2 DEF Call
<1>8. history[c] \in Seq(Call) /\ history' = [history EXCEPT ![c] = [@ EXCEPT ![n] = call]]
  BY <1>1, <1>3, <1>5 DEF Types
<1> HIDE DEF call
<1>9. /\ Len(history'[c]) = Len(history[c])
      /\ \A i \in 1..Len(history[c]) :
           history'[c][i] = IF i = n THEN call ELSE history[c][i]
      /\ \A d \in Conns \ {c} : history'[d] = history[d]
  <2>1. history'[c] = [history[c] EXCEPT ![n] = call]
        /\ \A d \in Conns \ {c} : history'[d] = history[d]
    BY <1>1, <1>3, <1>8 DEF Types
  <2>2. /\ Len([history[c] EXCEPT ![n] = call]) = Len(history[c])
        /\ \A i \in 1..Len(history[c]) :
             [history[c] EXCEPT ![n] = call][i] = IF i = n THEN call ELSE history[c][i]
    BY <1>3, <1>7, <1>8, ExceptSeq
  <2> QED
    BY <2>1, <2>2
<1>10. /\ \A v \in Workers \ {w} : worker'[v] = worker[v]
       /\ worker'[w].conn = c
       /\ worker'[w].n = n
       /\ \/ /\ worker'[w].pc = "calling"
             /\ worker'[w].tries = worker[w].tries + 1
             /\ worker[w].tries < Handler!Repeats(m)
          \/ /\ worker'[w].pc = "writing"
             /\ worker'[w].tries = worker[w].tries
             /\ worker'[w].answer \in Handler!Answers[m][outcome]
  <2>1. CASE /\ worker[w].tries < Handler!Repeats(m)
             /\ worker' = [worker EXCEPT ![w].tries = @ + 1]
    BY <1>1, <1>2, <2>1 DEF Types, WorkerType
  <2>2. CASE \E answer \in Handler!Answers[m][outcome] :
               worker' = [worker EXCEPT ![w] = [@ EXCEPT !.pc = "writing", !.answer = answer]]
    <3>1. PICK answer \in Handler!Answers[m][outcome] :
            worker' = [worker EXCEPT ![w] = [@ EXCEPT !.pc = "writing", !.answer = answer]]
      BY <2>2
    <3>2. worker'[w] = [worker[w] EXCEPT !.pc = "writing", !.answer = answer]
          /\ \A v \in Workers \ {w} : worker'[v] = worker[v]
      BY <1>1, <3>1 DEF Types
    <3>3. /\ worker'[w].conn = c /\ worker'[w].n = n /\ worker'[w].pc = "writing"
          /\ worker'[w].tries = worker[w].tries /\ worker'[w].answer = answer
      BY <1>2, <3>2 DEF WorkerType
    <3> QED
      BY <3>2, <3>3
  <2> QED
    BY <1>4, <2>1, <2>2
<1>11. UNCHANGED <<client, request, reply>>
  BY DEF Attempt
<1>12. history'[c][Len(history[c])] = call
       /\ \A i \in 1..Len(history[c]) :
            i # Len(history[c]) => history'[c][i] = history[c][i]
  BY <1>3, <1>9
<1> QED
  BY <1>4, <1>6, <1>9, <1>10, <1>11, <1>12 DEF call

-----------------------------------------------------------------------------
(* Places                                                                  *)

LEMMA AppendFacts ==
  ASSUME NEW S, NEW s \in Seq(S), NEW e
  PROVE  /\ Len(Append(s, e)) = Len(s) + 1
         /\ Len(s) \in Nat
         /\ Append(s, e)[Len(s) + 1] = e
         /\ \A i \in 1..Len(Append(s, e)) :
              \/ i \in 1..Len(s) /\ Append(s, e)[i] = s[i]
              \/ i = Len(s) + 1
         /\ s = <<>> => Head(Append(s, e)) = e /\ Len(Append(s, e)) = 1
         /\ Append(s, e) # <<>>
<1>1. s \in Seq(S \cup {e}) /\ e \in S \cup {e}
  BY SeqMonotonic
<1> QED
  BY <1>1

(* A step that moves no connection.                                        *)
LEMMA PlacesKept ==
  ASSUME Places, UNCHANGED <<queue, shut>>,
         \A c \in Conns : client[c].at # "new" => client'[c].at # "new",
         \A w \in Workers : \/ worker'[w] = worker[w]
                            \/ /\ worker'[w].conn = worker[w].conn
                               /\ worker'[w].pc # "free" /\ worker[w].pc # "free",
         Types
  PROVE  Places'
<1>1. \A i \in 1..Len(queue) : queue[i] \in Conns
  BY ElementOfSeq DEF Types
<1>2. \A w \in Workers : worker[w].conn \in Conns \cup {NoConn}
  BY DEF Types, WorkerType
<1>3. Served'
  BY <1>1, <1>2 DEF Places, Served, Types
<1>4. Alone'
  BY DEF Places, Alone
<1>5. Queued' /\ Opened'
  BY <1>1 DEF Places, Queued, Opened, Types
<1> QED
  BY <1>3, <1>4, <1>5 DEF Places

LEMMA PlacesLeave ==
  ASSUME Types, Places, NEW w \in Workers, worker[w].pc # "free", Leave(w),
         UNCHANGED <<client, queue>>
  PROVE  Places'
<1>1. worker[w].conn \in Conns /\ worker[w].conn # NoConn
  BY DEF Types, WorkerType, Places, Served
<1>2. worker'[w] = Free /\ \A v \in Workers \ {w} : worker'[v] = worker[v]
  BY DEF Leave, Types
<1>3. \A v \in Workers \ {w} : worker[v].conn # worker[w].conn
  BY <1>1 DEF Places, Alone
<1>4. shut' = shut \cup {worker[w].conn}
  BY DEF Leave
<1>5. Free.conn = NoConn /\ Free.pc = "free"
  BY DEF Free
<1>6. \A i \in 1..Len(queue) : queue[i] \in Conns
  BY ElementOfSeq DEF Types
<1>7. Served'
  BY <1>2, <1>3, <1>4, <1>5, <1>6, ConnsAssumption DEF Places, Served
<1>8. Alone'
  BY <1>2, <1>5 DEF Places, Alone
<1>9. Queued' /\ Opened'
  BY <1>1, <1>4 DEF Places, Served, Queued, Opened
<1> QED
  BY <1>7, <1>8, <1>9 DEF Places

LEMMA PlacesStep ==
  ASSUME IInv, [Next]_vars
  PROVE  Places'
<1>1. Types /\ Places
  BY DEF IInv
<1>2. ASSUME NEW c \in Conns, Connect(c) PROVE Places'
  <2>1. /\ c \notin shut
        /\ \A i \in 1..Len(queue) : queue[i] # c
        /\ \A w \in Workers : worker[w].conn # c
    BY <1>1, <1>2, ConnsAssumption DEF Connect, Places, Served, Queued, Opened
  <2>2. /\ \A i \in 1..Len(queue') : \/ i \in 1..Len(queue) /\ queue'[i] = queue[i]
                                     \/ i = Len(queue) + 1 /\ queue'[i] = c
        /\ Len(queue) \in Nat
    BY <1>1, <1>2, AppendFacts DEF Connect, Types
  <2>3. /\ client'[c].at = "idle"
        /\ \A d \in Conns \ {c} : client'[d] = client[d]
        /\ UNCHANGED <<worker, shut>>
    BY <1>1, <1>2 DEF Connect, Types
  <2>4. \A i \in 1..Len(queue) : queue[i] \in Conns
    BY <1>1, ElementOfSeq DEF Types
  <2>5. \A w \in Workers : worker[w].conn \in Conns \cup {NoConn}
    BY <1>1 DEF Types, WorkerType
  <2>6. Served'
    BY <1>1, <2>1, <2>2, <2>3, <2>5 DEF Places, Served
  <2>7. Queued'
    BY <1>1, <2>1, <2>2, <2>3, <2>4 DEF Places, Queued
  <2>8. Alone' /\ Opened'
    BY <1>1, <2>1, <2>3 DEF Places, Alone, Opened, Types
  <2> QED
    BY <2>6, <2>7, <2>8 DEF Places
<1>3. ASSUME NEW c \in Conns, Ask(c) \/ Hear(c) \/ HangUp(c) PROVE Places'
  <2>1. \A d \in Conns : client[d].at # "new" => client'[d].at # "new"
    <3>1. ASSUME Ask(c)
          PROVE  \A d \in Conns : client[d].at # "new" => client'[d].at # "new"
      BY <1>1, <3>1 DEF Ask, Types
    <3>2. ASSUME Hear(c)
          PROVE  \A d \in Conns : client[d].at # "new" => client'[d].at # "new"
      BY <1>1, <3>2 DEF Hear, Types
    <3>3. ASSUME HangUp(c)
          PROVE  \A d \in Conns : client[d].at # "new" => client'[d].at # "new"
      BY <1>1, <3>3 DEF HangUp, Types
    <3> QED
      BY <1>3, <3>1, <3>2, <3>3
  <2>2. UNCHANGED <<queue, shut, worker>>
    BY <1>3 DEF Ask, Hear, HangUp
  <2> QED
    BY <1>1, <2>1, <2>2, PlacesKept
<1>4. ASSUME NEW w \in Workers, Take(w) PROVE Places'
  <2>1. /\ Len(queue') = Len(queue) - 1
        /\ \A i \in 1..Len(queue') : queue'[i] = queue[i + 1]
        /\ Len(queue) \in Nat \ {0}
        /\ Head(queue) = queue[1]
        /\ queue[1] \in Conns
    BY <1>1, <1>4, HeadTailProperties, EmptySeq DEF Take, Types
  <2>2. /\ worker'[w].conn = queue[1] /\ worker'[w].pc = "reading"
        /\ \A v \in Workers \ {w} : worker'[v] = worker[v]
        /\ UNCHANGED <<client, shut>>
    BY <1>1, <1>4, <2>1 DEF Take, Types, Free
  <2>3. Served'
    <3>1. \A i \in 1..Len(queue') : i + 1 \in 1..Len(queue) /\ 1 \in 1..Len(queue) /\ i + 1 # 1
      BY <2>1
    <3> QED
      BY <1>1, <2>1, <2>2, <3>1, ConnsAssumption DEF Places, Served, Queued
  <2>4. Alone'
    <3>1. 1 \in 1..Len(queue)
      BY <2>1
    <3> QED
      BY <1>1, <2>1, <2>2, <3>1 DEF Places, Served, Alone
  <2>5. Queued' /\ Opened'
    BY <1>1, <2>1, <2>2 DEF Places, Queued, Opened
  <2> QED
    BY <2>3, <2>4, <2>5 DEF Places
<1>5. ASSUME NEW w \in Workers, Read(w) \/ Attempt(w) PROVE Places'
  <2>1. UNCHANGED <<client, queue, shut>>
    BY <1>5 DEF Read, Attempt
  <2>2. \A v \in Workers : \/ worker'[v] = worker[v]
                           \/ /\ worker'[v].conn = worker[v].conn
                              /\ worker'[v].pc # "free" /\ worker[v].pc # "free"
    <3>1. worker[w].pc # "free"
      BY <1>5 DEF Read, Attempt
    <3>2. CASE Read(w)
      BY <3>1, <3>2, ReadFacts
    <3>3. CASE Attempt(w)
      BY <3>1, <3>3, AttemptFacts
    <3> QED
      BY <1>5, <3>2, <3>3
  <2> QED
    BY <1>1, <2>1, <2>2, PlacesKept
<1>6. ASSUME NEW w \in Workers, Write(w) PROVE Places'
  <2>1. CASE CanWrite(Method(w), worker[w].answer)
    <3>1. UNCHANGED <<client, queue, shut>>
      BY <1>6, <2>1 DEF Write
    <3>2. worker' = [worker EXCEPT ![w] = [Free EXCEPT !.conn = worker[w].conn,
                                                       !.pc = "reading"]]
      BY <1>6, <2>1 DEF Write
    <3>3. \A v \in Workers : \/ worker'[v] = worker[v]
                             \/ /\ worker'[v].conn = worker[v].conn
                                /\ worker'[v].pc # "free" /\ worker[v].pc # "free"
      BY <1>1, <1>6, <3>2 DEF Write, Types, Free
    <3> QED
      BY <1>1, <3>1, <3>3, PlacesKept
  <2>2. CASE ~CanWrite(Method(w), worker[w].answer)
    BY <1>1, <1>6, <2>2, PlacesLeave DEF Write
  <2> QED
    BY <2>1, <2>2
<1>7. ASSUME NEW w \in Workers, FindClosed(w) PROVE Places'
  BY <1>1, <1>7, PlacesLeave DEF FindClosed
<1>8. CASE UNCHANGED vars
  BY <1>1, <1>8, PlacesKept DEF vars
<1> QED
  BY <1>2, <1>3, <1>4, <1>5, <1>6, <1>7, <1>8 DEF Next

-----------------------------------------------------------------------------
(* Flow                                                                    *)

ConnFlow(c) == InRequest(c) /\ InReply(c) /\ WithClient(c)

(* A connection that a step does not touch.                                *)
Untouched(d) ==
  /\ client'[d] = client[d] /\ history'[d] = history[d]
  /\ request'[d] = request[d] /\ reply'[d] = reply[d]

LEMMA FlowKept ==
  ASSUME NEW d \in Conns, ConnFlow(d), Untouched(d)
  PROVE  ConnFlow(d)'
BY DEF ConnFlow, InRequest, InReply, WithClient, Untouched, Last

LEMMA ThreadKept ==
  ASSUME NEW v \in Workers, InThread(v), worker'[v] = worker[v],
         Busy(v) => Untouched(worker[v].conn)
  PROVE  InThread(v)'
BY DEF InThread, Busy, Untouched, Method

LEMMA CallKept ==
  ASSUME NEW v \in Workers, Reading(v), Calling(v), Writing(v), worker'[v] = worker[v],
         Busy(v) => history'[worker[v].conn] = history[worker[v].conn]
  PROVE  (Reading(v) /\ Calling(v) /\ Writing(v))'
BY DEF Reading, Calling, Writing, Busy, ThreadsCall, Last

(* A thread that leaves is not busy.                                       *)
LEMMA IdleThread ==
  ASSUME NEW v \in Workers, worker'[v].pc \in {"free", "reading"}
  PROVE  InThread(v)'
BY DEF InThread, Busy

LEMMA FlowLeave ==
  ASSUME IInv, NEW w \in Workers, worker[w].pc # "free", Leave(w), UNCHANGED client
  PROVE  Flow'
<1>1. Types /\ Places /\ Flow
  BY DEF IInv
<1>2. PICK c \in Conns : c = worker[w].conn /\ c # NoConn
  BY <1>1 DEF Types, WorkerType, Places, Served
<1>3. worker'[w].pc = "free" /\ \A v \in Workers \ {w} : worker'[v] = worker[v]
  BY <1>1 DEF Leave, Types, Free
<1>4. \A d \in Conns \ {c} : Untouched(d)
  BY <1>1, <1>2 DEF Leave, Over, Types, Untouched
<1>5. ConnFlow(c)'
  <2>1. CASE client[c].at = "gone"
    <3>1. history'[c] = <<>> /\ request'[c] = <<>> /\ reply'[c] = <<>>
      BY <1>1, <1>2, <2>1 DEF Leave, Over, Types
    <3>2. client[c].heard = Silence
      BY <1>1, <1>2, <2>1 DEF Flow, WithClient
    <3> QED
      BY <3>1, <3>2 DEF ConnFlow, InRequest, InReply, WithClient
  <2>2. CASE client[c].at # "gone"
    <3>1. Untouched(c)
      BY <1>2, <2>2 DEF Leave, Untouched
    <3> QED
      BY <1>1, <1>2, <3>1, FlowKept DEF Flow, ConnFlow
  <2> QED
    BY <2>1, <2>2
<1>6. ASSUME NEW d \in Conns PROVE ConnFlow(d)'
  <2>1. CASE d = c
    BY <1>5, <2>1
  <2>2. CASE d # c
    BY <1>1, <1>4, <2>2, FlowKept DEF Flow, ConnFlow
  <2> QED
    BY <2>1, <2>2
<1>7. ASSUME NEW v \in Workers PROVE InThread(v)'
  <2>1. CASE v = w
    BY <1>3, <2>1, IdleThread
  <2>2. CASE v # w
    <3>1. Busy(v) => worker[v].conn \in Conns \ {c}
      BY <1>1, <1>2, <2>2 DEF Places, Served, Alone, Busy, Types, WorkerType
    <3> QED
      BY <1>1, <1>3, <1>4, <2>2, <3>1, ThreadKept DEF Flow
  <2> QED
    BY <2>1, <2>2
<1> QED
  BY <1>6, <1>7 DEF Flow, ConnFlow

(* The client's steps touch one connection, and the call of no thread.     *)
LEMMA FlowOfClient ==
  ASSUME IInv, NEW c \in Conns, UNCHANGED worker, ConnFlow(c)',
         \A d \in Conns \ {c} : Untouched(d),
         Untouched(c) \/ \A w \in Workers : worker[w].conn = c => ~Busy(w)
  PROVE  Flow'
<1>1. Types /\ Places /\ Flow
  BY DEF IInv
<1>2. ASSUME NEW d \in Conns PROVE ConnFlow(d)'
  BY <1>1, <1>2, FlowKept DEF Flow, ConnFlow
<1>3. ASSUME NEW v \in Workers PROVE InThread(v)'
  <2>1. Busy(v) => worker[v].conn \in Conns
    BY <1>1 DEF Places, Served, Busy, Types, WorkerType
  <2>2. Busy(v) => Untouched(worker[v].conn)
    BY <2>1
  <2> QED
    BY <1>1, <2>2, ThreadKept DEF Flow
<1> QED
  BY <1>2, <1>3 DEF Flow, ConnFlow

LEMMA FlowAsk ==
  ASSUME IInv, NEW c \in Conns, Ask(c)
  PROVE  Flow'
<1>1. Types /\ Flow
  BY DEF IInv
<1>2. client[c].at = "idle"
  BY DEF Ask
<1>3. request[c] = <<>> /\ reply[c] = <<>>
  BY <1>1, <1>2 DEF Flow, InRequest, InReply
<1>4. \A w \in Workers : worker[w].conn = c => ~Busy(w)
  BY <1>1, <1>2 DEF Flow, InThread
<1>5. \A d \in Conns \ {c} : Untouched(d)
  BY <1>1 DEF Ask, Types, Untouched
<1>6. /\ client'[c].at = "waiting" /\ client'[c].heard = Silence
      /\ reply'[c] = <<>>
      /\ Len(history'[c]) = Len(history[c]) + 1
      /\ Len(history[c]) \in Nat
      /\ Last(c)'.changes = 0
      /\ Len(request'[c]) = 1 /\ Head(request'[c]) = Len(history[c]) + 1
  <2>1. PICK m \in Asks[c][Len(history[c]) + 1] :
          history' = [history EXCEPT ![c] =
                        Append(@, [method |-> m, changes |-> 0, outcome |-> ""])]
    BY DEF Ask
  <2> DEFINE call == [method |-> m, changes |-> 0, outcome |-> ""]
  <2>2. call.changes = 0
    OBVIOUS
  <2>3. history'[c] = Append(history[c], call) /\ history[c] \in Seq(Call)
    BY <1>1, <2>1 DEF Types
  <2> HIDE DEF call
  <2>4. /\ Len(history'[c]) = Len(history[c]) + 1 /\ Len(history[c]) \in Nat
        /\ history'[c][Len(history[c]) + 1] = call
    BY <2>3, AppendFacts
  <2>5. request'[c] = Append(request[c], Len(history[c]) + 1) /\ request[c] \in Seq(Nat)
    BY <1>1 DEF Ask, Types
  <2>6. Len(request'[c]) = 1 /\ Head(request'[c]) = Len(history[c]) + 1
    BY <1>3, <2>5, AppendFacts
  <2>7. client'[c].at = "waiting" /\ client'[c].heard = Silence /\ reply'[c] = <<>>
    BY <1>1, <1>3 DEF Ask, Types
  <2>8. Last(c)' = call
    BY <2>4 DEF Last
  <2> QED
    BY <2>2, <2>4, <2>6, <2>7, <2>8
<1>7. ConnFlow(c)'
  BY <1>6 DEF ConnFlow, InRequest, InReply, WithClient
<1> QED
  BY <1>4, <1>5, <1>7, FlowOfClient DEF Ask

LEMMA FlowHear ==
  ASSUME IInv, NEW c \in Conns, Hear(c)
  PROVE  Flow'
<1>1. Types /\ Flow
  BY DEF IInv
<1>2. client[c].at = "waiting" /\ reply[c] # <<>>
  BY DEF Hear
<1>3. /\ request[c] = <<>>
      /\ Len(reply[c]) = 1
      /\ Head(reply[c]).to = Len(history[c]) /\ Len(history[c]) > 0
      /\ Accords(Last(c), Heard(Last(c).method, Head(reply[c])))
  BY <1>1, <1>2 DEF Flow, InRequest, InReply
<1>4. \A w \in Workers : worker[w].conn = c => ~Busy(w)
  BY <1>1, <1>2 DEF Flow, InThread
<1>5. \A d \in Conns \ {c} : Untouched(d)
  BY <1>1 DEF Hear, Types, Untouched
<1>6. reply'[c] = <<>>
  <2>1. reply[c] \in Seq(Message)
    BY <1>1 DEF Types
  <2>2. Tail(reply[c]) \in Seq(Message) /\ Len(Tail(reply[c])) = 0
    BY <1>2, <1>3, <2>1, HeadTailProperties
  <2>3. Tail(reply[c]) = <<>>
    BY <2>2, EmptySeq
  <2> QED
    BY <1>1, <2>3 DEF Hear, Types
<1>7. /\ client'[c] = [at |-> "idle",
                       heard |-> [to |-> Head(reply[c]).to,
                                  what |-> Heard(Last(c).method, Head(reply[c]))]]
      /\ UNCHANGED <<history, request>>
  BY <1>1 DEF Hear, Types, Last
<1>8. ConnFlow(c)'
  BY <1>3, <1>6, <1>7 DEF ConnFlow, InRequest, InReply, WithClient, Last
<1> QED
  BY <1>4, <1>5, <1>8, FlowOfClient DEF Hear

LEMMA FlowHangUp ==
  ASSUME IInv, NEW c \in Conns, HangUp(c)
  PROVE  Flow'
<1>1. Types /\ Places /\ Flow
  BY DEF IInv
<1>2. client[c].at \in {"idle", "waiting"}
  BY DEF HangUp
<1>3. client'[c].at = "gone" /\ client'[c].heard = Silence
  BY <1>1 DEF HangUp, Types
<1>4. \A d \in Conns \ {c} : Untouched(d)
  BY <1>1 DEF HangUp, Over, Types, Untouched
<1>5. UNCHANGED worker
  BY DEF HangUp
<1>6. CASE c \in shut
  <2>1. history'[c] = <<>> /\ request'[c] = <<>> /\ reply'[c] = <<>>
    BY <1>1, <1>6 DEF HangUp, Over, Types
  <2>2. ConnFlow(c)'
    BY <1>3, <2>1 DEF ConnFlow, InRequest, InReply, WithClient
  <2>3. \A w \in Workers : worker[w].conn # c
    BY <1>1, <1>6, ConnsAssumption DEF Places, Served
  <2> QED
    BY <1>4, <1>5, <2>2, <2>3, FlowOfClient
<1>7. CASE c \notin shut
  <2>1. UNCHANGED <<history, request, reply>>
    BY <1>7 DEF HangUp
  <2>2. ConnFlow(c)'
    BY <1>1, <1>2, <1>3, <2>1 DEF Flow, ConnFlow, InRequest, InReply, WithClient, Last
  <2>3. ASSUME NEW d \in Conns PROVE ConnFlow(d)'
    BY <1>1, <1>4, <2>2, FlowKept DEF Flow, ConnFlow
  <2>4. ASSUME NEW v \in Workers PROVE InThread(v)'
    <3>1. CASE Busy(v) /\ worker[v].conn = c
      BY <1>1, <1>3, <1>5, <2>1, <3>1 DEF Flow, InThread, Busy, Method
    <3>2. CASE ~(Busy(v) /\ worker[v].conn = c)
      <4>1. Busy(v) => worker[v].conn \in Conns \ {c}
        BY <1>1, <3>2 DEF Places, Served, Busy, Types, WorkerType
      <4> QED
        BY <1>1, <1>4, <1>5, <4>1, ThreadKept DEF Flow
    <3> QED
      BY <3>1, <3>2
  <2> QED
    BY <2>3, <2>4 DEF Flow, ConnFlow
<1> QED
  BY <1>6, <1>7

LEMMA FlowRead ==
  ASSUME IInv, NEW w \in Workers, Read(w)
  PROVE  Flow'
<1>0. PICK c \in Conns : c = worker[w].conn
  BY ReadFacts
<1> DEFINE unknown == [to |-> Len(history[c]), raises |-> "UNKNOWN_METHOD",
                    success |-> FALSE, fails |-> TRUE]
<1>1. Types /\ Places /\ Flow
  BY DEF IInv
<1>2. /\ c \in Conns /\ request[c] # <<>> /\ request'[c] = <<>>
      /\ \A d \in Conns \ {c} : request'[d] = request[d] /\ reply'[d] = reply[d]
      /\ \A v \in Workers \ {w} : worker'[v] = worker[v]
      /\ worker'[w].conn = c
      /\ UNCHANGED <<client, history>>
  BY <1>0, ReadFacts
<1>3. /\ client[c].at \in {"waiting", "gone"}
      /\ client[c].at = "waiting" => reply[c] = <<>>
      /\ Len(history[c]) > 0
  BY <1>1, <1>2 DEF Flow, InRequest
<1>4. client[c].heard = Silence
  BY <1>1, <1>2, <1>3 DEF Flow, WithClient
<1>5. \A d \in Conns \ {c} : Untouched(d)
  BY <1>2 DEF Untouched
<1>6. ASSUME NEW v \in Workers \ {w} PROVE InThread(v)'
  <2>1. Busy(v) => worker[v].conn \in Conns \ {c}
    BY <1>0, <1>1, <1>2, ConnsAssumption DEF Places, Served, Alone, Busy, Types, WorkerType
  <2> QED
    BY <1>1, <1>2, <1>5, <2>1, ThreadKept DEF Flow
<1>7. ASSUME NEW d \in Conns \ {c} PROVE ConnFlow(d)'
  BY <1>1, <1>5, FlowKept DEF Flow, ConnFlow
<1>8. CASE /\ worker'[w].pc = "calling"
           /\ worker'[w].n = Len(history[c])
           /\ worker'[w].tries = 0
           /\ Last(c).method \in Known
           /\ reply'[c] = reply[c]
  <2>1. ConnFlow(c)'
    BY <1>2, <1>3, <1>4, <1>8 DEF ConnFlow, InRequest, InReply, WithClient
  <2>2. InThread(w)'
    <3>1. Method(w)' = Last(c).method
      BY <1>2, <1>8 DEF Method, Last
    <3>2. 0 <= Handler!Repeats(Last(c).method)
      BY RepeatsBound
    <3> QED
      BY <1>2, <1>3, <1>8, <3>1, <3>2 DEF InThread
  <2> QED
    BY <1>6, <1>7, <2>1, <2>2 DEF Flow, ConnFlow
<1>9. CASE /\ worker'[w] = worker[w]
           /\ worker[w].pc = "reading"
           /\ Last(c).method \notin Known
           /\ reply'[c] = Append(reply[c], unknown)
  <2>1. client[c].at = "waiting" => Len(reply'[c]) = 1 /\ Head(reply'[c]) = unknown
    <3>1. reply[c] \in Seq(Message)
      BY <1>1 DEF Types
    <3> QED
      BY <1>3, <1>9, <3>1, AppendFacts
  <2>2. Accords(Last(c), "UNKNOWN_METHOD")
    BY <1>9 DEF Accords, Handler!Changing
  <2>3. Heard(Last(c).method, unknown) = "UNKNOWN_METHOD"
    BY DEF Heard
  <2>4. InReply(c)'
    <3>1. CASE client[c].at = "waiting"
      <4>1. unknown.to = Len(history[c])
        OBVIOUS
      <4> HIDE DEF unknown
      <4> QED
        BY <1>2, <1>3, <2>1, <2>2, <2>3, <3>1, <4>1 DEF InReply, Last
    <3>2. CASE client[c].at = "gone"
      BY <1>2, <3>2 DEF InReply
    <3> QED
      BY <1>3, <3>1, <3>2
  <2>5. ConnFlow(c)'
    BY <1>2, <1>4, <2>4 DEF ConnFlow, InRequest, WithClient
  <2>6. InThread(w)'
    BY <1>9, IdleThread
  <2> QED
    BY <1>6, <1>7, <2>5, <2>6 DEF Flow, ConnFlow
<1> QED
  BY <1>0, <1>8, <1>9, ReadFacts

LEMMA FlowAttempt ==
  ASSUME IInv, NEW w \in Workers, Attempt(w)
  PROVE  Flow'
<1>1. Types /\ Places /\ Flow /\ Busy(w)
  BY DEF IInv, Attempt, Busy
<1>2. PICK c \in Conns : c = worker[w].conn
  BY <1>1, ThreadFacts
<1>3. /\ Len(history'[c]) = Len(history[c])
      /\ history'[c][Len(history[c])].method = Method(w)
      /\ \A d \in Conns \ {c} : history'[d] = history[d]
      /\ \A v \in Workers \ {w} : worker'[v] = worker[v]
      /\ worker'[w].conn = c
      /\ worker'[w].n = worker[w].n
      /\ worker'[w].tries \in {worker[w].tries, worker[w].tries + 1}
      /\ worker'[w].tries = worker[w].tries \/ worker[w].tries < Handler!Repeats(Method(w))
      /\ UNCHANGED <<client, request, reply>>
  <2>1. PICK outcome \in Handler!Outcome :
          \E change \in Changes(Last(c), outcome) :
            /\ Len(history'[c]) = Len(history[c])
            /\ history'[c][Len(history[c])] =
                 [method |-> Method(w), changes |-> Last(c).changes + change,
                  outcome |-> outcome]
            /\ \A d \in Conns \ {c} : history'[d] = history[d]
            /\ \A v \in Workers \ {w} : worker'[v] = worker[v]
            /\ worker'[w].conn = c
            /\ worker'[w].n = worker[w].n
            /\ UNCHANGED <<client, request, reply>>
            /\ \/ /\ worker'[w].tries = worker[w].tries + 1
                  /\ worker[w].tries < Handler!Repeats(Method(w))
               \/ worker'[w].tries = worker[w].tries
    BY <1>2, AttemptFacts
  <2> QED
    BY <2>1
<1>4. /\ client[c].at \in {"waiting", "gone"}
      /\ client[c].at = "waiting" => reply[c] = <<>>
      /\ request[c] = <<>>
      /\ worker[w].n = Len(history[c]) /\ worker[w].n > 0
      /\ Method(w) \in Known
      /\ worker[w].tries <= Handler!Repeats(Method(w))
  BY <1>1, <1>2 DEF Flow, InThread
<1>5. client[c].heard = Silence
  BY <1>1, <1>4 DEF Flow, WithClient
<1>6. ConnFlow(c)'
  BY <1>3, <1>4, <1>5 DEF ConnFlow, InRequest, InReply, WithClient
<1>7. ASSUME NEW d \in Conns \ {c} PROVE ConnFlow(d)'
  BY <1>1, <1>3, FlowKept DEF Flow, ConnFlow, Untouched
<1>8. ASSUME NEW v \in Workers \ {w} PROVE InThread(v)'
  <2>1. Busy(v) => worker[v].conn \in Conns \ {c}
    BY <1>1, <1>2, ConnsAssumption DEF Places, Served, Alone, Busy, Types, WorkerType
  <2>2. Busy(v) => Untouched(worker[v].conn)
    BY <1>3, <2>1 DEF Untouched
  <2> QED
    BY <1>1, <1>3, <2>2, ThreadKept DEF Flow
<1>9. InThread(w)'
  <2>1. Method(w)' = Method(w)
    BY <1>3, <1>4 DEF Method
  <2>2. worker'[w].tries <= Handler!Repeats(Method(w))
    <3>1. worker[w].tries \in Nat
      BY <1>1 DEF Types, WorkerType
    <3>2. Handler!Repeats(Method(w)) \in 0..3
      BY RepeatsBound
    <3> QED
      BY <1>3, <1>4, <3>1, <3>2
  <2> QED
    BY <1>3, <1>4, <2>1, <2>2 DEF InThread
<1> QED
  BY <1>6, <1>7, <1>8, <1>9 DEF Flow, ConnFlow

(* The answer that is written accords with the call.                       *)
LEMMA FlowWrite ==
  ASSUME IInv, NEW w \in Workers, Write(w), CanWrite(Method(w), worker[w].answer)
  PROVE  Flow'
<1>1. Types /\ Places /\ Flow /\ Work /\ Busy(w) /\ worker[w].pc = "writing"
  BY DEF IInv, Write, Busy
<1>2. PICK c \in Conns : c = worker[w].conn
  BY <1>1, ThreadFacts
<1> DEFINE r == Response(Method(w), worker[w].answer)
           message == [to |-> worker[w].n, raises |-> r.raises, success |-> r.success,
                       fails |-> r.fails]
<1>3. /\ reply' = [reply EXCEPT ![c] = Append(@, message)]
      /\ worker' = [worker EXCEPT ![w] = [Free EXCEPT !.conn = c, !.pc = "reading"]]
      /\ UNCHANGED <<client, history, request>>
  BY <1>2 DEF Write
<1>4. /\ client[c].at \in {"waiting", "gone"}
      /\ client[c].at = "waiting" => reply[c] = <<>>
      /\ request[c] = <<>>
      /\ worker[w].n = Len(history[c]) /\ worker[w].n > 0
  BY <1>1, <1>2 DEF Flow, InThread
<1>5. client[c].heard = Silence
  BY <1>1, <1>4 DEF Flow, WithClient
<1>6. Accords(Last(c), Heard(Last(c).method, message))
  <2>1. /\ Last(c) \in Call /\ Method(w) = Last(c).method /\ Method(w) \in Known
    BY <1>1, <1>2, ThreadFacts
  <2>2. /\ Last(c).outcome \in Handler!Outcome
        /\ worker[w].answer \in Handler!Answers[Last(c).method][Last(c).outcome]
        /\ Last(c).method \in Handler!Changing /\ Last(c).outcome = "done" =>
             Last(c).changes > 0
        /\ Last(c).method \notin Handler!Changing => Last(c).changes = 0
        /\ Harmless(Last(c)) => Last(c).changes = 0
    BY <1>1, <1>2 DEF Work, Writing, ThreadsCall
  <2> QED
    BY <2>1, <2>2, AnswersAccord
<1>7. message.to = Len(history[c])
  BY <1>4
<1> HIDE DEF message
<1>8. /\ client[c].at = "waiting" => Len(reply'[c]) = 1 /\ Head(reply'[c]) = message
      /\ \A d \in Conns \ {c} : reply'[d] = reply[d]
  <2>1. reply'[c] = Append(reply[c], message) /\ reply[c] \in Seq(Message)
    BY <1>1, <1>3 DEF Types
  <2> QED
    BY <1>1, <1>3, <1>4, <2>1, AppendFacts DEF Types
<1>9. InReply(c)'
  BY <1>3, <1>4, <1>6, <1>7, <1>8 DEF InReply, Last
<1>10. ConnFlow(c)'
  BY <1>3, <1>4, <1>5, <1>9 DEF ConnFlow, InRequest, WithClient
<1>11. ASSUME NEW d \in Conns \ {c} PROVE ConnFlow(d)'
  BY <1>1, <1>3, <1>8, FlowKept DEF Flow, ConnFlow, Untouched
<1>12. /\ worker'[w].pc = "reading"
       /\ \A v \in Workers \ {w} : worker'[v] = worker[v]
  BY <1>1, <1>3 DEF Types, Free
<1>13. ASSUME NEW v \in Workers PROVE InThread(v)'
  <2>1. CASE v = w
    BY <1>12, <2>1, IdleThread
  <2>2. CASE v # w
    <3>1. Busy(v) => worker[v].conn \in Conns \ {c}
      BY <1>1, <1>2, <2>2, ConnsAssumption
      DEF Places, Served, Alone, Busy, Types, WorkerType
    <3>2. Busy(v) => Untouched(worker[v].conn)
      BY <1>3, <1>8, <3>1 DEF Untouched
    <3> QED
      BY <1>1, <1>12, <2>2, <3>2, ThreadKept DEF Flow
  <2> QED
    BY <2>1, <2>2
<1> QED
  BY <1>10, <1>11, <1>13 DEF Flow, ConnFlow

LEMMA FlowStep ==
  ASSUME IInv, [Next]_vars
  PROVE  Flow'
<1>1. Types /\ Places /\ Flow
  BY DEF IInv
<1>2. ASSUME NEW c \in Conns, Connect(c) PROVE Flow'
  <2>1. client[c].at = "new"
    BY <1>2 DEF Connect
  <2>2. /\ client'[c].at = "idle" /\ client'[c].heard = client[c].heard
        /\ \A d \in Conns \ {c} : client'[d] = client[d]
        /\ UNCHANGED <<history, request, reply, worker>>
    BY <1>1, <1>2 DEF Connect, Types
  <2>3. request[c] = <<>> /\ reply[c] = <<>> /\ client[c].heard = Silence
    BY <1>1, <2>1 DEF Flow, InRequest, InReply, WithClient
  <2>4. ConnFlow(c)'
    BY <2>2, <2>3 DEF ConnFlow, InRequest, InReply, WithClient
  <2>5. \A w \in Workers : worker[w].conn = c => ~Busy(w)
    BY <1>1, <2>1 DEF Flow, InThread
  <2>6. \A d \in Conns \ {c} : Untouched(d)
    BY <2>2 DEF Untouched
  <2> QED
    BY <2>2, <2>4, <2>5, <2>6, FlowOfClient
<1>3. ASSUME NEW w \in Workers, Take(w) PROVE Flow'
  <2>1. /\ worker'[w].pc = "reading"
        /\ \A v \in Workers \ {w} : worker'[v] = worker[v]
        /\ UNCHANGED <<client, history, request, reply>>
    BY <1>1, <1>3 DEF Take, Types, Free
  <2>2. \A d : Untouched(d)
    BY <2>1 DEF Untouched
  <2>3. ASSUME NEW v \in Workers PROVE InThread(v)'
    <3>1. CASE v = w
      BY <2>1, <3>1, IdleThread
    <3>2. CASE v # w
      BY <1>1, <2>1, <2>2, <3>2, ThreadKept DEF Flow
    <3> QED
      BY <3>1, <3>2
  <2>4. ASSUME NEW d \in Conns PROVE ConnFlow(d)'
    BY <1>1, <2>2, FlowKept DEF Flow, ConnFlow
  <2> QED
    BY <2>3, <2>4 DEF Flow, ConnFlow
<1>4. ASSUME NEW w \in Workers, Write(w) PROVE Flow'
  BY <1>4, FlowWrite, FlowLeave DEF Write
<1>5. ASSUME NEW w \in Workers, FindClosed(w) PROVE Flow'
  BY <1>5, FlowLeave DEF FindClosed
<1>6. CASE UNCHANGED vars
  <2>1. \A d : Untouched(d)
    BY <1>6 DEF vars, Untouched
  <2>2. ASSUME NEW d \in Conns PROVE ConnFlow(d)'
    BY <1>1, <2>1, FlowKept DEF Flow, ConnFlow
  <2>3. ASSUME NEW v \in Workers PROVE InThread(v)'
    BY <1>1, <1>6, <2>1, ThreadKept DEF Flow, vars
  <2> QED
    BY <2>2, <2>3 DEF Flow, ConnFlow
<1> QED
  BY <1>2, <1>3, <1>4, <1>5, <1>6, FlowAsk, FlowHear, FlowHangUp, FlowRead, FlowAttempt
  DEF Next

-----------------------------------------------------------------------------
(* Work                                                                    *)

CallWork(v) == Reading(v) /\ Calling(v) /\ Writing(v)

(* A step that leaves the calls of the other threads alone.                *)
LEMMA WorkKept ==
  ASSUME IInv,
         \A v \in Workers :
           \/ worker'[v] = worker[v] /\ (Busy(v) => history'[worker[v].conn] = history[worker[v].conn])
           \/ worker'[v].pc \in {"free", "reading"} /\ worker'[v].tries = 0
  PROVE  Work'
<1>1. ASSUME NEW v \in Workers PROVE CallWork(v)'
  <2>1. CASE worker'[v] = worker[v] /\ (Busy(v) => history'[worker[v].conn] = history[worker[v].conn])
    BY <2>1, CallKept DEF IInv, Work, CallWork
  <2>2. CASE worker'[v].pc \in {"free", "reading"} /\ worker'[v].tries = 0
    BY <2>2 DEF CallWork, Reading, Calling, Writing
  <2> QED
    BY <2>1, <2>2
<1> QED
  BY <1>1 DEF Work, CallWork

LEMMA WorkStep ==
  ASSUME IInv, [Next]_vars
  PROVE  Work'
<1>1. Types /\ Places /\ Flow /\ Work
  BY DEF IInv
<1>2. \A v \in Workers : Busy(v) => worker[v].conn \in Conns
  BY ThreadFacts
<1>3. ASSUME NEW c \in Conns, Connect(c) \/ Hear(c) PROVE Work'
  BY <1>3, WorkKept DEF Connect, Hear
<1>4. ASSUME NEW c \in Conns, Ask(c) PROVE Work'
  <2>1. \A v \in Workers : worker[v].conn = c => ~Busy(v)
    BY <1>1, <1>4 DEF Flow, InThread, Ask
  <2>2. \A d \in Conns \ {c} : history'[d] = history[d]
    BY <1>1, <1>4 DEF Ask, Types
  <2>3. UNCHANGED worker
    BY <1>4 DEF Ask
  <2> QED
    BY <1>2, <2>1, <2>2, <2>3, WorkKept
<1>5. ASSUME NEW c \in Conns, HangUp(c) PROVE Work'
  <2>1. UNCHANGED worker
    BY <1>5 DEF HangUp
  <2>2. CASE c \in shut
    <3>1. \A v \in Workers : worker[v].conn # c
      BY <1>1, <2>2, ConnsAssumption DEF Places, Served
    <3>2. \A d \in Conns \ {c} : history'[d] = history[d]
      BY <1>1, <1>5 DEF HangUp, Over, Types
    <3> QED
      BY <1>2, <2>1, <3>1, <3>2, WorkKept
  <2>3. CASE c \notin shut
    BY <1>5, <2>1, <2>3, WorkKept DEF HangUp
  <2> QED
    BY <2>2, <2>3
<1>6. ASSUME NEW w \in Workers, Take(w) PROVE Work'
  <2>1. /\ worker'[w].pc = "reading" /\ worker'[w].tries = 0
        /\ \A v \in Workers \ {w} : worker'[v] = worker[v]
        /\ UNCHANGED history
    BY <1>1, <1>6 DEF Take, Types, Free
  <2> QED
    BY <2>1, WorkKept
<1>7. ASSUME NEW w \in Workers, Read(w) PROVE Work'
  <2>1. PICK c \in Conns : c = worker[w].conn
    BY <1>7, ReadFacts
  <2>2. /\ \A v \in Workers \ {w} : worker'[v] = worker[v]
        /\ worker'[w].conn = c
        /\ UNCHANGED history
        /\ request[c] # <<>>
    BY <1>7, <2>1, ReadFacts
  <2>3. CASE worker'[w].pc = "calling" /\ worker'[w].tries = 0
    <3>1. Last(c).changes = 0
      BY <1>1, <2>1, <2>2 DEF Flow, InRequest
    <3>2. CallWork(w)'
      BY <2>2, <2>3, <3>1 DEF CallWork, Reading, Calling, Writing, ThreadsCall, Last
    <3>3. ASSUME NEW v \in Workers \ {w} PROVE CallWork(v)'
      BY <1>1, <2>2, CallKept DEF Work, CallWork
    <3> QED
      BY <3>2, <3>3 DEF Work, CallWork
  <2>4. CASE worker'[w] = worker[w]
    BY <2>2, <2>4, WorkKept
  <2> QED
    BY <1>7, <2>1, <2>3, <2>4, ReadFacts
<1>8. ASSUME NEW w \in Workers, Attempt(w) PROVE Work'
  <2>1. Busy(w) /\ worker[w].pc = "calling"
    BY <1>8 DEF Attempt, Busy
  <2>2. PICK c \in Conns : c = worker[w].conn /\ Method(w) = Last(c).method /\ Last(c) \in Call
    BY <2>1, ThreadFacts
  <2> DEFINE m == Last(c).method
  <2> DEFINE Becomes(outcome, change) ==
          /\ Len(history'[c]) = Len(history[c])
          /\ history'[c][Len(history[c])] =
               [method |-> m, changes |-> Last(c).changes + change, outcome |-> outcome]
          /\ \A d \in Conns \ {c} : history'[d] = history[d]
          /\ \A v \in Workers \ {w} : worker'[v] = worker[v]
          /\ worker'[w].conn = c
          /\ outcome = "lookup" => worker[w].tries = 0
          /\ \/ /\ worker'[w].pc = "calling"
                /\ worker'[w].tries = worker[w].tries + 1
                /\ worker[w].tries < Handler!Repeats(m)
             \/ /\ worker'[w].pc = "writing"
                /\ worker'[w].tries = worker[w].tries
                /\ worker'[w].answer \in Handler!Answers[m][outcome]
  <2>3. PICK outcome \in Handler!Outcome :
           \E change \in Changes(Last(c), outcome) : Becomes(outcome, change)
    BY <1>8, <2>2, AttemptFacts
  <2>4. PICK change \in Changes(Last(c), outcome) : Becomes(outcome, change)
    BY <2>3
  <2>5. Becomes(outcome, change)
    BY <2>4
  <2>6. /\ Last(c)'.method = m
        /\ Last(c)'.changes = Last(c).changes + change
        /\ Last(c)'.outcome = outcome
    BY <2>5 DEF Last
  <2>7. /\ change \in {0, 1}
        /\ m \notin Handler!Changing => change = 0
        /\ m \in Handler!Changing /\ outcome = "done" => change = 1 \/ Last(c).changes > 0
        /\ MayChange(m, outcome) = {0} => change = 0
    BY ChangesBound
  <2>8. /\ Last(c).changes \in Nat /\ worker[w].tries \in Nat
        /\ m \in Handler!Changing => Last(c).changes <= worker[w].tries
        /\ m \notin Handler!Changing => Last(c).changes = 0
    <3>1. Last(c).changes \in Nat /\ worker[w].tries \in Nat
      BY <1>1, <2>2 DEF Call, Types, WorkerType
    <3>2. Calling(w)
      BY <1>1 DEF Work
    <3> QED
      BY <2>1, <2>2, <3>1, <3>2 DEF Calling, ThreadsCall
  <2> HIDE DEF m
  <2>9. ThreadsCall(w)' = Last(c)'
    BY <2>5 DEF ThreadsCall, Last
  <2>10. ASSUME worker'[w].pc = "calling" PROVE CallWork(w)'
    <3>1. worker'[w].tries = worker[w].tries + 1
      BY <2>5, <2>10
    <3>2. Last(c).changes + change <= worker[w].tries + 1
      BY <2>7, <2>8
    <3>3. m \notin Handler!Changing => Last(c).changes + change = 0
      BY <2>7, <2>8
    <3>4. Calling(w)'
      BY <2>6, <2>9, <3>1, <3>2, <3>3 DEF Calling
    <3> QED
      <4>1. Reading(w)' /\ Writing(w)'
        BY <2>10 DEF Reading, Writing
      <4> QED
        BY <3>4, <4>1 DEF CallWork
  <2>11. ASSUME worker'[w].pc = "writing" PROVE CallWork(w)'
    <3>1. worker'[w].answer \in Handler!Answers[m][outcome]
      BY <2>5, <2>11
    <3>2. m \in Handler!Changing /\ outcome = "done" => Last(c).changes + change > 0
      BY <2>7, <2>8
    <3>3. m \notin Handler!Changing => Last(c).changes + change = 0
      BY <2>7, <2>8
    <3>4. ASSUME MayChange(m, outcome) = {0}, Handler!Repeats(m) = 0 \/ outcome = "lookup"
          PROVE  Last(c).changes + change = 0
      <4>1. worker[w].tries <= Handler!Repeats(m)
        BY <1>1, <2>1, <2>2 DEF Flow, InThread, Busy, m
      <4>2. worker[w].tries <= 0
        BY <2>5, <2>8, <3>4, <4>1
      <4> QED
        BY <2>7, <2>8, <3>4, <4>2
    <3>5. Writing(w)'
      BY <2>6, <2>9, <3>1, <3>2, <3>3, <3>4 DEF Writing, Harmless
    <3> QED
      <4>1. Reading(w)' /\ Calling(w)'
        BY <2>11 DEF Reading, Calling
      <4> QED
        BY <3>5, <4>1 DEF CallWork
  <2>12. ASSUME NEW v \in Workers \ {w} PROVE CallWork(v)'
    <3>1. Busy(v) => worker[v].conn \in Conns \ {c}
      BY <1>1, <1>2, <2>1, <2>2, ConnsAssumption DEF Places, Alone
    <3> QED
      BY <1>1, <2>5, <3>1, CallKept DEF Work, CallWork
  <2> QED
    BY <2>5, <2>10, <2>11, <2>12 DEF Work, CallWork
<1>9. ASSUME NEW w \in Workers, Leave(w), worker[w].pc # "free" PROVE Work'
  <2>1. PICK c \in Conns : c = worker[w].conn /\ c # NoConn
    BY <1>1, <1>9 DEF Types, WorkerType, Places, Served
  <2>2. /\ worker'[w].pc = "free" /\ worker'[w].tries = 0
        /\ \A v \in Workers \ {w} : worker'[v] = worker[v]
    BY <1>1, <1>9 DEF Leave, Types, Free
  <2>3. \A d \in Conns \ {c} : history'[d] = history[d]
    BY <1>1, <1>9, <2>1 DEF Leave, Over, Types
  <2>4. \A v \in Workers \ {w} : worker[v].conn # c
    BY <1>1, <2>1 DEF Places, Alone
  <2> QED
    BY <1>2, <2>2, <2>3, <2>4, WorkKept
<1>10. ASSUME NEW w \in Workers, Write(w) PROVE Work'
  <2>1. CASE CanWrite(Method(w), worker[w].answer)
    <3>1. /\ worker'[w].pc = "reading" /\ worker'[w].tries = 0
          /\ \A v \in Workers \ {w} : worker'[v] = worker[v]
          /\ UNCHANGED history
      <4>1. worker' = [worker EXCEPT ![w] = [Free EXCEPT !.conn = worker[w].conn,
                                                         !.pc = "reading"]]
            /\ UNCHANGED history
        BY <1>10, <2>1 DEF Write
      <4> QED
        BY <1>1, <4>1 DEF Types, Free
    <3> QED
      BY <3>1, WorkKept
  <2>2. CASE ~CanWrite(Method(w), worker[w].answer)
    BY <1>9, <1>10, <2>2 DEF Write
  <2> QED
    BY <2>1, <2>2
<1>11. ASSUME NEW w \in Workers, FindClosed(w) PROVE Work'
  BY <1>9, <1>11 DEF FindClosed
<1>12. CASE UNCHANGED vars
  BY <1>12, WorkKept DEF vars
<1> QED
  BY <1>3, <1>4, <1>5, <1>6, <1>7, <1>8, <1>10, <1>11, <1>12 DEF Next

-----------------------------------------------------------------------------
(* Calls                                                                   *)

LEMMA ChangedOnceStep ==
  ASSUME IInv, [Next]_vars
  PROVE  ChangedOncePerCall'
<1> DEFINE Bounded(call) == call.changes <= IF call.method \in Repeated THEN 4 ELSE 1
           AllOf(h) == \A n \in 1..Len(h) : Bounded(h[n])
<1>1. Types /\ \A c \in Conns : AllOf(history[c])
  BY DEF IInv, ChangedOncePerCall
<1>2. ASSUME NEW c \in Conns,
             history'[c] = <<>> \/ AllOf(history'[c]),
             \A d \in Conns \ {c} : history'[d] = history[d]
      PROVE  ChangedOncePerCall'
  <2>1. AllOf(<<>>)
    OBVIOUS
  <2>2. \A d \in Conns : AllOf(history'[d])
    BY <1>1, <1>2, <2>1
  <2> QED
    BY <2>2 DEF ChangedOncePerCall
<1>3. ASSUME UNCHANGED history PROVE ChangedOncePerCall'
  BY <1>1, <1>3 DEF ChangedOncePerCall
<1>4. ASSUME NEW c \in Conns, Ask(c) PROVE ChangedOncePerCall'
  <2>1. PICK m \in Asks[c][Len(history[c]) + 1] :
          history' = [history EXCEPT ![c] =
                        Append(@, [method |-> m, changes |-> 0, outcome |-> ""])]
    BY <1>4 DEF Ask
  <2> DEFINE call == [method |-> m, changes |-> 0, outcome |-> ""]
  <2>2. Bounded(call)
    OBVIOUS
  <2>3. /\ history'[c] = Append(history[c], call) /\ history[c] \in Seq(Call)
        /\ \A d \in Conns \ {c} : history'[d] = history[d]
    BY <1>1, <2>1 DEF Types
  <2> HIDE DEF call, Bounded
  <2>4. AllOf(history'[c])
    <3>1. \A i \in 1..Len(history'[c]) :
             \/ i \in 1..Len(history[c]) /\ history'[c][i] = history[c][i]
             \/ history'[c][i] = call
      BY <2>3, AppendFacts
    <3> QED
      BY <1>1, <2>2, <3>1
  <2> QED
    BY <1>2, <2>3, <2>4
<1>5. ASSUME NEW w \in Workers, Attempt(w) PROVE ChangedOncePerCall'
  <2>1. Busy(w) /\ worker[w].pc = "calling"
    BY <1>5 DEF Attempt, Busy
  <2>2. PICK c \in Conns : c = worker[w].conn /\ Method(w) = Last(c).method /\ Last(c) \in Call
    BY <2>1, ThreadFacts
  <2> DEFINE m == Last(c).method
             Becomes(outcome, change) ==
               /\ Len(history'[c]) = Len(history[c])
               /\ history'[c][Len(history[c])] =
                    [method |-> m, changes |-> Last(c).changes + change, outcome |-> outcome]
               /\ \A i \in 1..Len(history[c]) :
                    i # Len(history[c]) => history'[c][i] = history[c][i]
               /\ \A d \in Conns \ {c} : history'[d] = history[d]
  <2>3. PICK outcome \in Handler!Outcome :
          \E change \in Changes(Last(c), outcome) : Becomes(outcome, change)
    BY <1>5, <2>2, AttemptFacts
  <2>4. PICK change \in Changes(Last(c), outcome) : Becomes(outcome, change)
    BY <2>3
  <2>5. /\ change \in {0, 1}
        /\ m \notin Handler!Changing => change = 0
        /\ m \in Handler!DeletingById /\ Last(c).changes > 0 => change = 0
    BY ChangesBound
  <2>6. worker[w].tries <= Handler!Repeats(m) /\ worker[w].tries \in Nat
    BY <1>1, <2>1, <2>2 DEF IInv, Flow, InThread, Types, WorkerType
  <2>7. /\ Handler!Repeats(m) \in 0..3
        /\ m \in Handler!Changing \ (Repeated \cup Handler!DeletingById) =>
             Handler!Repeats(m) = 0
    BY RepeatsBound
  <2>8. /\ Last(c).changes \in Nat
        /\ Last(c).changes <= IF m \in Handler!Changing THEN worker[w].tries ELSE 0
    BY <2>1, <2>2 DEF IInv, Work, Calling, ThreadsCall, Call
  <2>9. Last(c).changes + change <= IF m \in Repeated THEN 4 ELSE 1
    <3>1. CASE m \in Handler!Changing \ (Repeated \cup Handler!DeletingById)
      <4>1. Last(c).changes <= 0
        BY <2>6, <2>7, <2>8, <3>1
      <4> QED
        BY <2>5, <2>8, <3>1, <4>1
    <3>2. CASE m \in Handler!DeletingById
      <4>1. m \notin Repeated
        BY <3>2, DistinctMethods
      <4>2. Len(history[c]) \in 1..Len(history[c])
        BY <2>1, <2>2, ThreadFacts
      <4>3. Bounded(history[c][Len(history[c])])
        BY <1>1, <4>2
      <4>4. Last(c).changes <= 1
        BY <4>1, <4>3 DEF Last
      <4> QED
        BY <2>5, <2>8, <3>2, <4>1, <4>4
    <3>3. CASE m \in Repeated
      <4>1. m \in Handler!Changing
        BY <3>3, DistinctMethods
      <4> QED
        BY <2>5, <2>6, <2>7, <2>8, <3>3, <4>1
    <3>4. CASE m \notin Handler!Changing
      <4>1. m \notin Repeated
        BY <3>4, DistinctMethods
      <4> QED
        BY <2>5, <2>8, <3>4, <4>1
    <3> QED
      BY <3>1, <3>2, <3>3, <3>4
  <2>10. Bounded(history'[c][Len(history[c])])
    BY <2>4, <2>9
  <2> HIDE DEF Bounded
  <2>11. AllOf(history'[c])
    BY <1>1, <2>4, <2>10
  <2> QED
    BY <1>2, <2>4, <2>11
<1>6. ASSUME NEW c \in Conns, Over(c) PROVE ChangedOncePerCall'
  <2>1. history'[c] = <<>> /\ \A d \in Conns \ {c} : history'[d] = history[d]
    BY <1>1, <1>6 DEF Over, Types
  <2> QED
    BY <1>2, <2>1
<1>7. ASSUME NEW c \in Conns, HangUp(c) PROVE ChangedOncePerCall'
  BY <1>3, <1>6, <1>7 DEF HangUp
<1>8. ASSUME NEW w \in Workers, Leave(w), worker[w].pc # "free" PROVE ChangedOncePerCall'
  <2>1. worker[w].conn \in Conns
    BY <1>1, <1>8 DEF IInv, Types, WorkerType, Places, Served
  <2> QED
    BY <1>3, <1>6, <1>8, <2>1 DEF Leave
<1>9. ASSUME NEW w \in Workers, Write(w) PROVE ChangedOncePerCall'
  <2>1. CASE CanWrite(Method(w), worker[w].answer)
    <3>1. UNCHANGED history
      BY <1>9, <2>1 DEF Write
    <3> QED
      BY <1>3, <3>1
  <2>2. CASE ~CanWrite(Method(w), worker[w].answer)
    BY <1>8, <1>9, <2>2 DEF Write
  <2> QED
    BY <2>1, <2>2
<1>10. ASSUME NEW w \in Workers, FindClosed(w) PROVE ChangedOncePerCall'
  BY <1>8, <1>10 DEF FindClosed
<1>11. ASSUME NEW c \in Conns, Connect(c) \/ Hear(c) PROVE ChangedOncePerCall'
  <2>1. UNCHANGED history
    BY <1>11 DEF Connect, Hear
  <2> QED
    BY <1>3, <2>1
<1>12. ASSUME NEW w \in Workers, Take(w) \/ Read(w) PROVE ChangedOncePerCall'
  <2>1. UNCHANGED history
    BY <1>12 DEF Take, Read
  <2> QED
    BY <1>3, <2>1
<1>13. CASE UNCHANGED vars
  BY <1>3, <1>13 DEF vars
<1> QED
  BY <1>4, <1>5, <1>7, <1>9, <1>10, <1>11, <1>12, <1>13 DEF Next

(* Where the call of a waiting client is.                                  *)
Found(c) ==
  \/ request[c] # <<>>
  \/ reply[c] # <<>>
  \/ \E w \in Workers : worker[w].conn = c /\ Busy(w)
  \/ c \in shut

LEMMA FoundKept ==
  ASSUME NEW c \in Conns, Found(c), request'[c] = request[c], reply'[c] = reply[c],
         shut \subseteq shut',
         \A w \in Workers : worker[w].conn = c /\ Busy(w) => worker'[w] = worker[w]
  PROVE  Found(c)'
BY DEF Found, Busy

LEMMA FoundStep ==
  ASSUME IInv, Next, NEW c \in Conns, client'[c].at = "waiting"
  PROVE  Found(c)'
<1>1. Types /\ Places /\ Flow
  BY DEF IInv
<1>2. client[c].at = "waiting" => Found(c)
  BY DEF IInv, NoCallIsLost, Found, Serving, Busy
<1>3. ASSUME NEW d \in Conns, Connect(d) \/ Hear(d) \/ HangUp(d) PROVE Found(c)'
  <2>1. client[c].at = "waiting" /\ d # c
    <3>1. Connect(d) => client[c].at = "waiting" /\ d # c
      BY <1>1 DEF Connect, Types
    <3>2. Hear(d) => client[c].at = "waiting" /\ d # c
      BY <1>1 DEF Hear, Types
    <3>3. HangUp(d) => client[c].at = "waiting" /\ d # c
      BY <1>1 DEF HangUp, Types
    <3> QED
      BY <1>3, <3>1, <3>2, <3>3
  <2>2. request'[c] = request[c] /\ reply'[c] = reply[c]
    BY <1>1, <1>3, <2>1 DEF Connect, Hear, HangUp, Over, Types
  <2>3. UNCHANGED <<worker, shut>>
    BY <1>3 DEF Connect, Hear, HangUp
  <2> QED
    BY <1>2, <2>1, <2>2, <2>3, FoundKept
<1>4. ASSUME NEW d \in Conns, Ask(d) PROVE Found(c)'
  <2>1. CASE d = c
    <3>1. request'[c] # <<>>
      <4>1. /\ request[c] \in Seq(Nat)
            /\ request'[c] = Append(request[c], Len(history[c]) + 1)
        BY <1>1, <1>4, <2>1 DEF Ask, Types
      <4> QED
        BY <4>1, AppendFacts
    <3> QED
      BY <3>1 DEF Found
  <2>2. CASE d # c
    <3>1. client[c].at = "waiting" /\ request'[c] = request[c] /\ reply'[c] = reply[c]
          /\ UNCHANGED <<worker, shut>>
      BY <1>1, <1>4, <2>2 DEF Ask, Types
    <3> QED
      BY <1>2, <3>1, FoundKept
  <2> QED
    BY <2>1, <2>2
<1>5. ASSUME NEW w \in Workers, Take(w) PROVE Found(c)'
  <2>1. client[c].at = "waiting" /\ request'[c] = request[c] /\ reply'[c] = reply[c]
        /\ UNCHANGED shut
    BY <1>5 DEF Take
  <2>2. ~Busy(w) /\ \A v \in Workers \ {w} : worker'[v] = worker[v]
    BY <1>1, <1>5 DEF Take, Types, Busy
  <2> QED
    BY <1>2, <2>1, <2>2, FoundKept
<1>6. ASSUME NEW w \in Workers, Read(w) PROVE Found(c)'
  <2>1. PICK d \in Conns : d = worker[w].conn
    BY <1>6, ReadFacts
  <2>2. /\ \A e \in Conns \ {d} : request'[e] = request[e] /\ reply'[e] = reply[e]
        /\ \A v \in Workers \ {w} : worker'[v] = worker[v]
        /\ worker'[w].conn = d
        /\ client' = client
        /\ \/ worker'[w].pc = "calling"
           \/ reply'[d] = Append(reply[d], [to |-> Len(history[d]),
                 raises |-> "UNKNOWN_METHOD", success |-> FALSE, fails |-> TRUE])
    BY <1>6, <2>1, ReadFacts
  <2>3. ~Busy(w) /\ UNCHANGED shut
    BY <1>6 DEF Read, Busy
  <2>4. CASE d = c
    <3>1. CASE worker'[w].pc = "calling"
      BY <2>2, <2>4, <3>1 DEF Found, Busy
    <3>2. CASE reply'[d] = Append(reply[d], [to |-> Len(history[d]),
                 raises |-> "UNKNOWN_METHOD", success |-> FALSE, fails |-> TRUE])
      <4>1. reply[d] \in Seq(Message)
        BY <1>1 DEF Types
      <4>2. reply'[d] # <<>>
        BY <3>2, <4>1, AppendFacts
      <4> QED
        BY <2>4, <4>2 DEF Found
    <3> QED
      BY <2>2, <3>1, <3>2
  <2>5. CASE d # c
    BY <1>2, <2>2, <2>3, <2>5, FoundKept
  <2> QED
    BY <2>4, <2>5
<1>7. ASSUME NEW w \in Workers, Attempt(w) PROVE Found(c)'
  <2>1. Busy(w) /\ UNCHANGED <<client, request, reply, shut>>
    BY <1>7 DEF Attempt, Busy
  <2>2. PICK d \in Conns : d = worker[w].conn
    BY <2>1, ThreadFacts
  <2>3. /\ worker'[w].conn = d /\ worker'[w].pc \in {"calling", "writing"}
        /\ \A v \in Workers \ {w} : worker'[v] = worker[v]
    BY <1>7, <2>2, AttemptFacts
  <2>4. CASE d = c
    BY <2>3, <2>4 DEF Found, Busy
  <2>5. CASE d # c
    BY <1>2, <2>1, <2>2, <2>3, <2>5, FoundKept
  <2> QED
    BY <2>4, <2>5
<1>8. ASSUME NEW w \in Workers, Leave(w), worker[w].pc # "free", UNCHANGED client
      PROVE  Found(c)'
  <2>1. PICK d \in Conns : d = worker[w].conn
    BY <1>1, <1>8 DEF Places, Served, Types, WorkerType
  <2>2. /\ shut' = shut \cup {d}
        /\ \A v \in Workers \ {w} : worker'[v] = worker[v]
        /\ \A e \in Conns \ {d} : request'[e] = request[e] /\ reply'[e] = reply[e]
    BY <1>1, <1>8, <2>1 DEF Leave, Over, Types
  <2>3. CASE d = c
    BY <2>2, <2>3 DEF Found
  <2>4. CASE d # c
    BY <1>2, <1>8, <2>1, <2>2, <2>4, FoundKept
  <2> QED
    BY <2>3, <2>4
<1>9. ASSUME NEW w \in Workers, Write(w) PROVE Found(c)'
  <2>1. CASE CanWrite(Method(w), worker[w].answer)
    <3>1. PICK d \in Conns : d = worker[w].conn
      BY <1>9, ThreadFacts DEF Write, Busy
    <3>2. PICK message : reply' = [reply EXCEPT ![d] = Append(@, message)]
      BY <1>9, <2>1, <3>1 DEF Write
    <3>3. /\ \A v \in Workers \ {w} : worker'[v] = worker[v]
          /\ UNCHANGED <<client, request, shut>>
      BY <1>1, <1>9, <2>1 DEF Write, Types
    <3>4. CASE d = c
      <4>1. reply[d] \in Seq(Message) /\ reply'[d] = Append(reply[d], message)
        BY <1>1, <3>2 DEF Types
      <4>2. reply'[d] # <<>>
        BY <4>1, AppendFacts
      <4> QED
        BY <3>4, <4>2 DEF Found
    <3>5. CASE d # c
      <4>1. reply'[c] = reply[c]
        BY <1>1, <3>2, <3>5 DEF Types
      <4> QED
        BY <1>2, <3>1, <3>3, <3>5, <4>1, FoundKept
    <3> QED
      BY <3>4, <3>5
  <2>2. CASE ~CanWrite(Method(w), worker[w].answer)
    BY <1>8, <1>9, <2>2 DEF Write
  <2> QED
    BY <2>1, <2>2
<1>10. ASSUME NEW w \in Workers, FindClosed(w) PROVE Found(c)'
  BY <1>8, <1>10 DEF FindClosed
<1> QED
  BY <1>3, <1>4, <1>5, <1>6, <1>7, <1>9, <1>10 DEF Next

LEMMA NoCallIsLostStep ==
  ASSUME IInv, [Next]_vars
  PROVE  NoCallIsLost'
<1>1. CASE Next
  <2>1. \A c \in Conns : client'[c].at = "waiting" => Found(c)'
    BY <1>1, FoundStep
  <2> QED
    BY <2>1 DEF NoCallIsLost, Found, Serving, Busy
<1>2. CASE UNCHANGED vars
  BY <1>2 DEF IInv, NoCallIsLost, Serving, vars
<1> QED
  BY <1>1, <1>2

-----------------------------------------------------------------------------
(* The invariant and what follows from it                                  *)

LEMMA IInvInit == Init => IInv
<1> SUFFICES ASSUME Init PROVE IInv
  OBVIOUS
<1>1. Types
  BY TypesInit
<1>2. \A w \in Workers : worker[w] = Free
  BY DEF Init
<1>3. Len(queue) = 0
  BY DEF Init
<1>4. Places
  BY <1>2, <1>3 DEF Init, Places, Served, Alone, Queued, Opened, Free
<1>5. Flow
  BY <1>2 DEF Init, Flow, InRequest, InReply, WithClient, InThread, Busy, Free
<1>6. Work
  BY <1>2 DEF Work, Reading, Calling, Writing, Free
<1>7. ChangedOncePerCall
  BY DEF Init, ChangedOncePerCall
<1>8. NoCallIsLost
  BY DEF Init, NoCallIsLost
<1> QED
  BY <1>1, <1>4, <1>5, <1>6, <1>7, <1>8 DEF IInv

LEMMA IInvStep == IInv /\ [Next]_vars => IInv'
BY TypesStep, PlacesStep, FlowStep, WorkStep, ChangedOnceStep, NoCallIsLostStep DEF IInv

LEMMA IInvHolds == Spec => []IInv
BY IInvInit, IInvStep, PTL DEF Spec

LEMMA IInvTypes == IInv => TypeOK
<1> SUFFICES ASSUME IInv PROVE TypeOK
  OBVIOUS
<1>1. ASSUME NEW w \in Workers
      PROVE  \/ worker[w] = Free
             \/ /\ worker[w].conn \in Conns
                /\ worker[w].pc \in {"reading", "calling", "writing"}
                /\ worker[w].pc # "reading" =>
                     /\ worker[w].n \in 1..Len(history[worker[w].conn])
                     /\ Method(w) \in Known
                     /\ worker[w].tries \in 0..Handler!Repeats(Method(w))
  <2>1. CASE worker[w].pc = "free"
    BY <2>1 DEF IInv, Places, Served
  <2>2. CASE worker[w].pc # "free"
    <3>1. worker[w].conn \in Conns /\ worker[w].pc \in {"reading", "calling", "writing"}
      BY <2>2 DEF IInv, Places, Served, Types, WorkerType
    <3>2. ASSUME worker[w].pc # "reading"
          PROVE  /\ worker[w].n \in 1..Len(history[worker[w].conn])
                 /\ Method(w) \in Known
                 /\ worker[w].tries \in 0..Handler!Repeats(Method(w))
      <4>1. Busy(w)
        BY <3>1, <3>2 DEF Busy
      <4>2. worker[w].n \in 1..Len(history[worker[w].conn]) /\ Method(w) \in Known
        BY <4>1, ThreadFacts
      <4>3. worker[w].tries \in Nat /\ worker[w].tries <= Handler!Repeats(Method(w))
        BY <4>1 DEF IInv, Flow, InThread, Types, WorkerType
      <4>4. Handler!Repeats(Method(w)) \in 0..3
        BY RepeatsBound
      <4>5. worker[w].tries \in 0..Handler!Repeats(Method(w))
        BY <4>3, <4>4
      <4> QED
        BY <4>2, <4>5
    <3> QED
      BY <3>1, <3>2
  <2> QED
    BY <2>1, <2>2
<1> QED
  BY <1>1 DEF IInv, Types, TypeOK

LEMMA HeardFacts ==
  ASSUME IInv, NEW c \in Conns, client[c].heard.what # ""
  PROVE  /\ client[c].heard.to = Len(history[c])
         /\ Accords(Last(c), client[c].heard.what)
<1>1. client[c].heard # Silence
  <2>1. Silence.what = ""
    BY DEF Silence
  <2> QED
    BY <2>1
<1> QED
  BY <1>1 DEF IInv, Flow, WithClient

LEMMA IInvSafety ==
  IInv => AnswersMatchCalls /\ ReturnedMeansDone /\ ReasonMeansUndone /\ MissingOnlyUndefined
<1> SUFFICES ASSUME IInv
             PROVE  /\ AnswersMatchCalls /\ ReturnedMeansDone
                    /\ ReasonMeansUndone /\ MissingOnlyUndefined
  OBVIOUS
<1>1. AnswersMatchCalls
  BY DEF IInv, Flow, WithClient, AnswersMatchCalls
<1>2. ReturnedMeansDone
  BY HeardFacts DEF ReturnedMeansDone, HasHeard, Accords
<1>3. ReasonMeansUndone
  BY DEF IInv, Flow, WithClient, ReasonMeansUndone, Accords
<1>4. MissingOnlyUndefined
  BY HeardFacts DEF MissingOnlyUndefined, HasHeard, Accords
<1> QED
  BY <1>1, <1>2, <1>3, <1>4

(* The variables keep their types; a thread at work has a call of its      *)
(* connection, and repeats its request as often as the session allows.     *)
THEOREM RpcTypes == Spec => []TypeOK
BY IInvHolds, IInvTypes, PTL

(* The generated client compares no sequence numbers, and yet takes every  *)
(* answer for the call it belongs to.                                      *)
THEOREM AnswersMatch == Spec => []AnswersMatchCalls
BY IInvHolds, IInvSafety, PTL

(* A client waits for nothing only on a connection the server has closed.  *)
THEOREM CallsKept == Spec => []NoCallIsLost
<1>1. IInv => NoCallIsLost
  BY DEF IInv
<1> QED
  BY <1>1, IInvHolds, PTL

(* Only a cluster, or what a name or a volume stands for, can be changed   *)
(* more than once in one call, by the repetitions of the session.          *)
THEOREM ChangedOnce == Spec => []ChangedOncePerCall
<1>1. IInv => ChangedOncePerCall
  BY DEF IInv
<1> QED
  BY <1>1, IInvHolds, PTL

(* A call that returns did what it was to do, except those that are silent *)
(* about a failure.                                                        *)
THEOREM ReturnedIsDone == Spec => []ReturnedMeansDone
BY IInvHolds, IInvSafety, PTL

(* A call that ends with the reason of a refusal changed nothing, except   *)
(* for the reasons that a method can meet after a change (Excused); and    *)
(* only the methods listed leave the client without a result.              *)
THEOREM RefusalsTrue == Spec => []RefusalsAreTrue
<1>1. IInv => RefusalsAreTrue
  BY IInvSafety DEF RefusalsAreTrue
<1> QED
  BY <1>1, IInvHolds, PTL

-----------------------------------------------------------------------------
(* Rpc implements Calls.  A connection on which nothing is being done has  *)
(* its last call with the portal, in the answer, or nowhere any more.      *)

LEMMA WorkingKept ==
  ASSUME NEW c \in Conns, request'[c] = request[c],
         \A w \in Workers :
           worker'[w].conn = c /\ worker'[w].pc = "calling" <=>
             worker[w].conn = c /\ worker[w].pc = "calling"
  PROVE  Working(c)' = Working(c)
BY DEF Working, Serving

LEMMA NotWorking ==
  ASSUME IInv, NEW c \in Conns,
         \/ client[c].at = "idle"
         \/ client[c].at = "waiting" /\ reply[c] # <<>>
  PROVE  ~Working(c)
BY DEF IInv, Flow, InRequest, InThread, Busy, Working, Serving

(* The portal's steps.                                                     *)
LEMMA PortalStep ==
  ASSUME IInv, NEW c \in Conns, Connect(c) \/ Ask(c) \/ Hear(c) \/ HangUp(c)
  PROVE  Promise!CallStep(c)
<1>1. Types /\ Places /\ Flow
  BY DEF IInv
<1>2. worker' = worker
  BY DEF Connect, Ask, Hear, HangUp
<1>3. \A d \in Conns \ {c} : Working(d)' = Working(d)
  <2>1. \A d \in Conns \ {c} : request'[d] = request[d]
    BY <1>1 DEF Connect, Ask, Hear, HangUp, Over, Types
  <2> QED
    BY <1>2, <2>1, WorkingKept
<1>4. CASE Connect(c)
  <2>1. Working(c)' = Working(c)
    BY <1>2, <1>4, WorkingKept DEF Connect
  <2> QED
    BY <1>3, <1>4, <2>1 DEF Connect, Promise!CallStep, Promise!Open
<1>5. CASE Ask(c)
  <2>1. client[c].at = "idle" /\ ~Working(c)
    <3>1. client[c].at = "idle"
      BY <1>5 DEF Ask
    <3> QED
      BY <3>1, NotWorking
  <2>2. Working(c)'
    <3>1. request'[c] = Append(request[c], Len(history[c]) + 1) /\ request[c] \in Seq(Nat)
      BY <1>1, <1>5 DEF Ask, Types
    <3>2. request'[c] # <<>>
      BY <3>1, AppendFacts
    <3> QED
      BY <3>2 DEF Working
  <2>3. \E m \in Asked :
          history' = [history EXCEPT ![c] =
                        Append(@, [method |-> m, changes |-> 0, outcome |-> ""])]
    <3>1. Asks[c] \in Seq(SUBSET Asked) /\ Len(history[c]) \in Nat
      BY <1>1, AsksAssumption DEF Types
    <3>2. Len(history[c]) + 1 \in 1..Len(Asks[c])
      <4>1. Len(Asks[c]) \in Nat
        BY <3>1
      <4>2. Len(history[c]) < Len(Asks[c])
        BY <1>5 DEF Ask
      <4> QED
        BY <3>1, <4>1, <4>2
    <3>3. Asks[c][Len(history[c]) + 1] \in SUBSET Asked
      BY <3>1, <3>2, ElementOfSeq
    <3> QED
      BY <1>5, <3>3 DEF Ask
  <2>4. {d \in Conns : Working(d)}' = {d \in Conns : Working(d)} \cup {c}
    BY <1>3, <2>2
  <2> QED
    BY <1>5, <2>1, <2>3, <2>4
    DEF Ask, Silence, Promise!CallStep, Promise!Begin, Promise!Nothing
<1>6. CASE Hear(c)
  <2>1. ~Working(c)
    BY <1>6, NotWorking DEF Hear
  <2>2. Working(c)' = Working(c)
    BY <1>2, <1>6, WorkingKept DEF Hear
  <2>3. /\ Head(reply[c]).to = Len(history[c])
        /\ Accords(Last(c), Heard(Last(c).method, Head(reply[c])))
    BY <1>1, <1>6 DEF Hear, Flow, InReply
  <2>4. /\ client'[c] = [at |-> "idle", heard |-> [to |-> Head(reply[c]).to,
                           what |-> Heard(Last(c).method, Head(reply[c]))]]
        /\ client' = [client EXCEPT ![c] = client'[c]]
    BY <1>1, <1>6 DEF Hear, Types, Last
  <2>5. UNCHANGED {d \in Conns : Working(d)}
    BY <1>3, <2>2
  <2> HIDE DEF Working
  <2> QED
    BY <1>6, <2>1, <2>3, <2>4, <2>5 DEF Hear, Last, Promise!CallStep, Promise!Learn
<1>7. CASE HangUp(c)
  <2>1. CASE c \in shut
    <3>1. ~Working(c)'
      <4>1. request'[c] = <<>>
        BY <1>1, <1>7, <2>1 DEF HangUp, Over, Types
      <4>2. \A w \in Workers : worker[w].conn # c
        BY <1>1, <2>1, ConnsAssumption DEF Places, Served
      <4> QED
        BY <1>2, <4>1, <4>2 DEF Working, Serving
    <3>2. {d \in Conns : Working(d)}' = {d \in Conns : Working(d)} \ {c}
      BY <1>3, <3>1
    <3> QED
      BY <1>7, <2>1, <3>2
      DEF HangUp, Over, Silence, Promise!CallStep, Promise!Forget, Promise!Nothing
  <2>2. CASE c \notin shut
    <3>1. Working(c)' = Working(c)
      BY <1>2, <1>7, <2>2, WorkingKept DEF HangUp
    <3>2. UNCHANGED {d \in Conns : Working(d)}
      BY <1>3, <3>1
    <3> QED
      BY <1>7, <2>2, <3>2
      DEF HangUp, Silence, Promise!CallStep, Promise!Close, Promise!Nothing
  <2> QED
    BY <2>1, <2>2
<1> QED
  BY <1>4, <1>5, <1>6, <1>7

(* A thread that leaves its connection without having anything to do.      *)
LEMMA LeaveStep ==
  ASSUME IInv, NEW w \in Workers, Leave(w), worker[w].pc \in {"reading", "writing"},
         client' = client
  PROVE  Promise!CallStep(worker[w].conn) \/ UNCHANGED Promise!callVars
<1>1. Types /\ Places /\ Flow
  BY DEF IInv
<1>2. PICK c \in Conns : c = worker[w].conn
  BY <1>1 DEF Places, Served, Types, WorkerType
<1>3. /\ \A v \in Workers \ {w} : worker'[v] = worker[v] /\ worker[v].conn # c
      /\ worker'[w].pc = "free"
  BY <1>1, <1>2, ConnsAssumption DEF Leave, Types, Places, Alone, Free
<1>4. \A d \in Conns \ {c} : Working(d)' = Working(d)
  <2>1. \A d \in Conns \ {c} : request'[d] = request[d]
    BY <1>1, <1>2 DEF Leave, Over, Types
  <2> QED
    BY <1>2, <1>3, <2>1, WorkingKept
<1>5. CASE client[c].at = "gone"
  <2>1. ~Working(c)'
    <3>1. request'[c] = <<>>
      BY <1>1, <1>2, <1>5 DEF Leave, Over, Types
    <3> QED
      BY <1>3, <3>1 DEF Working, Serving
  <2>2. {d \in Conns : Working(d)}' = {d \in Conns : Working(d)} \ {c}
    BY <1>4, <2>1
  <2>3. client[c] = [at |-> "gone", heard |-> Silence]
    BY <1>1, <1>5 DEF Flow, WithClient, Types
  <2>4. client' = [client EXCEPT ![c] = [at |-> "gone", heard |-> Silence]]
    BY <1>1, <2>3 DEF Types
  <2>5. history' = [history EXCEPT ![c] = <<>>]
    BY <1>2, <1>5 DEF Leave, Over
  <2>6. Promise!Forget(c)
    BY <1>5, <2>2, <2>4, <2>5 DEF Silence, Promise!Forget, Promise!Nothing
  <2> QED
    BY <1>2, <2>6 DEF Promise!CallStep
<1>6. CASE client[c].at # "gone"
  <2>1. Working(c)' = Working(c)
    BY <1>2, <1>3, <1>6, WorkingKept DEF Leave
  <2>2. UNCHANGED {d \in Conns : Working(d)}
    BY <1>4, <2>1
  <2> QED
    BY <1>2, <1>6, <2>2 DEF Leave, Promise!callVars
<1> QED
  BY <1>5, <1>6

LEMMA AttemptStep ==
  ASSUME IInv, IInv', NEW w \in Workers, Attempt(w)
  PROVE  Promise!CallStep(worker[w].conn)
<1>1. Types /\ Places /\ Flow
  BY DEF IInv
<1>2. Busy(w) /\ worker[w].pc = "calling"
  BY DEF Attempt, Busy
<1>3. PICK c \in Conns : c = worker[w].conn
  BY <1>2, ThreadFacts
<1>4. /\ Len(history[c]) \in 1..Len(history[c])
      /\ worker[w].n = Len(history[c]) /\ Method(w) = Last(c).method
      /\ history[c][Len(history[c])] = Last(c) /\ request[c] = <<>>
      /\ history \in [Conns -> Seq(Call)]
  BY <1>1, <1>2, <1>3, ThreadFacts DEF Flow, InThread, Types
<1>5. PICK outcome \in Handler!Outcome : \E change \in {0, 1} :
        history' = [history EXCEPT ![c][Len(history[c])] =
                      [method |-> @.method, changes |-> @.changes + change,
                       outcome |-> outcome]]
  <2>1. \A o : Changes(Last(c), o) \subseteq {0, 1}
    BY ChangesBound
  <2>2. \E outcome \in Outcomes(Method(w)) : \E change \in Changes(Last(c), outcome) :
          history' = [history EXCEPT ![c][Len(history[c])] =
                        [method |-> @.method, changes |-> @.changes + change,
                         outcome |-> outcome]]
    <3>1. history[worker[w].conn][worker[w].n] = Last(c)
      BY <1>3, <1>4
    <3>2. PICK outcome \in Outcomes(Method(w)) :
            \E change \in Changes(history[worker[w].conn][worker[w].n], outcome) :
              history' = [history EXCEPT ![worker[w].conn][worker[w].n] =
                            [method |-> @.method, changes |-> @.changes + change,
                             outcome |-> outcome]]
      BY DEF Attempt
    <3> QED
      BY <1>3, <1>4, <3>1, <3>2
  <2> QED
    BY <2>1, <2>2 DEF Outcomes
<1>6. PICK change \in {0, 1} :
        history' = [history EXCEPT ![c][Len(history[c])] =
                      [method |-> @.method, changes |-> @.changes + change,
                       outcome |-> outcome]]
  BY <1>5
<1> DEFINE call == [method |-> Last(c).method, changes |-> Last(c).changes + change,
                    outcome |-> outcome]
<1>7. /\ history' = [history EXCEPT ![c][Len(history[c])] = call]
      /\ history'[c][Len(history[c])] = call /\ Len(history'[c]) = Len(history[c])
  BY <1>4, <1>6
<1>8. call.changes > 1 => call.method \in Repeated
  <2>1. history'[c][Len(history[c])].changes <=
          IF history'[c][Len(history[c])].method \in Repeated THEN 4 ELSE 1
    BY <1>4, <1>7 DEF IInv, ChangedOncePerCall
  <2>2. Last(c).changes \in Nat
    BY <1>3, <1>2, ThreadFacts DEF Call
  <2> QED
    BY <1>6, <1>7, <2>1, <2>2
<1>9. Working(c)
  BY <1>2, <1>3 DEF Working, Serving
<1>10. /\ \A v \in Workers \ {w} : worker'[v] = worker[v] /\ worker[v].conn # c
       /\ worker'[w].conn = c /\ UNCHANGED <<client, request, reply>>
  BY <1>1, <1>3, AttemptFacts, ConnsAssumption DEF Places, Alone
<1>11. \A d \in Conns \ {c} : Working(d)' = Working(d)
  BY <1>3, <1>10, WorkingKept
<1>12. {d \in Conns : Working(d)}' \in
         {{d \in Conns : Working(d)}, {d \in Conns : Working(d)} \ {c}}
  <2>1. CASE Working(c)'
    BY <1>9, <1>11, <2>1
  <2>2. CASE ~Working(c)'
    BY <1>11, <2>2
  <2> QED
    BY <2>1, <2>2
<1>13. Promise!Work(c)
  <2> HIDE DEF Working
  <2>1. c \in {d \in Conns : Working(d)}
    BY <1>9
  <2>2. call = [method |-> history[c][Len(history[c])].method, outcome |-> outcome,
                changes |-> history[c][Len(history[c])].changes + change]
    BY <1>4
  <2>3. \E o \in Handler!Outcome, x \in {0, 1} :
          LET n == Len(history[c])
              new == [method |-> history[c][n].method, outcome |-> o,
                      changes |-> history[c][n].changes + x]
          IN /\ new.changes > 1 => new.method \in Repeated
             /\ history' = [history EXCEPT ![c][n] = new]
    <3>1. /\ call.changes > 1 => call.method \in Repeated
          /\ history' = [history EXCEPT ![c][Len(history[c])] = call]
      BY <1>7, <1>8
    <3> WITNESS outcome \in Handler!Outcome, change \in {0, 1}
    <3> QED
      BY <2>2, <3>1
  <2> HIDE DEF call
  <2> QED
    BY <1>10, <1>12, <2>1, <2>3 DEF Promise!Work
<1> QED
  BY <1>3, <1>13 DEF Promise!CallStep

(* The other steps of a thread.                                            *)
LEMMA ServingStep ==
  ASSUME IInv, NEW w \in Workers, Take(w) \/ Read(w) \/ Write(w) \/ FindClosed(w)
  PROVE  (\E c \in Conns : Promise!CallStep(c)) \/ UNCHANGED Promise!callVars
<1>1. Types /\ Places /\ Flow
  BY DEF IInv
<1>2. CASE Take(w)
  <2>1. /\ \A v \in Workers \ {w} : worker'[v] = worker[v]
        /\ worker[w].pc = "free" /\ worker'[w].pc = "reading"
        /\ UNCHANGED <<client, history, request>>
    BY <1>1, <1>2 DEF Take, Types, Free
  <2>2. \A d \in Conns : Working(d)' = Working(d)
    BY <2>1, WorkingKept
  <2> QED
    BY <2>1, <2>2 DEF Promise!callVars
<1>3. CASE Read(w)
  <2>1. PICK c \in Conns : c = worker[w].conn
    BY <1>3, ReadFacts
  <2>2. /\ request[c] # <<>> /\ request'[c] = <<>>
        /\ \A d \in Conns \ {c} : request'[d] = request[d]
        /\ \A v \in Workers \ {w} : worker'[v] = worker[v] /\ worker[v].conn # c
        /\ worker'[w].conn = c /\ UNCHANGED <<client, history>>
        /\ worker'[w].pc = "calling" \/ worker'[w].pc = "reading"
    BY <1>1, <1>3, <2>1, ReadFacts, ConnsAssumption DEF Places, Alone
  <2>3. \A d \in Conns \ {c} : Working(d)' = Working(d)
    BY <2>1, <2>2, WorkingKept
  <2>4. Working(c)
    BY <2>2 DEF Working
  <2>5. CASE Working(c)'
    <3>1. UNCHANGED {d \in Conns : Working(d)}
      BY <2>3, <2>4, <2>5
    <3> QED
      BY <2>2, <3>1 DEF Promise!callVars
  <2>6. CASE ~Working(c)'
    <3>1. {d \in Conns : Working(d)}' = {d \in Conns : Working(d)} \ {c}
      BY <2>3, <2>6
    <3>2. Promise!Settle(c)
      BY <2>2, <2>4, <3>1 DEF Promise!Settle
    <3> QED
      BY <3>2 DEF Promise!CallStep
  <2> QED
    BY <2>5, <2>6
<1>4. ASSUME Leave(w), worker[w].pc \in {"reading", "writing"}, client' = client
      PROVE  (\E c \in Conns : Promise!CallStep(c)) \/ UNCHANGED Promise!callVars
  <2>1. worker[w].conn \in Conns
    BY <1>1, <1>4 DEF Places, Served, Types, WorkerType
  <2> QED
    BY <1>4, <2>1, LeaveStep
<1>5. CASE Write(w)
  <2>1. CASE CanWrite(Method(w), worker[w].answer)
    <3>1. /\ \A v \in Workers \ {w} : worker'[v] = worker[v]
          /\ worker[w].pc = "writing" /\ worker'[w].pc = "reading"
          /\ UNCHANGED <<client, history, request>>
      <4>1. worker' = [worker EXCEPT ![w] =
                         [Free EXCEPT !.conn = worker[w].conn, !.pc = "reading"]]
        BY <1>5, <2>1 DEF Write
      <4>2. worker'[w].pc = "reading" /\ \A v \in Workers \ {w} : worker'[v] = worker[v]
        BY <1>1, <4>1 DEF Types, Free
      <4> QED
        BY <1>5, <2>1, <4>2 DEF Write
    <3>2. \A d \in Conns : Working(d)' = Working(d)
      BY <3>1, WorkingKept
    <3> QED
      BY <3>1, <3>2 DEF Promise!callVars
  <2>2. CASE ~CanWrite(Method(w), worker[w].answer)
    BY <1>4, <1>5, <2>2 DEF Write
  <2> QED
    BY <2>1, <2>2
<1>6. CASE FindClosed(w)
  BY <1>4, <1>6 DEF FindClosed
<1> QED
  BY <1>2, <1>3, <1>5, <1>6

LEMMA CallsStep ==
  IInv /\ IInv' /\ [Next]_vars => [\E c \in Conns : Promise!CallStep(c)]_Promise!callVars
<1> SUFFICES ASSUME IInv, IInv', [Next]_vars
             PROVE  (\E c \in Conns : Promise!CallStep(c)) \/ UNCHANGED Promise!callVars
  OBVIOUS
<1>1. ASSUME NEW w \in Workers, Attempt(w) PROVE \E c \in Conns : Promise!CallStep(c)
  <2>1. worker[w].conn \in Conns
    BY <1>1, ThreadFacts DEF Attempt, Busy
  <2> QED
    BY <1>1, <2>1, AttemptStep
<1>2. CASE UNCHANGED vars
  BY <1>2 DEF vars, Promise!callVars, Working, Serving
<1> QED
  BY <1>1, <1>2, PortalStep, ServingStep DEF Next

(* For the portal a connection is one call after the other: nothing is     *)
(* done for a call that was answered, and what is heard of it is true,     *)
(* however threads, queue and messages are interleaved.                    *)
THEOREM RefinesCalls == Spec => ImplementsCalls
<1>1. Init => Promise!CallsInit
  <2> SUFFICES ASSUME Init PROVE Promise!CallsInit
    OBVIOUS
  <2>1. \A c \in Conns : request[c] = <<>>
    BY DEF Init
  <2>2. \A w \in Workers : worker[w].pc # "calling"
    BY DEF Init, Free
  <2>3. {c \in Conns : Working(c)} = {}
    BY <2>1, <2>2 DEF Working
  <2> QED
    BY <2>3 DEF Init, Promise!CallsInit, Promise!Nothing, Silence
<1> QED
  BY <1>1, IInvHolds, CallsStep, PTL DEF Spec, ImplementsCalls, Promise!CallsSpec

-----------------------------------------------------------------------------
(* Why a call that a thread has begun comes to its end: the requests its   *)
(* session may still send, and the answer.                                 *)
ToGo(w) ==
  IF worker[w].pc = "calling" THEN 2 + (Handler!Repeats(Method(w)) - worker[w].tries)
  ELSE IF worker[w].pc = "writing" THEN 1 ELSE 0

GoesOn(w) == Attempt(w) \/ Write(w) \/ FindClosed(w)

(* Each step of the thread goes down that measure, and no step of another  *)
(* thread or of the portal takes it back.                                  *)
CallsGetCloser ==
  [][\A w \in Workers : Busy(w) =>
       \/ ToGo(w)' < ToGo(w)
       \/ worker'[w] = worker[w] /\ Method(w)' = Method(w) /\ ~GoesOn(w)]_vars

(* Steps of the thread itself.                                             *)
LEMMA OwnCloser ==
  ASSUME IInv, NEW w \in Workers, Busy(w), GoesOn(w)
  PROVE  ToGo(w)' < ToGo(w)
<1>1. /\ Types /\ worker[w] \in WorkerType /\ worker[w].tries \in Nat
      /\ worker[w].tries <= Handler!Repeats(Method(w))
      /\ Handler!Repeats(Method(w)) \in 0..3
  BY RepeatsBound DEF IInv, Types, WorkerType, Flow, InThread
<1>2. ToGo(w)' = IF worker'[w].pc = "calling"
                 THEN 2 + (Handler!Repeats(Method(w)') - worker'[w].tries)
                 ELSE IF worker'[w].pc = "writing" THEN 1 ELSE 0
  BY DEF ToGo
<1>3. CASE Attempt(w)
  <2>1. worker[w].pc = "calling"
    BY <1>3 DEF Attempt
  <2>2. PICK c \in Conns : /\ c = worker[w].conn /\ worker[w].n = Len(history[c])
    BY ThreadFacts
  <2>3. /\ worker'[w].conn = c
        /\ worker'[w].n = worker[w].n
        /\ history'[c][Len(history[c])].method = Method(w)
        /\ \/ /\ worker'[w].pc = "calling"
              /\ worker'[w].tries = worker[w].tries + 1
              /\ worker[w].tries < Handler!Repeats(Method(w))
           \/ worker'[w].pc = "writing"
    <3>1. PICK outcome \in Handler!Outcome :
            \E change \in Changes(Last(c), outcome) :
              /\ history'[c][Len(history[c])] =
                   [method |-> Method(w), changes |-> Last(c).changes + change,
                    outcome |-> outcome]
              /\ worker'[w].conn = c
              /\ worker'[w].n = worker[w].n
              /\ \/ /\ worker'[w].pc = "calling"
                    /\ worker'[w].tries = worker[w].tries + 1
                    /\ worker[w].tries < Handler!Repeats(Method(w))
                 \/ worker'[w].pc = "writing"
      BY <1>3, <2>2, AttemptFacts
    <3> QED
      BY <3>1
  <2>4. Method(w)' = Method(w)
    BY <2>2, <2>3 DEF Method
  <2>5. ToGo(w) = 2 + (Handler!Repeats(Method(w)) - worker[w].tries)
    BY <2>1 DEF ToGo
  <2>6. CASE worker'[w].pc = "writing"
    BY <1>1, <1>2, <2>5, <2>6
  <2>7. CASE worker'[w].pc = "calling"
    BY <1>1, <1>2, <2>3, <2>4, <2>5, <2>7
  <2> QED
    BY <2>3, <2>6, <2>7
<1>4. CASE Write(w) \/ FindClosed(w)
  <2>1. worker[w].pc = "writing"
    BY <1>4 DEF Write, FindClosed, Busy
  <2>2. worker'[w].pc \in {"free", "reading"}
    <3>1. CASE Leave(w)
      BY <1>1, <3>1 DEF Leave, Free, Types
    <3>2. CASE worker' = [worker EXCEPT ![w] =
                            [Free EXCEPT !.conn = worker[w].conn, !.pc = "reading"]]
      BY <1>1, <3>2 DEF Free, Types
    <3> QED
      BY <1>4, <3>1, <3>2 DEF Write, FindClosed
  <2> QED
    BY <1>2, <2>1, <2>2 DEF ToGo
<1> QED
  BY <1>3, <1>4 DEF GoesOn

(* Steps of the others.                                                    *)
LEMMA CallStays ==
  ASSUME IInv, [Next]_vars, NEW w \in Workers, Busy(w), ~GoesOn(w)
  PROVE  worker'[w] = worker[w] /\ Method(w)' = Method(w)
<1>1. /\ Types /\ Places /\ Flow
      /\ worker[w].conn \in Conns /\ worker[w].conn # NoConn
      /\ worker[w].pc \in {"calling", "writing"}
  BY ThreadFacts, ConnsAssumption DEF IInv, Busy
<1> SUFFICES worker'[w] = worker[w] /\ history'[worker[w].conn] = history[worker[w].conn]
  BY DEF Method
<1>2. ASSUME NEW c \in Conns, Connect(c) \/ Hear(c)
      PROVE  UNCHANGED <<worker, history>>
  BY <1>2 DEF Connect, Hear
<1>3. ASSUME NEW c \in Conns, Ask(c)
      PROVE  worker' = worker /\ history'[worker[w].conn] = history[worker[w].conn]
  <2>1. worker[w].conn # c
    BY <1>1, <1>3 DEF Flow, InThread, Busy, Ask
  <2> QED
    BY <1>1, <1>3, <2>1 DEF Ask, Types
<1>4. ASSUME NEW c \in Conns, HangUp(c)
      PROVE  worker' = worker /\ history'[worker[w].conn] = history[worker[w].conn]
  <2>1. c \in shut => worker[w].conn # c
    BY <1>1 DEF Places, Served
  <2> QED
    BY <1>1, <1>4, <2>1 DEF HangUp, Over, Types
<1>5. ASSUME NEW v \in Workers, Take(v) \/ Read(v)
      PROVE  worker'[w] = worker[w] /\ history' = history
  <2>1. v # w
    BY <1>1, <1>5 DEF Take, Read
  <2> QED
    BY <1>1, <1>5, <2>1 DEF Take, Read, Types
<1>6. ASSUME NEW v \in Workers, v # w, Attempt(v)
      PROVE  worker'[w] = worker[w] /\ history'[worker[w].conn] = history[worker[w].conn]
  <2>1. PICK c \in Conns : c = worker[v].conn
    BY <1>6, ThreadFacts DEF Attempt, Busy
  <2>2. worker[w].conn # c
    BY <1>1, <1>6, <2>1 DEF Places, Alone
  <2>3. /\ \A u \in Workers \ {v} : worker'[u] = worker[u]
        /\ \A d \in Conns \ {c} : history'[d] = history[d]
    <3>1. PICK outcome \in Handler!Outcome :
            \E change \in Changes(Last(c), outcome) :
              /\ \A u \in Workers \ {v} : worker'[u] = worker[u]
              /\ \A d \in Conns \ {c} : history'[d] = history[d]
      BY <1>6, <2>1, AttemptFacts
    <3> QED
      BY <3>1
  <2> QED
    BY <1>1, <1>6, <2>2, <2>3
<1>7. ASSUME NEW v \in Workers, v # w, Write(v) \/ FindClosed(v)
      PROVE  worker'[w] = worker[w] /\ history'[worker[w].conn] = history[worker[w].conn]
  <2>1. worker[v].pc # "free" /\ worker[v].conn # NoConn /\ worker[v].conn # worker[w].conn
    BY <1>1, <1>7 DEF Places, Alone, Served, Write, FindClosed
  <2>2. worker'[w] = worker[w]
    BY <1>1, <1>7 DEF Write, FindClosed, Leave, Types
  <2>3. history'[worker[w].conn] = history[worker[w].conn]
    BY <1>1, <1>7, <2>1 DEF Write, FindClosed, Leave, Over, Types
  <2> QED
    BY <2>2, <2>3
<1>8. CASE UNCHANGED vars
  BY <1>8 DEF vars
<1> QED
  BY <1>2, <1>3, <1>4, <1>5, <1>6, <1>7, <1>8 DEF Next, GoesOn

(* A thread sends the request of a call four times at most and then        *)
(* answers, whatever the portal and the other threads do.                  *)
THEOREM CallsAdvance == Spec => CallsGetCloser
<1>1. IInv /\ [Next]_vars =>
        [\A w \in Workers : Busy(w) =>
           \/ ToGo(w)' < ToGo(w)
           \/ worker'[w] = worker[w] /\ Method(w)' = Method(w) /\ ~GoesOn(w)]_vars
  BY OwnCloser, CallStays
<1> QED
  BY <1>1, IInvHolds, PTL DEF Spec, CallsGetCloser
=============================================================================
