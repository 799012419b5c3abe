-------------------------- MODULE ServerStart_proofs --------------------------
(***************************************************************************)
(* Proofs about ServerStart.  A generated pair belongs to one request from *)
(* its creation to its deletion, since no other request can create one of  *)
(* the same name meanwhile and a refused request deletes nothing.          *)
(***************************************************************************)
EXTENDS ServerStart, TLAPS

(* The steps at which a request has a pair in OpenStack.                   *)
Deleting == {"del_get", "del"}
Holding  == {"boot"} \cup Deleting

CloudTypes ==
  /\ pair \in [Names -> Keys \cup {NoKey}]
  /\ made \subseteq Generated
  /\ keyName \in [Servers -> Names \cup {NoName}]
  /\ serverKey \in [Servers -> Keys \cup {NoKey}]
  /\ record \in [Servers -> Generated \cup {NoKey}]
  /\ lost \subseteq Names
  /\ left \subseteq Names
  /\ repeats \in [Threads -> 0..MaxRepeats]

LocalTypes ==
  /\ pc \in [Threads -> Steps]
  /\ name \in [Threads -> Names \cup {NoName}]
  /\ key \in [Threads -> Keys \cup {NoKey}]
  /\ srv \in [Threads -> Servers \cup {NoServer}]
  /\ cleanup \in [Threads -> Reasons]
  /\ shared \in [Threads -> BOOLEAN]

(* What each step of a thread knows of its locals.                         *)
Knows(t) ==
  /\ pc[t] = "idle" <=> name[t] = NoName
  /\ pc[t] \in {"import_get", "import_create"} => name[t] \in RandomNames
  /\ pc[t] \in {"generate", "record"} => IsCustom(t)
  /\ name[t] \in RandomNames => key[t] \in PublicKeys
  /\ IsCustom(t) /\ pc[t] \in Holding \cup {"record"} => key[t] \in made
  /\ pc[t] \in Deleting => cleanup[t] # "none"
  /\ cleanup[t] = "replace" =>
       /\ name[t] \in RandomNames /\ srv[t] = NoServer
       /\ pc[t] \in Deleting \cup {"import_create"}
  /\ cleanup[t] = "failed" => pc[t] \in Deleting
  /\ cleanup[t] = "booted" =>
       pc[t] \in Deleting \cup {"record"} /\ srv[t] # NoServer
  /\ pc[t] = "record" => cleanup[t] = "booted"
  /\ srv[t] # NoServer =>
       pc[t] \in Deleting \cup {"record"} /\ keyName[srv[t]] = name[t]

Locals == \A t \in Threads : Knows(t)

(* Every generated pair was made for one request.                          *)
OneMaker ==
  \A t, u \in Threads :
    /\ IsCustom(t) /\ pc[t] \in Holding \cup {"record"}
    /\ IsCustom(u) /\ pc[u] \in Holding \cup {"record"}
    /\ key[t] = key[u]
    => t = u

(* A generated pair stays until its request deletes it.                    *)
Owned ==
  \A t \in Threads :
    IsCustom(t) /\ pc[t] \in Holding /\ name[t] \notin lost =>
      pair[name[t]] = key[t]

(* An imported pair is the request's own, unless the name is shared.       *)
Sharing ==
  \A t, u \in Threads :
    t # u /\ name[t] = name[u] /\ name[t] # NoName => shared[t]

Imported ==
  \A t \in Threads :
    ~IsCustom(t) /\ pc[t] = "boot" => pair[name[t]] = key[t] \/ shared[t]

(* The servers that there are not have no record; the server in hand was   *)
(* made with the pair in hand.                                             *)
Unrecorded == \A s \in Servers : record[s] # NoKey => keyName[s] # NoName

CustomKeyFits ==
  \A t \in Threads :
    srv[t] # NoServer /\ IsCustom(t) =>
      serverKey[srv[t]] = key[t] \/ keyName[srv[t]] \in lost

IInv ==
  /\ TypeOK
  /\ Locals
  /\ OneMaker
  /\ Owned
  /\ Sharing
  /\ Imported
  /\ Unrecorded
  /\ CustomKeyFits
  /\ RecordedKeyOpens
  /\ OwnKeyUnlessShared
  /\ PairsAreTemporary
-----------------------------------------------------------------------------
(* What a step does to the locals of the thread that takes it and to those *)
(* of the others.                                                          *)
Same(u) ==
  /\ pc'[u] = pc[u] /\ name'[u] = name[u] /\ key'[u] = key[u]
  /\ srv'[u] = srv[u] /\ cleanup'[u] = cleanup[u]
OthersSame(t) == \A u \in Threads \ {t} : Same(u) /\ shared'[u] = shared[u]

Ends(t) ==
  /\ pc'[t] = "idle" /\ name'[t] = NoName /\ key'[t] = NoKey
  /\ srv'[t] = NoServer /\ cleanup'[t] = "none" /\ shared'[t] = FALSE
Cleans(t, why) ==
  /\ pc'[t] = "del_get" /\ cleanup'[t] = why
  /\ name'[t] = name[t] /\ key'[t] = key[t] /\ srv'[t] = srv[t]
  /\ shared'[t] = shared[t]

LEMMA Returned ==
  ASSUME TypeOK, NEW t \in Threads, Return(t)
  PROVE  LocalTypes' /\ Ends(t) /\ OthersSame(t)
BY DEF TypeOK, LocalTypes, Return, Goto, Ends, OthersSame, Same, Steps, Reasons

LEMMA Cleaning ==
  ASSUME TypeOK, NEW t \in Threads, NEW why \in Reasons, Delete(t, why)
  PROVE  LocalTypes' /\ Cleans(t, why) /\ OthersSame(t)
BY DEF TypeOK, LocalTypes, Delete, Goto, Cleans, OthersSame, Same, Steps

LEMMA Failing ==
  ASSUME TypeOK, NEW t \in Threads, Fail(t)
  PROVE  LocalTypes' /\ Cleans(t, "failed") /\ OthersSame(t)
BY Cleaning DEF Fail, Reasons

LEMMA Abandoned ==
  ASSUME TypeOK, NEW t \in Threads, Abandon(t)
  PROVE  /\ LocalTypes' /\ Ends(t) /\ OthersSame(t)
         /\ left' = left \cup {name[t]}
BY Returned DEF Abandon

(* A step that only goes on.                                               *)
Goes(t, s) ==
  /\ Goto(t, s)
  /\ UNCHANGED <<name, key, srv, cleanup, shared>>

LEMMA Going ==
  ASSUME TypeOK, NEW t \in Threads, NEW s \in Steps, Goes(t, s)
  PROVE  /\ LocalTypes' /\ OthersSame(t) /\ pc'[t] = s
         /\ UNCHANGED <<name, key, srv, cleanup, shared>>
BY DEF TypeOK, LocalTypes, Goes, Goto, OthersSame, Same

(* The ways in which delete_keypair ends.                                  *)
LEMMA Deletions ==
  ASSUME TypeOK, NEW t \in Threads
  PROVE  /\ Deleted(t) =>
              \/ cleanup[t] = "replace" /\ Goes(t, "import_create")
              \/ cleanup[t] = "booted" /\ IsCustom(t) /\ Goes(t, "record")
              \/ cleanup[t] \in {"booted", "failed"} /\ Return(t)
         /\ DeleteRaises(t) =>
              \/ Fail(t) /\ UNCHANGED left
              \/ Abandon(t)
BY DEF Deleted, DeleteRaises, Goes

-----------------------------------------------------------------------------
(* At the start OpenStack has nothing of ours and every thread is idle.    *)
LEMMA InitInv == Init => IInv
<1> SUFFICES ASSUME Init PROVE IInv
  OBVIOUS
<1> USE StartAssumption DEF Init
<1>1. TypeOK
  BY DEF TypeOK, Steps, Reasons, Names, Keys
<1>2. Locals /\ OneMaker /\ Owned /\ Sharing /\ Imported
  BY DEF Locals, Knows, OneMaker, Owned, Sharing, Imported, IsCustom, Holding,
         Deleting, Names
<1>3. Unrecorded /\ CustomKeyFits /\ RecordedKeyOpens /\ OwnKeyUnlessShared
      /\ PairsAreTemporary
  BY DEF Unrecorded, CustomKeyFits, RecordedKeyOpens, OwnKeyUnlessShared,
         PairsAreTemporary
<1> QED
  BY <1>1, <1>2, <1>3 DEF IInv

(* The types of the locals, and: nothing happens to those of other threads *)
(* but a crash or a request that comes to share their name.                *)
LEMMA LocalTypesStep ==
  ASSUME TypeOK, NEW t \in Threads, Step(t)
  PROVE  LocalTypes' /\ OthersSame(t)
<1> USE DEF Steps
<1>1. CASE Prepare(t)
  <2>1. \/ \E s \in {"generate", "import_get"} : Goes(t, s)
        \/ Fail(t) \/ Return(t)
    BY <1>1 DEF Prepare, Goes
  <2> QED BY <2>1, Going, Failing, Returned
<1>2. CASE ImportGet(t)
  <2>1. \/ \E s \in {"import_create", "boot"} : Goes(t, s)
        \/ Delete(t, "replace") \/ Fail(t) \/ Return(t)
    BY <1>2 DEF ImportGet, Goes
  <2> QED BY <2>1, Going, Cleaning, Failing, Returned DEF Reasons
<1>3. CASE ImportCreate(t)
  <2>1. CASE Fail(t) \/ Return(t) \/ Abandon(t)
    BY <2>1, Failing, Returned, Abandoned
  <2>2. CASE ~(Fail(t) \/ Return(t) \/ Abandon(t))
    BY <1>3, <2>2 DEF ImportCreate, Goto, TypeOK, LocalTypes, OthersSame, Same,
                      Reasons
  <2> QED BY <2>1, <2>2
<1>4. CASE Generate(t)
  <2>1. CASE Return(t) \/ Abandon(t)
    BY <2>1, Returned, Abandoned
  <2>2. CASE ~(Return(t) \/ Abandon(t))
    BY <1>4, <2>2 DEF Generate, Goto, TypeOK, LocalTypes, OthersSame, Same, Keys
  <2> QED BY <2>1, <2>2
<1>5. CASE Boot(t)
  <2>1. CASE Fail(t) \/ Abandon(t)
    BY <2>1, Failing, Abandoned
  <2>2. CASE ~(Fail(t) \/ Abandon(t))
    BY <1>5, <2>2 DEF Boot, Goto, TypeOK, LocalTypes, OthersSame, Same,
                      Unborn, Reasons
  <2> QED BY <2>1, <2>2
<1>6. CASE DeleteGet(t)
  <2>1. \/ \E s \in {"import_create", "record", "del"} : Goes(t, s)
        \/ Fail(t) \/ Return(t) \/ Abandon(t)
    BY <1>6, Deletions DEF DeleteGet, Goes
  <2> QED BY <2>1, Going, Failing, Returned, Abandoned
<1>7. CASE DeleteKeypair(t)
  <2>1. \/ \E s \in {"import_create", "record"} : Goes(t, s)
        \/ Fail(t) \/ Return(t) \/ Abandon(t)
    BY <1>7, Deletions DEF DeleteKeypair
  <2> QED BY <2>1, Going, Failing, Returned, Abandoned
<1>8. CASE RecordKey(t)
  BY <1>8, Returned DEF RecordKey
<1>9. CASE DeleteAgain(t)
  BY <1>9 DEF DeleteAgain, TypeOK, LocalTypes, OthersSame, Same
<1> QED BY <1>1, <1>2, <1>3, <1>4, <1>5, <1>6, <1>7, <1>8, <1>9 DEF Step

(* A request begins.                                                       *)
LEMMA Beginning ==
  ASSUME TypeOK, NEW t \in Threads, NEW n \in Names,
         NEW k \in PublicKeys \cup {NoKey}, Begin(t, n, k)
  PROVE  /\ LocalTypes'
         /\ pc[t] = "idle" /\ pc'[t] = "prepare" /\ name'[t] = n /\ key'[t] = k
         /\ srv'[t] = srv[t] /\ cleanup'[t] = cleanup[t]
         /\ \A u \in Threads \ {t} :
              Same(u) /\ (shared[u] \/ name[u] = n => shared'[u])
         /\ (\E u \in Threads \ {t} : name[u] = n) => shared'[t]
         /\ UNCHANGED <<cloud, record, history, repeats>>
BY DEF Begin, Goto, TypeOK, LocalTypes, Same, Alone, Steps, Keys

(* After a crash all threads are idle and OpenStack is as it was.          *)
LEMMA Restarting ==
  ASSUME TypeOK, Restart
  PROVE  /\ LocalTypes'
         /\ repeats' \in [Threads -> 0..MaxRepeats]
         /\ \A t \in Threads : Ends(t)
         /\ UNCHANGED <<cloud, record, lost>>
         /\ left \subseteq left'
         /\ \A t \in Threads : pc[t] # "idle" => name[t] \in left'
BY StartAssumption DEF Restart, TypeOK, LocalTypes, Ends, Steps, Reasons

(* What the steps do to OpenStack and Redis is well typed.                 *)
LEMMA CloudTypesStep ==
  ASSUME TypeOK, Locals, NEW t \in Threads, Step(t)
  PROVE  CloudTypes'
<1> USE DEF TypeOK, CloudTypes
<1>1. name[t] \in Names /\ pc[t] # "idle"
  BY DEF Locals, Knows, Step, Prepare, ImportGet, ImportCreate, Generate, Boot,
         DeleteGet, DeleteKeypair, DeleteAgain, RecordKey
<1>2. CASE Prepare(t) \/ ImportGet(t)
  BY <1>2 DEF Prepare, ImportGet, cloud, history
<1>3. CASE ImportCreate(t)
  <2>1. left' = left \/ left' = left \cup {name[t]}
    BY <1>3 DEF ImportCreate, Abandon
  <2>2. key[t] \in Keys
    BY <1>3 DEF ImportCreate, Locals, Knows, Keys
  <2> QED BY <1>1, <1>3, <2>1, <2>2 DEF ImportCreate
<1>4. CASE Generate(t)
  <2>1. left' = left \/ left' = left \cup {name[t]}
    BY <1>4 DEF Generate, Abandon
  <2> QED BY <1>1, <1>4, <2>1 DEF Generate, Keys
<1>5. CASE Boot(t)
  <2>1. left' = left \/ left' = left \cup {name[t]}
    BY <1>5 DEF Boot, Abandon
  <2> QED BY <1>1, <1>5, <2>1 DEF Boot, Unborn
<1>6. CASE DeleteGet(t)
  <2>1. left' = left \/ left' = left \cup {name[t]}
    BY <1>6 DEF DeleteGet, DeleteRaises, Abandon
  <2> QED BY <1>1, <1>6, <2>1 DEF DeleteGet, cloud
<1>7. CASE DeleteKeypair(t)
  <2>1. left' = left \/ left' = left \cup {name[t]}
    BY <1>7 DEF DeleteKeypair, DeleteRaises, Abandon
  <2>2. repeats' \in [Threads -> 0..MaxRepeats]
    BY <1>7, StartAssumption DEF DeleteKeypair
  <2> QED BY <1>1, <1>7, <2>1, <2>2 DEF DeleteKeypair
<1>8. CASE RecordKey(t)
  <2>1. key[t] \in Generated
    BY <1>8 DEF RecordKey, Locals, Knows
  <2> QED BY <1>8, <2>1 DEF RecordKey, cloud, history
<1>9. CASE DeleteAgain(t)
  <2>1. repeats' \in [Threads -> 0..MaxRepeats]
    BY <1>9, StartAssumption DEF DeleteAgain
  <2> QED BY <1>1, <1>9, <2>1 DEF DeleteAgain
<1> QED BY <1>2, <1>3, <1>4, <1>5, <1>6, <1>7, <1>8, <1>9 DEF Step

LEMMA TypeStep ==
  ASSUME TypeOK, Locals, [Next]_vars
  PROVE  TypeOK'
<1> USE DEF TypeOK, CloudTypes, LocalTypes
<1>1. CASE UNCHANGED vars
  BY <1>1 DEF vars, cloud, history, locals
<1>2. CASE Restart
  <2>1. CloudTypes'
    BY <1>2, StartAssumption DEF Restart, cloud, Locals, Knows
  <2> QED BY <1>2, <2>1, Restarting
<1>3. ASSUME NEW t \in Threads, StartServer(t) \/ StartServerWithCustomKey(t)
      PROVE  TypeOK'
  <2>1. PICK n \in Names, k \in PublicKeys \cup {NoKey} : Begin(t, n, k)
    BY <1>3 DEF StartServer, StartServerWithCustomKey, Names
  <2> QED BY <2>1, Beginning DEF cloud, history
<1>4. ASSUME NEW t \in Threads, Step(t)
      PROVE  TypeOK'
  BY <1>4, CloudTypesStep, LocalTypesStep
<1> QED BY <1>1, <1>2, <1>3, <1>4 DEF Next

-----------------------------------------------------------------------------
(* What no step takes back: servers keep their names and keys, and only    *)
(* requests of a name touch its pair.                                      *)
LEMMA Kept ==
  ASSUME TypeOK, NEW t \in Threads, Step(t)
  PROVE  /\ made \subseteq made' /\ lost \subseteq lost' /\ left \subseteq left'
         /\ \A s \in Servers : keyName[s] # NoName =>
              keyName'[s] = keyName[s] /\ serverKey'[s] = serverKey[s]
         /\ \A n \in Names : n # name[t] => pair'[n] = pair[n]
<1> USE DEF TypeOK
<1>1. CASE Prepare(t) \/ ImportGet(t) \/ RecordKey(t)
  BY <1>1 DEF Prepare, ImportGet, RecordKey, cloud, history
<1>2. CASE ImportCreate(t)
  BY <1>2 DEF ImportCreate, Abandon
<1>3. CASE Generate(t)
  BY <1>3 DEF Generate, Abandon
<1>4. CASE Boot(t)
  BY <1>4 DEF Boot, Unborn, Abandon
<1>5. CASE DeleteGet(t)
  BY <1>5 DEF DeleteGet, DeleteRaises, Abandon, cloud
<1>6. CASE DeleteKeypair(t)
  BY <1>6 DEF DeleteKeypair, DeleteRaises, Abandon
<1>7. CASE DeleteAgain(t)
  BY <1>7 DEF DeleteAgain
<1> QED BY <1>1, <1>2, <1>3, <1>4, <1>5, <1>6, <1>7 DEF Step

(* A thread's own step keeps what it knows of its locals.                  *)
LEMMA EndsKnows ==
  ASSUME NEW t \in Threads, Ends(t)
  PROVE  Knows(t)'
BY StartAssumption DEF Ends, Knows, IsCustom, Names, Holding, Deleting

LEMMA FailsKnows ==
  ASSUME TypeOK, NEW t \in Threads, Knows(t), Step(t), pc[t] # "generate",
         Cleans(t, "failed"), ~(pc[t] = "prepare" /\ IsCustom(t))
  PROVE  Knows(t)'
BY Kept, StartAssumption DEF TypeOK, Cleans, Knows, IsCustom, Names, Holding,
   Deleting, Step, Prepare, ImportGet, ImportCreate, Generate, Boot, DeleteGet,
   DeleteKeypair, DeleteAgain, RecordKey

LEMMA KnowsStep ==
  ASSUME TypeOK, NEW t \in Threads, Knows(t), Step(t)
  PROVE  Knows(t)'
<1> USE StartAssumption DEF TypeOK, Names
<1>1. CASE Ends(t)
  BY <1>1, EndsKnows
<1>2. CASE Prepare(t)
  <2>1. CASE Goes(t, IF IsCustom(t) THEN "generate" ELSE "import_get")
    BY <1>2, <2>1 DEF Prepare, Goes, Goto, Knows, IsCustom, Holding, Deleting
  <2>2. CASE ~IsCustom(t) /\ Fail(t)
    BY <1>2, <2>2, Failing, FailsKnows DEF Prepare
  <2> QED BY <1>1, <1>2, <2>1, <2>2, Returned DEF Prepare, Goes
<1>3. CASE ImportGet(t)
  <2>1. CASE \E s \in {"import_create", "boot"} : Goes(t, s)
    BY <1>3, <2>1 DEF ImportGet, Goes, Goto, Knows, IsCustom, Holding, Deleting
  <2>2. CASE Delete(t, "replace")
    BY <1>3, <2>2, Cleaning
       DEF ImportGet, Cleans, Knows, IsCustom, Holding, Deleting, Reasons
  <2>3. CASE Fail(t)
    BY <1>3, <2>3, Failing, FailsKnows DEF ImportGet
  <2> QED BY <1>1, <1>3, <2>1, <2>2, <2>3, Returned DEF ImportGet, Goes
<1>4. CASE ImportCreate(t)
  <2>1. CASE Fail(t)
    BY <1>4, <2>1, Failing, FailsKnows DEF ImportCreate
  <2>2. CASE Return(t) \/ Abandon(t)
    BY <1>1, <2>2, Returned, Abandoned
  <2>3. CASE ~(Fail(t) \/ Return(t) \/ Abandon(t))
    BY <1>4, <2>3 DEF ImportCreate, Goto, Knows, IsCustom, Holding, Deleting
  <2> QED BY <2>1, <2>2, <2>3
<1>5. CASE Generate(t)
  <2>1. CASE Return(t) \/ Abandon(t)
    BY <1>1, <2>1, Returned, Abandoned
  <2>2. CASE ~(Return(t) \/ Abandon(t))
    BY <1>5, <2>2 DEF Generate, Goto, Knows, IsCustom, Holding, Deleting
  <2> QED BY <2>1, <2>2
<1>6. CASE Boot(t)
  <2>1. CASE Fail(t)
    BY <1>6, <2>1, Failing, FailsKnows DEF Boot
  <2>2. CASE Abandon(t)
    BY <1>1, <2>2, Abandoned
  <2>3. CASE ~(Fail(t) \/ Abandon(t))
    BY <1>6, <2>3 DEF Boot, Unborn, Goto, Knows, IsCustom, Holding, Deleting
  <2> QED BY <2>1, <2>2, <2>3
<1>7. CASE DeleteGet(t) \/ DeleteKeypair(t)
  <2>1. CASE Fail(t)
    BY <1>7, <2>1, Failing, FailsKnows DEF DeleteGet, DeleteKeypair
  <2>2. CASE Return(t) \/ Abandon(t)
    BY <1>1, <2>2, Returned, Abandoned
  <2>3. CASE /\ pc[t] \in Deleting
             /\ UNCHANGED <<made, keyName>>
             /\ \/ Goes(t, "del")
                \/ cleanup[t] = "replace" /\ Goes(t, "import_create")
                \/ cleanup[t] = "booted" /\ IsCustom(t) /\ Goes(t, "record")
    <3>1. CASE Goes(t, "del")
      BY <2>3, <3>1 DEF Goes, Goto, Knows, IsCustom, Holding, Deleting
    <3>2. CASE cleanup[t] = "replace" /\ Goes(t, "import_create")
      BY <2>3, <3>2 DEF Goes, Goto, Knows, IsCustom, Holding, Deleting
    <3>3. CASE cleanup[t] = "booted" /\ IsCustom(t) /\ Goes(t, "record")
      BY <2>3, <3>3 DEF Goes, Goto, Knows, IsCustom, Holding, Deleting
    <3> QED BY <2>3, <3>1, <3>2, <3>3
  <2> QED BY <1>7, <2>1, <2>2, <2>3, Deletions
          DEF DeleteGet, DeleteKeypair, Goes, Deleting, cloud
<1>8. CASE RecordKey(t)
  BY <1>1, <1>8, Returned DEF RecordKey
<1>9. CASE DeleteAgain(t)
  BY <1>9 DEF DeleteAgain, Knows, IsCustom
<1> QED BY <1>2, <1>3, <1>4, <1>5, <1>6, <1>7, <1>8, <1>9 DEF Step

LEMMA LocalsStep ==
  ASSUME TypeOK, Locals, [Next]_vars
  PROVE  Locals'
<1> SUFFICES ASSUME NEW u \in Threads PROVE Knows(u)'
  BY DEF Locals
<1>1. Knows(u)
  BY DEF Locals
<1>2. CASE UNCHANGED vars
  BY <1>1, <1>2 DEF vars, cloud, locals, Knows, IsCustom
<1>3. CASE Restart
  BY <1>3, Restarting, EndsKnows
<1>4. ASSUME NEW t \in Threads, StartServer(t) \/ StartServerWithCustomKey(t)
      PROVE  Knows(u)'
  <2>1. PICK n \in Names, k \in PublicKeys \cup {NoKey} :
           Begin(t, n, k) /\ (n \in RandomNames => k \in PublicKeys)
    BY <1>4, StartAssumption DEF StartServer, StartServerWithCustomKey, Names
  <2>2. CASE u = t
    BY <1>1, <2>1, <2>2, Beginning, StartAssumption
       DEF cloud, Names, Knows, IsCustom, Holding, Deleting
  <2>3. CASE u # t
    BY <1>1, <2>1, <2>3, Beginning DEF cloud, Same, Knows, IsCustom
  <2> QED BY <2>2, <2>3
<1>5. ASSUME NEW t \in Threads, Step(t)
      PROVE  Knows(u)'
  <2>1. CASE u = t
    BY <1>1, <1>5, <2>1, KnowsStep
  <2>2. CASE u # t
    BY <1>1, <1>5, <2>2, Kept, LocalTypesStep, StartAssumption
       DEF OthersSame, Same, TypeOK, Knows, IsCustom, Holding, Deleting
  <2> QED BY <2>1, <2>2
<1> QED BY <1>2, <1>3, <1>4, <1>5 DEF Next

-----------------------------------------------------------------------------
(* A request keeps its name until it ends.                                 *)
LEMMA NameKept ==
  ASSUME TypeOK, NEW t \in Threads, Step(t)
  PROVE  Ends(t) \/ (name'[t] = name[t] /\ shared'[t] = shared[t])
<1>1. CASE Return(t) \/ Abandon(t)
  BY <1>1, Returned, Abandoned
<1>2. CASE Fail(t) \/ Delete(t, "replace")
  BY <1>2, Failing, Cleaning DEF Cleans, Reasons
<1>3. CASE ~(Return(t) \/ Abandon(t) \/ Fail(t) \/ Delete(t, "replace"))
  BY <1>3 DEF Step, Prepare, ImportGet, ImportCreate, Generate, Boot,
     DeleteGet, DeleteKeypair, DeleteAgain, RecordKey, Deleted, DeleteRaises
<1> QED BY <1>1, <1>2, <1>3

(* What a request with a generated pair does to it: it makes one, or goes  *)
(* on with that it has, which stays unless its deletion raised.            *)
MakesPair(t) ==
  /\ pc'[t] = "boot" /\ srv'[t] = srv[t]
  /\ key'[t] \in Generated \ made /\ made' = made \cup {key'[t]}
  /\ pair'[name[t]] = key'[t]
KeepsPair(t) ==
  /\ pc[t] \in Holding /\ key'[t] = key[t]
  /\ pc'[t] \in Holding => pair'[name[t]] = pair[name[t]] \/ name[t] \in lost'

LEMMA CustomStep ==
  ASSUME TypeOK, Locals, NEW t \in Threads, Step(t), IsCustom(t), ~Ends(t),
         pc'[t] \in Holding \cup {"record"}
  PROVE  MakesPair(t) \/ KeepsPair(t)
<1> USE StartAssumption DEF TypeOK, Holding, Deleting, IsCustom, Names
<1>1. Knows(t) /\ name[t] \in Names /\ ~Return(t) /\ ~Abandon(t)
  BY Returned, Abandoned DEF Locals
<1>2. CASE Prepare(t)
  BY <1>1, <1>2 DEF Prepare, Goto
<1>3. CASE ImportGet(t) \/ ImportCreate(t)
  BY <1>1, <1>3 DEF ImportGet, ImportCreate, Knows
<1>4. CASE Generate(t)
  BY <1>1, <1>4 DEF Generate, Goto, MakesPair
<1>5. CASE Boot(t)
  <2>1. CASE Fail(t)
    BY <1>5, <2>1, Failing DEF Boot, Cleans, KeepsPair
  <2>2. CASE ~Fail(t)
    BY <1>1, <1>5, <2>2 DEF Boot, KeepsPair
  <2> QED BY <2>1, <2>2
<1>6. CASE DeleteGet(t)
  <2>1. key'[t] = key[t]
    BY <1>1, <1>6, Deletions, Failing DEF DeleteGet, Goes, Cleans
  <2> QED BY <1>6, <2>1 DEF DeleteGet, cloud, KeepsPair
<1>7. CASE DeleteKeypair(t)
  <2>1. key'[t] = key[t]
    BY <1>1, <1>7, Deletions, Failing DEF DeleteKeypair, Goes, Cleans
  <2>2. CASE UNCHANGED pair \/ lost' = lost \cup {name[t]}
    BY <1>7, <2>1, <2>2 DEF DeleteKeypair, KeepsPair
  <2>3. CASE Deleted(t)
    <3>1. pc'[t] \notin Holding
      BY <1>1, <1>7, <2>3, Deletions DEF Goes, Goto, Knows, DeleteKeypair
    <3> QED BY <1>7, <2>1, <3>1 DEF DeleteKeypair, KeepsPair
  <2> QED BY <1>7, <2>2, <2>3 DEF DeleteKeypair
<1>8. CASE RecordKey(t)
  BY <1>1, <1>8 DEF RecordKey
<1>9. CASE DeleteAgain(t)
  BY <1>9 DEF DeleteAgain, KeepsPair
<1> QED BY <1>2, <1>3, <1>4, <1>5, <1>6, <1>7, <1>8, <1>9 DEF Step

(* A pair appears only where there is none, and disappears only when it is *)
(* deleted.                                                                *)
LEMMA PairStep ==
  ASSUME TypeOK, Locals, NEW t \in Threads, Step(t)
  PROVE  \/ pair' = pair
         \/ pair[name[t]] = NoKey
         \/ pc[t] = "del"
BY DEF Step, Prepare, ImportGet, ImportCreate, Generate, Boot, DeleteGet,
   DeleteKeypair, DeleteAgain, RecordKey, cloud

LEMMA OneMakerStep ==
  ASSUME TypeOK, Locals, OneMaker, [Next]_vars
  PROVE  OneMaker'
<1> USE DEF TypeOK, OneMaker
<1>1. CASE UNCHANGED vars
  BY <1>1 DEF vars, locals, IsCustom
<1>2. CASE Restart
  BY <1>2, Restarting DEF Ends, Holding, Deleting
<1>3. ASSUME NEW t \in Threads, StartServer(t) \/ StartServerWithCustomKey(t)
      PROVE  OneMaker'
  <2>1. PICK n \in Names, k \in PublicKeys \cup {NoKey} : Begin(t, n, k)
    BY <1>3 DEF StartServer, StartServerWithCustomKey, Names
  <2> QED BY <2>1, Beginning DEF Same, IsCustom, Holding, Deleting
<1>4. ASSUME NEW t \in Threads, Step(t)
      PROVE  OneMaker'
  <2>1. \A u \in Threads \ {t} : Same(u)
    BY <1>4, LocalTypesStep DEF OthersSame
  <2>2. \A u \in Threads :
          IsCustom(u) /\ pc[u] \in Holding \cup {"record"} => key[u] \in made
    BY DEF Locals, Knows
  <2>3. CASE IsCustom(t)' /\ (pc[t] \in Holding \cup {"record"})'
    <3>1. IsCustom(t) /\ (MakesPair(t) \/ KeepsPair(t))
      BY <1>4, <2>3, NameKept, CustomStep, StartAssumption
         DEF Ends, IsCustom, Names, Holding, Deleting
    <3> QED BY <2>1, <2>2, <3>1 DEF Same, IsCustom, MakesPair, KeepsPair
  <2>4. CASE ~(IsCustom(t)' /\ (pc[t] \in Holding \cup {"record"})')
    BY <2>1, <2>4 DEF Same, IsCustom
  <2> QED BY <2>3, <2>4
<1> QED BY <1>1, <1>2, <1>3, <1>4 DEF Next

LEMMA OwnedStep ==
  ASSUME TypeOK, Locals, OneMaker, Owned, [Next]_vars
  PROVE  Owned'
<1> USE DEF TypeOK
<1> SUFFICES ASSUME NEW u \in Threads, IsCustom(u)', (pc[u] \in Holding)',
                    (name[u] \notin lost)'
             PROVE  (pair[name[u]] = key[u])'
  BY DEF Owned
<1>1. CASE UNCHANGED vars
  BY <1>1 DEF vars, cloud, history, locals, IsCustom, Owned
<1>2. CASE Restart
  BY <1>2, Restarting DEF Ends, Holding, Deleting
<1>3. ASSUME NEW t \in Threads, StartServer(t) \/ StartServerWithCustomKey(t)
      PROVE  (pair[name[u]] = key[u])'
  <2>1. PICK n \in Names, k \in PublicKeys \cup {NoKey} : Begin(t, n, k)
    BY <1>3 DEF StartServer, StartServerWithCustomKey, Names
  <2> QED BY <2>1, Beginning
          DEF Same, IsCustom, Holding, Deleting, cloud, history, Owned
<1>4. ASSUME NEW t \in Threads, Step(t)
      PROVE  (pair[name[u]] = key[u])'
  <2>1. lost \subseteq lost'
    BY <1>4, Kept
  <2>2. CASE u = t
    <3>1. name'[t] = name[t] /\ IsCustom(t) /\ (MakesPair(t) \/ KeepsPair(t))
      BY <1>4, <2>2, NameKept, CustomStep, StartAssumption
         DEF Ends, IsCustom, Names, Holding, Deleting
    <3> QED BY <2>1, <2>2, <3>1 DEF MakesPair, KeepsPair, Owned
  <2>3. CASE u # t
    <3>1. Same(u) /\ IsCustom(u)
      BY <1>4, <2>3, LocalTypesStep DEF OthersSame, Same, IsCustom
    <3>2. pair[name[u]] = key[u] /\ key[u] \in Generated
      BY <2>1, <3>1 DEF Same, Owned, Locals, Knows
    <3>3. CASE name[t] # name[u]
      BY <1>4, <3>1, <3>2, <3>3, Kept DEF Same, IsCustom, Names
    <3>4. CASE name[t] = name[u] /\ pc[t] = "del"
      <4>1. pair[name[t]] = key[t]
        BY <2>1, <3>1, <3>4 DEF Owned, IsCustom, Holding, Deleting, Same
      <4> QED BY <2>3, <3>1, <3>2, <3>4, <4>1
              DEF OneMaker, IsCustom, Holding, Deleting, Same
    <3>5. CASE name[t] = name[u] /\ pc[t] # "del"
      BY <1>4, <3>1, <3>2, <3>5, PairStep, StartAssumption DEF Same
    <3> QED BY <3>3, <3>4, <3>5
  <2> QED BY <2>2, <2>3
<1> QED BY <1>1, <1>2, <1>3, <1>4 DEF Next

-----------------------------------------------------------------------------
LEMMA SharingStep ==
  ASSUME TypeOK, Sharing, [Next]_vars
  PROVE  Sharing'
<1> USE DEF TypeOK, Sharing
<1>1. CASE UNCHANGED vars
  BY <1>1 DEF vars, locals
<1>2. CASE Restart
  BY <1>2, Restarting DEF Ends
<1>3. ASSUME NEW t \in Threads, StartServer(t) \/ StartServerWithCustomKey(t)
      PROVE  Sharing'
  <2>1. PICK n \in Names, k \in PublicKeys \cup {NoKey} : Begin(t, n, k)
    BY <1>3 DEF StartServer, StartServerWithCustomKey, Names
  <2> QED BY <2>1, Beginning DEF Same
<1>4. ASSUME NEW t \in Threads, Step(t)
      PROVE  Sharing'
  <2>1. \A u \in Threads \ {t} : name'[u] = name[u] /\ shared'[u] = shared[u]
    BY <1>4, LocalTypesStep DEF OthersSame, Same
  <2>2. name'[t] = NoName \/ (name'[t] = name[t] /\ shared'[t] = shared[t])
    BY <1>4, NameKept DEF Ends
  <2> QED BY <2>1, <2>2
<1> QED BY <1>1, <1>2, <1>3, <1>4 DEF Next

(* start_server creates the server after it has found or made its own pair.*)
LEMMA ImportStep ==
  ASSUME TypeOK, Locals, NEW t \in Threads, Step(t), ~IsCustom(t)', ~Ends(t),
         pc'[t] = "boot"
  PROVE  pair'[name[t]] = key'[t]
<1> USE DEF TypeOK
<1>1. ~Return(t) /\ ~Abandon(t) /\ ~Fail(t) /\ ~Delete(t, "replace")
  BY Returned, Abandoned, Failing, Cleaning DEF Cleans, Reasons
<1>2. Knows(t) /\ ~IsCustom(t)
  BY NameKept DEF Locals, IsCustom
<1>3. CASE Prepare(t) \/ Boot(t) \/ RecordKey(t) \/ Generate(t)
  BY <1>1, <1>2, <1>3 DEF Prepare, Boot, RecordKey, Generate, Goto, Knows
<1>4. CASE ImportGet(t) \/ ImportCreate(t)
  BY <1>1, <1>2, <1>4 DEF ImportGet, ImportCreate, Goto, Knows, cloud, Names
<1>5. CASE DeleteGet(t) \/ DeleteKeypair(t)
  BY <1>1, <1>5, Deletions DEF DeleteGet, DeleteKeypair, Goes, Goto
<1>6. CASE DeleteAgain(t)
  BY <1>6 DEF DeleteAgain
<1> QED BY <1>3, <1>4, <1>5, <1>6 DEF Step

LEMMA ImportedStep ==
  ASSUME TypeOK, Locals, Sharing, Imported, [Next]_vars
  PROVE  Imported'
<1> USE DEF TypeOK
<1> SUFFICES ASSUME NEW u \in Threads, ~IsCustom(u)', (pc[u] = "boot")'
             PROVE  (pair[name[u]] = key[u] \/ shared[u])'
  BY DEF Imported
<1>1. CASE UNCHANGED vars
  BY <1>1 DEF vars, cloud, locals, IsCustom, Imported
<1>2. CASE Restart
  BY <1>2, Restarting DEF Ends
<1>3. ASSUME NEW t \in Threads, StartServer(t) \/ StartServerWithCustomKey(t)
      PROVE  (pair[name[u]] = key[u] \/ shared[u])'
  <2>1. PICK n \in Names, k \in PublicKeys \cup {NoKey} : Begin(t, n, k)
    BY <1>3 DEF StartServer, StartServerWithCustomKey, Names
  <2> QED BY <2>1, Beginning DEF Same, IsCustom, cloud, Imported
<1>4. ASSUME NEW t \in Threads, Step(t)
      PROVE  (pair[name[u]] = key[u] \/ shared[u])'
  <2>1. CASE u = t
    BY <1>4, <2>1, NameKept, ImportStep DEF Ends
  <2>2. CASE u # t
    <3>1. Same(u) /\ shared'[u] = shared[u] /\ ~IsCustom(u) /\ name[u] # NoName
      BY <1>4, <2>2, LocalTypesStep
         DEF OthersSame, Same, IsCustom, Locals, Knows
    <3>2. CASE name[t] # name[u]
      BY <1>4, <3>1, <3>2, Kept DEF Same, Imported
    <3>3. CASE name[t] = name[u]
      BY <2>2, <3>1, <3>3 DEF Sharing
    <3> QED BY <3>2, <3>3
  <2> QED BY <2>1, <2>2
<1> QED BY <1>1, <1>2, <1>3, <1>4 DEF Next

-----------------------------------------------------------------------------
(* The server in hand is the one that the request has just created.        *)
LEMMA ServerStep ==
  ASSUME TypeOK, Locals, NEW t \in Threads, Step(t), srv'[t] # NoServer
  PROVE  /\ name'[t] = name[t] /\ shared'[t] = shared[t] /\ key'[t] = key[t]
         /\ \/ srv'[t] = srv[t]
            \/ /\ pc[t] = "boot"
               /\ serverKey'[srv'[t]] = pair[name[t]]
               /\ keyName'[srv'[t]] = name[t]
<1> USE DEF TypeOK
<1>1. ~Ends(t) /\ ~Return(t) /\ ~Abandon(t)
  BY Returned, Abandoned DEF Ends
<1>2. name'[t] = name[t] /\ shared'[t] = shared[t]
  BY <1>1, NameKept
<1>3. Knows(t)
  BY DEF Locals
<1>4. CASE Fail(t) \/ Delete(t, "replace")
  BY <1>2, <1>4, Failing, Cleaning DEF Cleans, Reasons
<1>5. CASE Boot(t) /\ ~Fail(t)
  BY <1>1, <1>2, <1>5 DEF Boot, Unborn
<1>6. CASE ~(Fail(t) \/ Delete(t, "replace")) /\ ~Boot(t)
  BY <1>1, <1>2, <1>3, <1>6, Deletions
     DEF Step, Prepare, ImportGet, ImportCreate, Generate, DeleteGet,
         DeleteKeypair, DeleteAgain, RecordKey, Goes, Knows, Holding, Deleting
<1> QED BY <1>4, <1>5, <1>6

(* What IInv says about servers.                                           *)
Served(u) ==
  srv[u] # NoServer =>
    IF IsCustom(u)
    THEN serverKey[srv[u]] = key[u] \/ keyName[srv[u]] \in lost
    ELSE serverKey[srv[u]] = key[u] \/ shared[u]

LEMMA ServedStep ==
  ASSUME TypeOK, Locals, Owned, Imported, CustomKeyFits, OwnKeyUnlessShared,
         [Next]_vars
  PROVE  (CustomKeyFits /\ OwnKeyUnlessShared)'
<1> USE DEF TypeOK
<1> SUFFICES ASSUME NEW u \in Threads PROVE Served(u)'
  BY DEF CustomKeyFits, OwnKeyUnlessShared, Served
<1>1. Served(u) /\ Knows(u)
  BY DEF CustomKeyFits, OwnKeyUnlessShared, Served, Locals
<1>2. CASE UNCHANGED vars
  BY <1>1, <1>2 DEF vars, cloud, history, locals, IsCustom, Served
<1>3. CASE Restart
  BY <1>3, Restarting DEF Ends, Served
<1>4. ASSUME NEW t \in Threads, StartServer(t) \/ StartServerWithCustomKey(t)
      PROVE  Served(u)'
  <2>1. PICK n \in Names, k \in PublicKeys \cup {NoKey} : Begin(t, n, k)
    BY <1>4 DEF StartServer, StartServerWithCustomKey, Names
  <2> QED BY <1>1, <2>1, Beginning
          DEF Same, IsCustom, cloud, history, Served, Knows, Holding, Deleting
<1>5. ASSUME NEW t \in Threads, Step(t), srv'[u] # NoServer
      PROVE  Served(u)'
  <2>1. lost \subseteq lost'
    BY <1>5, Kept
  <2>2. CASE u = t /\ srv'[t] = srv[t]
    BY <1>1, <1>5, <2>1, <2>2, ServerStep, Kept, StartAssumption
       DEF Served, IsCustom, Knows, Holding, Deleting, Names
  <2>3. CASE u = t /\ srv'[t] # srv[t]
    <3>1. /\ pc[t] = "boot" /\ serverKey'[srv'[t]] = pair[name[t]]
          /\ keyName'[srv'[t]] = name[t] /\ name'[t] = name[t]
          /\ shared'[t] = shared[t] /\ key'[t] = key[t]
      BY <1>5, <2>3, ServerStep
    <3>2. IsCustom(t) => pair[name[t]] = key[t] \/ name[t] \in lost
      BY <3>1 DEF Owned, Holding
    <3>3. ~IsCustom(t) => pair[name[t]] = key[t] \/ shared[t]
      BY <3>1 DEF Imported
    <3> QED BY <2>1, <2>3, <3>1, <3>2, <3>3 DEF Served, IsCustom
  <2>4. CASE u # t
    <3>1. Same(u) /\ shared'[u] = shared[u]
      BY <1>5, <2>4, LocalTypesStep DEF OthersSame
    <3>2. srv[u] \in Servers /\ keyName[srv[u]] # NoName
      BY <1>1, <1>5, <3>1 DEF Same, Knows, Holding, Deleting
    <3> QED BY <1>1, <1>5, <2>1, <3>1, <3>2, Kept DEF Same, Served, IsCustom
  <2> QED BY <2>2, <2>3, <2>4
<1> QED BY <1>2, <1>3, <1>4, <1>5 DEF Next, Served

LEMMA RecordStep ==
  ASSUME TypeOK, Locals, CustomKeyFits, Unrecorded, RecordedKeyOpens,
         [Next]_vars
  PROVE  (Unrecorded /\ RecordedKeyOpens)'
<1> USE DEF TypeOK, Unrecorded, RecordedKeyOpens
<1>1. CASE UNCHANGED vars
  BY <1>1 DEF vars, cloud, history
<1>2. CASE Restart
  BY <1>2, Restarting DEF cloud
<1>3. ASSUME NEW t \in Threads, StartServer(t) \/ StartServerWithCustomKey(t)
      PROVE  (Unrecorded /\ RecordedKeyOpens)'
  BY <1>3 DEF StartServer, StartServerWithCustomKey, Begin, cloud, history
<1>4. ASSUME NEW t \in Threads, Step(t)
      PROVE  (Unrecorded /\ RecordedKeyOpens)'
  <2>1. CASE record' = record
    BY <1>4, <2>1, Kept
  <2>2. CASE record' # record
    <3>1. /\ pc[t] = "record" /\ record' = [record EXCEPT ![srv[t]] = key[t]]
          /\ UNCHANGED <<keyName, serverKey, lost>>
      BY <1>4, <2>2 DEF Step, Prepare, ImportGet, ImportCreate, Generate, Boot,
         DeleteGet, DeleteKeypair, DeleteAgain, RecordKey, cloud, history
    <3>2. /\ srv[t] \in Servers /\ keyName[srv[t]] # NoName
          /\ serverKey[srv[t]] = key[t] \/ keyName[srv[t]] \in lost
      BY <3>1 DEF Locals, Knows, CustomKeyFits
    <3> QED BY <3>1, <3>2
  <2> QED BY <2>1, <2>2
<1> QED BY <1>1, <1>2, <1>3, <1>4 DEF Next

-----------------------------------------------------------------------------
(* The request that will delete a pair.                                    *)
Deletes(t) == pc[t] \in Holding /\ cleanup[t] # "replace"

(* If there is a pair after the step of a request that is not going to     *)
(* delete it, then it was there before, and not in this request's care.    *)
LEMMA CareStep ==
  ASSUME TypeOK, Locals, NEW t \in Threads, Step(t), ~Deletes(t)',
         pair'[name[t]] # NoKey, name[t] \notin left'
  PROVE  pair[name[t]] # NoKey /\ ~Deletes(t)
<1> USE DEF TypeOK, Deletes, Holding, Deleting
<1>1. ~Fail(t) /\ ~Abandon(t)
  BY Failing, Abandoned DEF Cleans
<1>2. Knows(t) /\ name[t] \in Names
  BY DEF Locals, Knows, Step, Prepare, ImportGet, ImportCreate, Generate, Boot,
         DeleteGet, DeleteKeypair, DeleteAgain, RecordKey
<1>3. CASE Prepare(t) \/ RecordKey(t) \/ ImportGet(t)
  BY <1>2, <1>3 DEF Prepare, RecordKey, ImportGet, cloud, Knows, Goto
<1>4. CASE ImportCreate(t)
  BY <1>1, <1>2, <1>4 DEF ImportCreate, Goto
<1>5. CASE Generate(t)
  BY <1>1, <1>2, <1>5, StartAssumption DEF Generate, Goto, Knows
<1>6. CASE Boot(t)
  BY <1>1, <1>6 DEF Boot, Goto
<1>7. CASE DeleteGet(t)
  BY <1>1, <1>7, Deletions DEF DeleteGet, Goto, cloud
<1>8. CASE DeleteKeypair(t)
  BY <1>1, <1>2, <1>8, Deletions DEF DeleteKeypair
<1>9. CASE DeleteAgain(t)
  BY <1>2, <1>9 DEF DeleteAgain
<1> QED BY <1>3, <1>4, <1>5, <1>6, <1>7, <1>8, <1>9 DEF Step

LEMMA TemporaryStep ==
  ASSUME TypeOK, Locals, PairsAreTemporary, [Next]_vars
  PROVE  PairsAreTemporary'
<1> USE DEF TypeOK
<1> SUFFICES ASSUME NEW n \in Names, pair'[n] # NoKey, n \notin left'
             PROVE  \E t \in Threads : (name[t] = n /\ Deletes(t))'
  BY DEF PairsAreTemporary, Deletes, Holding, Deleting
<1> DEFINE Cared == \E t \in Threads : name[t] = n /\ Deletes(t)
<1>1. pair[n] # NoKey /\ n \notin left => Cared
  BY DEF PairsAreTemporary, Deletes, Holding, Deleting
<1>2. CASE UNCHANGED vars
  BY <1>1, <1>2 DEF vars, cloud, history, locals, Deletes
<1>3. CASE Restart
  <2>1. PICK t \in Threads : name[t] = n /\ Deletes(t)
    BY <1>1, <1>3, Restarting DEF cloud
  <2> QED BY <1>3, <2>1, Restarting DEF Deletes, Holding, Deleting
<1>4. ASSUME NEW t \in Threads, StartServer(t) \/ StartServerWithCustomKey(t)
      PROVE  Cared'
  <2>1. PICK m \in Names, k \in PublicKeys \cup {NoKey} : Begin(t, m, k)
    BY <1>4 DEF StartServer, StartServerWithCustomKey, Names
  <2>2. PICK u \in Threads : name[u] = n /\ Deletes(u)
    BY <1>1, <2>1 DEF Begin, cloud, history
  <2>3. Same(u)
    BY <2>1, <2>2, Beginning DEF Deletes, Holding, Deleting
  <2> QED BY <2>2, <2>3 DEF Same, Deletes
<1>5. ASSUME NEW t \in Threads, Step(t)
      PROVE  Cared'
  <2>1. CASE name[t] = n /\ Deletes(t)'
    <3>1. name'[t] = n
      BY <1>5, <2>1, NameKept DEF Ends, Deletes, Holding, Deleting
    <3> QED BY <2>1, <3>1
  <2>2. CASE ~(name[t] = n /\ Deletes(t)')
    <3>1. pair[n] # NoKey /\ n \notin left /\ ~(name[t] = n /\ Deletes(t))
      BY <1>5, <2>2, Kept, CareStep
    <3>2. PICK u \in Threads : name[u] = n /\ Deletes(u)
      BY <1>1, <3>1
    <3>3. Same(u)
      BY <1>5, <3>1, <3>2, LocalTypesStep DEF OthersSame
    <3> QED BY <3>2, <3>3 DEF Same, Deletes
  <2> QED BY <2>1, <2>2
<1> QED BY <1>2, <1>3, <1>4, <1>5 DEF Next

-----------------------------------------------------------------------------
(* The inductive invariant holds for any number of requests and names,     *)
(* whatever OpenStack and Redis refuse.                                    *)
THEOREM Invariance == Spec => []IInv
<1>1. Init => IInv
  BY InitInv
<1>2. IInv /\ [Next]_vars => IInv'
  BY TypeStep, LocalsStep, OneMakerStep, OwnedStep, SharingStep, ImportedStep,
     ServedStep, RecordStep, TemporaryStep DEF IInv
<1> QED
  BY <1>1, <1>2, PTL DEF Spec

(* Every variable has its type.                                            *)
THEOREM TypeCorrect == Spec => []TypeOK
<1>1. IInv => TypeOK
  BY DEF IInv
<1> QED
  BY <1>1, Invariance, PTL

(* The private key in Redis opens the server, unless the answer to a       *)
(* deletion of a pair of that name was lost.                               *)
THEOREM RecordedKeys == Spec => []RecordedKeyOpens
<1>1. IInv => RecordedKeyOpens
  BY DEF IInv
<1> QED
  BY <1>1, Invariance, PTL

(* A started server has the public key of its request, unless another      *)
(* request drew the same name at the same time.                            *)
THEOREM ImportedKeys == Spec => []OwnKeyUnlessShared
<1>1. IInv => OwnKeyUnlessShared
  BY DEF IInv
<1> QED
  BY <1>1, Invariance, PTL

(* A pair without a request that will delete it is one that an uncaught    *)
(* exception, a failed clean-up or a crash has left.                       *)
THEOREM Temporary == Spec => []PairsAreTemporary
<1>1. IInv => PairsAreTemporary
  BY DEF IInv
<1> QED
  BY <1>1, Invariance, PTL

-----------------------------------------------------------------------------
(* Why a request ends: the calls it may still make, at most.  An exception *)
(* leads at most once to the clean-up, whose own exceptions lead out.      *)
ToGo(s, why) ==
  CASE s = "idle"   -> 0
    [] s = "del"     /\ why = "failed"  -> 1
    [] s = "del_get" /\ why = "failed"  -> 2
    [] s = "record" -> 3
    [] s = "del"     /\ why = "booted"  -> 4
    [] s = "del_get" /\ why = "booted"  -> 5
    [] s = "boot"   -> 6
    [] s = "generate" -> 7
    [] s = "import_create" -> 7
    [] s = "del"     /\ why = "replace" -> 8
    [] s = "del_get" /\ why = "replace" -> 9
    [] s = "import_get" -> 10
    [] s = "prepare" -> 11

RequestsGetCloser ==
  [][\A t \in Threads : pc[t] # "idle" =>
       \/ ToGo(pc'[t], cleanup'[t]) < ToGo(pc[t], cleanup[t])
       \/ /\ Same(t) /\ repeats'[t] = repeats[t] + 1
          /\ repeats'[t] <= MaxRepeats
       \/ Same(t) /\ repeats'[t] = repeats[t] /\ ~Step(t)]_vars

(* What ToGo says of the steps, and of the three ways to delete.           *)
LEMMA ToGos ==
  ASSUME NEW why
  PROVE  /\ ToGo("idle", why) = 0 /\ ToGo("record", why) = 3
         /\ ToGo("boot", why) = 6 /\ ToGo("generate", why) = 7
         /\ ToGo("import_create", why) = 7 /\ ToGo("import_get", why) = 10
         /\ ToGo("prepare", why) = 11
         /\ ToGo("del", "failed") = 1 /\ ToGo("del_get", "failed") = 2
         /\ ToGo("del", "booted") = 4 /\ ToGo("del_get", "booted") = 5
         /\ ToGo("del", "replace") = 8 /\ ToGo("del_get", "replace") = 9
  BY DEF ToGo

(* delete_keypair ends, or raises.                                         *)
LEMMA DeletionCloser ==
  ASSUME TypeOK, NEW t \in Threads, pc[t] \in Deleting,
         cleanup[t] \in {"replace", "booted", "failed"},
         Deleted(t) \/ DeleteRaises(t)
  PROVE  ToGo(pc'[t], cleanup'[t]) < ToGo(pc[t], cleanup[t])
<1>1. CASE Return(t) \/ Abandon(t)
  <2>1. pc'[t] = "idle"
    BY <1>1, Returned, Abandoned DEF Ends
  <2> QED
    BY <2>1, ToGos DEF Deleting
<1>2. CASE cleanup[t] # "failed" /\ Fail(t)
  <2>1. pc'[t] = "del_get" /\ cleanup'[t] = "failed"
    BY <1>2, Failing DEF Cleans
  <2> QED
    BY <1>2, <2>1, ToGos DEF Deleting
<1>3. CASE cleanup[t] = "replace" /\ Goes(t, "import_create")
  <2>1. pc'[t] = "import_create"
    BY <1>3, Going DEF Steps
  <2> QED
    BY <1>3, <2>1, ToGos DEF Deleting
<1>4. CASE cleanup[t] = "booted" /\ Goes(t, "record")
  <2>1. pc'[t] = "record"
    BY <1>4, Going DEF Steps
  <2> QED
    BY <1>4, <2>1, ToGos DEF Deleting
<1> QED
  BY <1>1, <1>2, <1>3, <1>4, Deletions DEF DeleteRaises

(* A DELETE is sent again, or not, for the request's own sake.             *)
LEMMA Repeating ==
  ASSUME TypeOK, NEW t \in Threads
  PROVE  /\ DeleteAgain(t) =>
              /\ Same(t) /\ repeats'[t] = repeats[t] + 1
              /\ repeats'[t] <= MaxRepeats
         /\ \A u \in Threads \ {t} : Step(u) => repeats'[t] = repeats[t]
<1>1. DeleteAgain(t) =>
        /\ Same(t) /\ repeats'[t] = repeats[t] + 1
        /\ repeats'[t] <= MaxRepeats
  BY StartAssumption DEF DeleteAgain, TypeOK, Same
<1>2. ASSUME NEW u \in Threads \ {t}, Step(u)
      PROVE  repeats'[t] = repeats[t]
  BY <1>2 DEF TypeOK, Step, Prepare, ImportGet, ImportCreate, Generate, Boot,
     DeleteGet, DeleteKeypair, DeleteAgain, RecordKey
<1> QED
  BY <1>1, <1>2

LEMMA StepCloser ==
  ASSUME TypeOK, Locals, NEW t \in Threads, Step(t), ~DeleteAgain(t)
  PROVE  ToGo(pc'[t], cleanup'[t]) < ToGo(pc[t], cleanup[t])
<1> USE DEF Goes
<1>1. /\ pc[t] \in Deleting => cleanup[t] \in {"replace", "booted", "failed"}
      /\ pc \in [Threads -> Steps] /\ cleanup \in [Threads -> Reasons]
  BY DEF TypeOK, Locals, Knows, Reasons
<1>2. CASE pc[t] \notin Deleting /\ (Return(t) \/ Abandon(t))
  <2>1. pc'[t] = "idle" /\ pc[t] # "idle"
    BY <1>2, Returned, Abandoned DEF Ends, Step, Prepare, ImportGet,
       ImportCreate, Generate, Boot, DeleteGet, DeleteKeypair, DeleteAgain,
       RecordKey
  <2>2. pc[t] \in {"prepare", "import_get", "import_create", "generate", "boot",
                   "record"}
    BY <1>1, <1>2, <2>1 DEF Steps, Deleting
  <2> QED
    BY <2>1, <2>2, ToGos
<1>3. CASE pc[t] \in {"prepare", "import_get", "import_create", "boot"} /\ Fail(t)
  <2>1. pc'[t] = "del_get" /\ cleanup'[t] = "failed"
    BY <1>3, Failing DEF Cleans
  <2> QED
    BY <1>3, <2>1, ToGos
<1>4. CASE Prepare(t) /\ ~(Return(t) \/ Fail(t))
  BY <1>1, <1>4, ToGos DEF Prepare, Goto
<1>5. CASE ImportGet(t) /\ ~(Return(t) \/ Fail(t))
  <2>1. \/ pc'[t] \in {"import_create", "boot"}
        \/ Delete(t, "replace")
    BY <1>1, <1>5 DEF ImportGet, Goto
  <2>2. ASSUME Delete(t, "replace")
        PROVE  pc'[t] = "del_get" /\ cleanup'[t] = "replace"
    BY <2>2, Cleaning DEF Cleans, Reasons
  <2> QED
    BY <1>5, <2>1, <2>2, ToGos DEF ImportGet
<1>6. CASE (ImportCreate(t) \/ Generate(t)) /\ ~(Return(t) \/ Fail(t) \/ Abandon(t))
  <2>1. pc'[t] = "boot" /\ pc[t] \in {"import_create", "generate"}
    BY <1>1, <1>6 DEF ImportCreate, Generate, Goto
  <2> QED
    BY <2>1, ToGos
<1>7. CASE Boot(t) /\ ~(Fail(t) \/ Abandon(t))
  <2>1. pc[t] = "boot" /\ pc'[t] = "del_get" /\ cleanup'[t] = "booted"
    BY <1>1, <1>7 DEF Boot, Goto
  <2> QED
    BY <2>1, ToGos
<1>8. CASE DeleteGet(t)
  <2>1. CASE Deleted(t) \/ DeleteRaises(t)
    BY <1>1, <1>8, <2>1, DeletionCloser DEF DeleteGet, Deleting
  <2>2. CASE ~(Deleted(t) \/ DeleteRaises(t))
    <3>1. pc[t] = "del_get" /\ pc'[t] = "del" /\ cleanup'[t] = cleanup[t]
      BY <1>1, <1>8, <2>2 DEF DeleteGet, Goto
    <3> QED
      BY <1>1, <3>1, ToGos DEF Deleting
  <2> QED
    BY <2>1, <2>2
<1>9. CASE DeleteKeypair(t)
  BY <1>1, <1>9, DeletionCloser DEF DeleteKeypair, Deleting
<1>10. CASE Prepare(t) \/ ImportGet(t) \/ ImportCreate(t) \/ Boot(t)
  <2>1. pc[t] \in {"prepare", "import_get", "import_create", "boot"}
    BY <1>10 DEF Prepare, ImportGet, ImportCreate, Boot
  <2> QED
    BY <1>2, <1>3, <1>4, <1>5, <1>6, <1>7, <1>10, <2>1 DEF Deleting
<1>11. CASE Generate(t)
  <2>1. ~Fail(t) /\ pc[t] = "generate"
    BY <1>1, <1>11, Failing DEF Generate, Cleans, Goto, Abandon, Return
  <2> QED
    BY <1>2, <1>6, <1>11, <2>1 DEF Deleting
<1>12. CASE RecordKey(t)
  BY <1>2, <1>12 DEF RecordKey, Deleting
<1> QED
  BY <1>8, <1>9, <1>10, <1>11, <1>12 DEF Step

(* A request to start a server makes at most eleven calls of OpenStack and *)
(* Redis, whatever they answer and whatever other requests do, and sends   *)
(* none of its deletions again more often than the session allows.         *)
THEOREM StartsEnd == Spec => RequestsGetCloser
<1>1. ASSUME IInv, Next, NEW t \in Threads, pc[t] # "idle"
      PROVE  \/ ToGo(pc'[t], cleanup'[t]) < ToGo(pc[t], cleanup[t])
             \/ /\ Same(t) /\ repeats'[t] = repeats[t] + 1
                /\ repeats'[t] <= MaxRepeats
             \/ Same(t) /\ repeats'[t] = repeats[t] /\ ~Step(t)
  <2>1. TypeOK /\ Locals
    BY <1>1 DEF IInv
  <2>2. CASE Step(t)
    BY <2>1, <2>2, StepCloser, Repeating
  <2>3. CASE Restart
    <3>1. pc'[t] = "idle" /\ cleanup'[t] = "none"
      BY <2>3 DEF Restart
    <3>2. ToGo(pc[t], cleanup[t]) \in 1 .. 11
      <4>1. /\ pc[t] \in Steps \ {"idle"}
            /\ pc[t] \in Deleting => cleanup[t] \in {"replace", "booted", "failed"}
        BY <1>1, <2>1 DEF TypeOK, Locals, Knows, Reasons
      <4> QED
        BY <4>1, ToGos DEF Steps, Deleting
    <3> QED
      BY <3>1, <3>2, ToGos
  <2>4. ASSUME NEW u \in Threads, StartServer(u) \/ StartServerWithCustomKey(u)
        PROVE  Same(t) /\ repeats'[t] = repeats[t]
    <3>1. PICK n \in Names, k \in PublicKeys \cup {NoKey} : Begin(u, n, k)
      BY <2>4 DEF StartServer, StartServerWithCustomKey, Names
    <3>2. u # t
      BY <1>1, <3>1 DEF Begin
    <3> QED
      BY <2>1, <3>1, <3>2, Beginning
  <2>5. ASSUME NEW u \in Threads, u # t, Step(u)
        PROVE  Same(t) /\ repeats'[t] = repeats[t]
    BY <2>1, <2>5, LocalTypesStep, Repeating DEF OthersSame
  <2> QED
    BY <1>1, <2>2, <2>3, <2>4, <2>5 DEF Next
<1>2. IInv /\ [Next]_vars =>
        [\A t \in Threads : pc[t] # "idle" =>
           \/ ToGo(pc'[t], cleanup'[t]) < ToGo(pc[t], cleanup[t])
           \/ /\ Same(t) /\ repeats'[t] = repeats[t] + 1
              /\ repeats'[t] <= MaxRepeats
           \/ Same(t) /\ repeats'[t] = repeats[t] /\ ~Step(t)]_vars
  BY <1>1
<1> QED
  BY <1>2, Invariance, PTL DEF Spec, RequestsGetCloser
=============================================================================
