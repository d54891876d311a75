------------------------ MODULE ImportPipelineProofs ------------------------
(***************************************************************************)
(* Proofs about ImportPipeline for any account and any number of requests: *)
(* what is answered is stored and stays, what a run writes never breaks a  *)
(* unique key, each record is decided once, no fact is booked twice, and a *)
(* run that is not overtaken books exchanges whole.                        *)
(***************************************************************************)
EXTENDS ImportPipeline, FiniteSetTheorems, TLAPS

-----------------------------------------------------------------------------
(* The import.                                                             *)

\* No two stored records have one key.
KeysOnce == \A x, y \in Stored : CanonicalKey[x] = CanonicalKey[y] => x = y

\* Where a request works on a batch that it has not committed.
ImportSteps == {"checking", "sorting", "storing", "failing", "syncing", "projecting"}

\* What a request works on is part of a batch of the account.
BatchesOffered ==
    \A q \in Requests : pc[q] \in ImportSteps =>
        \E batch \in offered : local[q].batch \subseteq batch

\* A request has no row of its own before its import ends ...
NotYetCommitted ==
    \A q \in Requests :
        pc[q] \in ImportSteps \cup {"idle"} => sessions[q] = NoSession

\* ... and then one that completed.
ImportedCompleted ==
    \A q \in Requests : pc[q] = "imported" =>
        sessions[q].status = "completed" /\ sessions[q].hash = Hash(q)

\* Before the records are stored: the batch has one record for each key, and nothing
\* that was found contradicts it.  A sync may find its batch registered instead, and
\* then takes all of it for known.
Sorted(q) ==
    /\ local[q].known \subseteq Stored
    /\ \A x \in local[q].known \cup local[q].batch, y \in local[q].batch :
        CanonicalKey[x] = CanonicalKey[y] => x = y

FoundRegistered(q) == local[q].known = local[q].batch /\ Registering(q) # {}

BatchSorted ==
    \A q \in Requests :
        /\ pc[q] = "storing" => Sorted(q)
        /\ pc[q] = "projecting" => Sorted(q) \/ FoundRegistered(q)

\* The batch of a completed session is stored, or a failed attempt registered it.
CompletedStored ==
    \A s \in Requests : sessions[s].status = "completed" =>
        \/ sessions[s].hash.batch \subseteq Stored
        \/ \E t \in Requests :
            sessions[t].status = "failed" /\ sessions[t].hash = sessions[s].hash

\* The records of one session come from one source.
OneSourceEach ==
    \A x, y \in Stored : home[x] = home[y] => Raw[x].source = Raw[y].source

\* A sync works on ledger entries, and each session it looks at holds one.
SyncReadsLedger ==
    \A q \in Requests : pc[q] \in {"syncing", "projecting"} =>
        /\ LedgerBatch(local[q].batch)
        /\ \A s \in local[q].context : \E x \in Stored : home[x] = s /\ IsLedger(x)

ImportInv ==
    /\ KeysOnce
    /\ BatchesOffered
    /\ NotYetCommitted
    /\ ImportedCompleted
    /\ BatchSorted
    /\ CompletedStored
    /\ OneSourceEach
    /\ SyncReadsLedger

-----------------------------------------------------------------------------
(* The books.                                                              *)

\* No two facts have one stable key.
FactsOnce(books) == \A f, g \in books : SameKey(f, g) => f = g

\* Two records that are a spend and a receive.
SpendAndReceive(spend, receive) ==
    /\ IsLedger(spend) /\ Raw[spend].type = "spend"
    /\ IsLedger(receive) /\ Raw[receive].type = "receive"

\* A fact of an exchange is what two stored records say.
Founded(f, known) ==
    \E spend, receive \in known :
        /\ SpendAndReceive(spend, receive)
        /\ f \in ExchangeLegs(spend, receive) \cup ExchangeFees(spend, receive)

\* The leg of one of the two records.
LegOf(x, spend, receive) ==
    IF x = spend THEN ExchangeDisposal(spend, receive) ELSE ExchangeAcquisition(spend, receive)

ExchangeRoles == {"ledger-acquisition", "ledger-disposal", "ledger-fee"}
TradeRoles == {"acquisition", "disposal", "fee"}

ExchangesFounded(known, books) ==
    \A f \in books : f.role \in ExchangeRoles => Founded(f, known)

\* A record's leg in an exchange and its fee are booked together, whichever run was
\* overtaken.
LegsWithFees(known, books) ==
    \A spend, receive \in known : SpendAndReceive(spend, receive) =>
        \A x \in {spend, receive} :
            \A f \in LegOf(x, spend, receive), g \in ExchangeFee(x, spend, receive) :
                f \in books <=> g \in books

\* What a trade brings is booked with the trade.
TradesWhole(books) ==
    \A f \in books : f.role \in TradeRoles =>
        \E g \in books : g.role = "trade" /\ g.of = f.of

\* The books rest on what is known.
BooksKept(known, books) ==
    /\ FactsOnce(books)
    /\ ExchangesFounded(known, books)
    /\ LegsWithFees(known, books)
    /\ TradesWhole(books)
    /\ \A f \in books : f.basis \subseteq known

BooksInv == BooksKept(Stored, facts)

-----------------------------------------------------------------------------
(* Types.                                                                  *)

\* The part of TypeOK that is about the import alone.
EngineTypeOK ==
    /\ offered \in Accounts
    /\ home \in [Records -> Requests \cup {Null}]
    /\ sessions \in [Requests -> Session]
    /\ pc \in [Requests -> Steps]
    /\ local \in [Requests -> Local]

LEMMA NullIsNoRequest == Null \notin Requests
  BY AccountAssumption

LEMMA BatchOfOneSource ==
    ASSUME offered \in Accounts, NEW batch \in offered
    PROVE  \A v, w \in batch : Raw[v].source = Raw[w].source
  BY AccountAssumption

LEMMA StartedNat == Started \in Nat
  <1> DEFINE active == {q \in Requests : pc[q] # "idle"}
  <1>1. IsFiniteSet(active)
    BY AccountAssumption, FS_Subset
  <1>2. Cardinality(active) \in Nat
    BY <1>1, FS_CardinalityType
  <1> QED  BY <1>2 DEF Started

LEMMA EngineTypeInit == Init => EngineTypeOK
  BY DEF Init, ImportInit, EngineTypeOK, NoSession, NoLocal, Session, Local, Steps, Forms

LEMMA RowType ==
    ASSUME EngineTypeOK, NEW q \in Requests, NEW status \in {"completed", "failed"}
    PROVE  Row(q, status) \in Session
  <1>1. local[q] \in Local
    BY DEF EngineTypeOK
  <1> QED  BY <1>1 DEF Row, Hash, ImportHash, Form, Forms, Session, Local

\* The steps of one request.  Two of them complete a run.
RequestStep(q) ==
    \/ Import(q) \/ AnswerImport(q) \/ ContinueImport(q) \/ SyncImport(q) \/ Abandon(q)
    \/ Transform(q) \/ SyncCommit(q)
    \/ \E S \in SUBSET Requests : PostTransformation(q, S)
    \/ \E r \in Records : CheckPayload(q, r)
    \/ \E batch \in offered : SyncCompare(q, batch)

LEMMA StepOfRequest == [Next]_vars => (\E q \in Requests : RequestStep(q)) \/ UNCHANGED vars
  BY DEF Next, RequestStep

LEMMA OtherSteps ==
    ASSUME NEW q \in Requests, RequestStep(q), ~Transform(q), ~SyncCommit(q)
    PROVE  UNCHANGED <<runs, facts>>
  BY DEF RequestStep, Import, AnswerImport, ContinueImport, SyncImport, Abandon, PostTransformation,
         CheckPayload, SyncCompare

\* Facts are never removed, so what was seen of them stays among them.
LEMMA FactsGrow == [Next]_vars => facts \subseteq facts'
  <1>1. ASSUME NEW q \in Requests, Transform(q) \/ SyncCommit(q) PROVE facts \subseteq facts'
    BY <1>1 DEF Transform, SyncCommit, Project
  <1>2. CASE UNCHANGED vars
    BY <1>2 DEF vars
  <1> QED  BY <1>1, <1>2, StepOfRequest, OtherSteps

LEMMA TypesGrow ==
    ASSUME offered' = offered, facts \subseteq facts'
    PROVE  Records' = Records /\ Session' = Session /\ Local \subseteq Local'
  BY DEF Records, Session, Forms, Local

LEMMA EngineTypeNext == EngineTypeOK /\ [Next]_vars => EngineTypeOK'
  <1> SUFFICES ASSUME EngineTypeOK, [Next]_vars PROVE EngineTypeOK'
    OBVIOUS
  <1> DEFINE Kept ==
        /\ offered' = offered
        /\ home' \in [Records -> Requests \cup {Null}]
        /\ sessions' \in [Requests -> Session]
        /\ pc' \in [Requests -> Steps]
        /\ local' \in [Requests -> Local]
  <1>k. SUFFICES Kept
    <2>1. Records' = Records /\ Session' = Session /\ Local \subseteq Local'
      BY <1>k, FactsGrow, TypesGrow
    <2> QED  BY <1>k, <2>1 DEF EngineTypeOK, Steps
  <1> USE DEF EngineTypeOK
  <1>0. Records \in SUBSET Records /\ NoLocal \in Local
    BY DEF NoLocal, Local
  <1>1. CASE UNCHANGED vars
    BY <1>1 DEF vars, ivars
  <1>2. ASSUME NEW q \in Requests, NEW kind \in {"csv", "live"}, NEW batch \in offered,
               NEW transform \in BOOLEAN, Receive(q, kind, batch, transform)
        PROVE  Kept
    <2>1. local[q] \in Local /\ batch \in SUBSET Records /\ Started \in Nat
      BY StartedNat DEF Records
    <2> QED  BY <1>2, <2>1 DEF Receive, Goto, Local, Steps, Records, Session
  <1>3. ASSUME NEW q \in Requests, SkipBatch(q) PROVE Kept
    <2>1. PICK s \in Latest(q) :
             LET homes == Homes(WithKeyOf(local[q].batch)) IN
             local' = [local EXCEPT ![q].duplicateOf = s,
                                    ![q].reused = IF homes = {} THEN {s} ELSE homes]
      BY <1>3 DEF SkipBatch
    <2>2. s \in Requests /\ Homes(WithKeyOf(local[q].batch)) \in SUBSET Requests
      BY DEF Latest, Registering, Homes, WithKeyOf, Stored
    <2>3. local[q] \in Local /\ Row(q, "completed") \in Session
      BY RowType
    <2>4. local' \in [Requests -> Local]
      BY <2>1, <2>2, <2>3 DEF Local
    <2> QED  BY <1>3, <2>3, <2>4 DEF SkipBatch, Goto, Steps, Records, Local, Session
  <1>4. ASSUME NEW q \in Requests, FindNoBatch(q) PROVE Kept
    BY <1>4 DEF FindNoBatch, Goto, Steps, Records, Local, Session
  <1>5. ASSUME NEW q \in Requests, SortRecords(q) PROVE Kept
    <2>1. WithKeyOf(local[q].batch) \in SUBSET Records
          /\ Homes(WithKeyOf(local[q].batch)) \in SUBSET Requests
      BY DEF Homes, WithKeyOf, Stored
    <2>2. local[q] \in Local
      OBVIOUS
    <2>3. local' \in [Requests -> Local]
      BY <1>5, <2>1, <2>2 DEF SortRecords, Local
    <2> QED  BY <1>5, <2>3 DEF SortRecords, Goto, Steps, Records, Local, Session
  <1>6. ASSUME NEW q \in Requests, StoreRecords(q) PROVE Kept
    <2>1. local[q] \in Local /\ Row(q, "completed") \in Session
      BY RowType
    <2>2. local' \in [Requests -> Local]
      BY <1>6, <2>1 DEF StoreRecords, Local
    <2> QED  BY <1>6, <2>1, <2>2 DEF StoreRecords, Goto, Steps, Records, Local, Session
  <1>7. ASSUME NEW q \in Requests, ImportFails(q) PROVE Kept
    BY <1>7 DEF ImportFails, Goto, Steps, Records, Local, Session
  <1>8. ASSUME NEW q \in Requests, RecordFailure(q) PROVE Kept
    <2>1. Row(q, "failed") \in Session
      BY RowType
    <2> QED  BY <1>0, <1>8, <2>1 DEF RecordFailure, Answer, Goto, Steps, Records, Local, Session
  <1>9. ASSUME NEW q \in Requests, AnswerImport(q) \/ Transform(q) \/ Abandon(q)
        PROVE  Kept
    <2>1. Answer(q) /\ UNCHANGED <<offered, home, sessions>>
      BY <1>9 DEF AnswerImport, Transform, Abandon
    <2> QED  BY <1>0, <2>1 DEF Answer, Goto, Steps, Records, Local, Session
  <1>10. ASSUME NEW q \in Requests, ContinueImport(q) PROVE Kept
    <2>1. local[q] \in Local /\ ChosenSessions(q) \in SUBSET Requests
      BY <1>10, NullIsNoRequest DEF ChosenSessions, CanonicalSession, Local
    <2>2. local' \in [Requests -> Local]
      BY <1>10, <2>1 DEF ContinueImport, Local
    <2> QED  BY <1>10, <2>2 DEF ContinueImport, Goto, Steps, Records, Local, Session
  <1>11. ASSUME NEW q \in Requests, NEW S \in SUBSET Requests, PostTransformation(q, S)
         PROVE  Kept
    <2>1. local[q] \in Local
      OBVIOUS
    <2>2. local' \in [Requests -> Local]
      BY <1>11, <2>1 DEF PostTransformation, Local
    <2> QED  BY <1>11, <2>2 DEF PostTransformation, Goto, Steps, Records, Local, Session
  <1>12. ASSUME NEW q \in Requests, NEW batch \in offered, SyncCompare(q, batch)
         PROVE  Kept
    <2> DEFINE known == WithKeyOf(batch)
               new   == {r \in batch : \A x \in known : CanonicalKey[x] # CanonicalKey[r]}
    <2>1. new \in SUBSET Records /\ Homes(known) \in SUBSET Requests
      BY DEF Homes, WithKeyOf, Stored, Records
    <2>2. \/ Answer(q)
          \/ /\ local' = [local EXCEPT ![q].kind = "sync", ![q].batch = new,
                              ![q].context = Homes(known), ![q].started = Started]
             /\ Goto(q, "syncing")
      BY <1>12 DEF SyncCompare
    <2>3. UNCHANGED <<offered, home, sessions>>
      BY <1>12 DEF SyncCompare
    <2>4. local[q] \in Local /\ Started \in Nat
      BY StartedNat
    <2> HIDE DEF new, known
    <2>5. local' \in [Requests -> Local]
      BY <1>0, <2>1, <2>2, <2>4 DEF Local, Answer
    <2>6. pc' \in [Requests -> Steps]
      BY <2>2 DEF Answer, Goto, Steps
    <2> QED  BY <2>3, <2>5, <2>6 DEF Records, Local, Session
  <1>13. ASSUME NEW q \in Requests, SyncImport(q) PROVE Kept
    <2>1. local[q] \in Local /\ WithKeyOf(local[q].batch) \in SUBSET Records
      BY DEF WithKeyOf, Stored
    <2>2. local' \in [Requests -> Local]
      BY <1>13, <2>1 DEF SyncImport, Local
    <2> QED  BY <1>13, <2>2 DEF SyncImport, Goto, Steps
  <1>14. ASSUME NEW q \in Requests, NEW r \in Records, CheckPayload(q, r) PROVE Kept
    <2> DEFINE found == FoundFor(r, Selected(q) \cup Context(q), facts)
    <2>1. local[q] \in Local /\ found \in SUBSET facts
      BY DEF FoundFor, Existing
    <2>2. local' = [local EXCEPT ![q].looked = @ \cup {r}, ![q].seen = @ \cup found]
      BY <1>14 DEF CheckPayload
    <2> HIDE DEF found
    <2>3. local' \in [Requests -> Local]
      BY <2>1, <2>2 DEF Local
    <2> QED  BY <1>14, <2>3 DEF CheckPayload
  <1>15. ASSUME NEW q \in Requests, SyncCommit(q) PROVE Kept
    <2>1. Row(q, "completed") \in Session
      BY RowType
    <2>2. /\ home' = [r \in Records |-> IF r \in Pending(q) THEN q ELSE home[r]]
          /\ sessions' = [sessions EXCEPT ![q] = Row(q, "completed")]
          /\ pc' = [pc EXCEPT ![q] = "done"]
          /\ local' = [local EXCEPT ![q] = NoLocal]
          /\ offered' = offered
      BY <1>15 DEF SyncCommit, Answer, Goto
    <2> QED  BY <1>0, <2>1, <2>2 DEF Steps, Records, Local, Session
  <1> QED
    BY <1>1, <1>2, <1>3, <1>4, <1>5, <1>6, <1>7, <1>8, <1>9, <1>10, <1>11, <1>12, <1>13, <1>14,
       <1>15 DEF Next, Import

-----------------------------------------------------------------------------
(* The import.                                                             *)

\* What is stored was stored by a request whose session is complete.
HomesCompleted == \A r \in Stored : sessions[home[r]].status = "completed"

EngineInv == EngineTypeOK /\ HomesCompleted /\ ImportInv

LEMMA EngineInit == Init => EngineInv
  <1> SUFFICES ASSUME Init PROVE EngineInv
    OBVIOUS
  <1>1. EngineTypeOK
    BY EngineTypeInit
  <1>2. Stored = {}
    BY DEF Init, ImportInit, Stored
  <1> QED  BY <1>1, <1>2 DEF EngineInv, HomesCompleted, ImportInv, KeysOnce, BatchesOffered,
              NotYetCommitted, ImportedCompleted, BatchSorted, CompletedStored, OneSourceEach,
              SyncReadsLedger, Init, ImportInit, NoSession, ImportSteps

LEMMA StoredStays == UNCHANGED <<offered, home>> => Stored' = Stored
  BY DEF Stored, Records

\* A batch that is registered stays so.
LEMMA RegisteringGrows ==
    ASSUME NEW q \in Requests, NEW p \in Requests \ {q}, sessions[q] = NoSession,
           \A s \in Requests \ {q} : sessions'[s] = sessions[s], local'[p] = local[p]
    PROVE  Registering(p) \subseteq Registering(p)'
  <1>1. Hash(p)' = Hash(p)
    BY DEF Hash, ImportHash, Form
  <1>2. \A s \in Registering(p) : s # q
    BY DEF Registering, NoSession
  <1> QED  BY <1>1, <1>2 DEF Registering

\* So a request that only sees others commit is sorted as before.
LEMMA StaysSorted ==
    ASSUME EngineInv, NEW p \in Requests, Stored \subseteq Stored',
           pc'[p] = pc[p], local'[p] = local[p],
           Registering(p) \subseteq Registering(p)'
    PROVE  /\ pc'[p] = "storing" => Sorted(p)'
           /\ pc'[p] = "projecting" => Sorted(p)' \/ FoundRegistered(p)'
  <1>1. /\ pc[p] = "storing" => Sorted(p)
        /\ pc[p] = "projecting" => Sorted(p) \/ FoundRegistered(p)
    BY DEF EngineInv, ImportInv, BatchSorted
  <1>2. Sorted(p) => Sorted(p)'
    BY DEF Sorted
  <1>3. FoundRegistered(p) => FoundRegistered(p)'
    BY DEF FoundRegistered
  <1> QED  BY <1>1, <1>2, <1>3

\* Steps that commit no record and no session are about one request only.
LEMMA LocalStep ==
    ASSUME EngineInv, NEW q \in Requests, UNCHANGED <<offered, home, sessions>>,
           pc' = [pc EXCEPT ![q] = pc'[q]], local' = [local EXCEPT ![q] = local'[q]],
           pc'[q] \in ImportSteps =>
               /\ \E batch \in offered : local'[q].batch \subseteq batch
               /\ sessions[q] = NoSession,
           pc'[q] \notin {"idle", "imported"},
           pc'[q] = "storing" => Sorted(q)',
           pc'[q] = "projecting" => Sorted(q)' \/ FoundRegistered(q)',
           pc'[q] \in {"syncing", "projecting"} =>
               /\ LedgerBatch(local'[q].batch)
               /\ \A s \in local'[q].context : \E x \in Stored : home[x] = s /\ IsLedger(x)
    PROVE  HomesCompleted' /\ ImportInv'
  <1>1. Records' = Records /\ Stored' = Stored
    BY DEF Records, Stored
  <1>2. pc \in [Requests -> Steps] /\ local \in [Requests -> Local]
    BY DEF EngineInv, EngineTypeOK
  <1>3. \A p \in Requests \ {q} : pc'[p] = pc[p] /\ local'[p] = local[p]
    BY <1>2
  <1> USE DEF EngineInv, ImportInv
  <1>4. HomesCompleted' /\ KeysOnce' /\ OneSourceEach' /\ CompletedStored'
    BY <1>1 DEF HomesCompleted, KeysOnce, OneSourceEach, CompletedStored
  <1>5. BatchesOffered'
    BY <1>3 DEF BatchesOffered
  <1>6. NotYetCommitted'
    BY <1>3 DEF NotYetCommitted, NoSession
  <1>7. ImportedCompleted'
    BY <1>3 DEF ImportedCompleted, Hash, ImportHash, Form
  <1>8. BatchSorted'
    <2> SUFFICES ASSUME NEW p \in Requests
                 PROVE  /\ pc'[p] = "storing" => Sorted(p)'
                        /\ pc'[p] = "projecting" => Sorted(p)' \/ FoundRegistered(p)'
      BY DEF BatchSorted
    <2>1. CASE p # q
      <3>1. Registering(p)' = Registering(p)
        BY <1>3, <2>1 DEF Registering, Hash, ImportHash, Form
      <3> QED  BY <1>1, <1>3, <2>1, <3>1, StaysSorted
    <2> QED  BY <2>1
  <1>9. SyncReadsLedger'
    BY <1>1, <1>3 DEF SyncReadsLedger, LedgerBatch, IsLedger
  <1> QED  BY <1>4, <1>5, <1>6, <1>7, <1>8, <1>9

\* A step commits the session of one request, and no record ...
LEMMA SessionStep ==
    ASSUME EngineInv, NEW q \in Requests, NEW status \in {"completed", "failed"},
           UNCHANGED <<offered, home>>, sessions[q] = NoSession,
           sessions' = [sessions EXCEPT ![q] = Row(q, status)],
           pc' = [pc EXCEPT ![q] = pc'[q]], local' = [local EXCEPT ![q] = local'[q]],
           pc'[q] \in {"imported", "done"},
           pc'[q] = "imported" => status = "completed" /\ Hash(q)' = Hash(q),
           status = "completed" =>
               \/ local[q].batch \subseteq Stored
               \/ \E t \in Requests \ {q} : sessions[t].status = "failed" /\ sessions[t].hash = Hash(q)
    PROVE  HomesCompleted' /\ ImportInv'
  <1>1. Records' = Records /\ Stored' = Stored
    BY DEF Records, Stored
  <1>2. /\ pc \in [Requests -> Steps] /\ local \in [Requests -> Local]
        /\ sessions \in [Requests -> Session] /\ home \in [Records -> Requests \cup {Null}]
    BY DEF EngineInv, EngineTypeOK
  <1>3. \A p \in Requests \ {q} :
            pc'[p] = pc[p] /\ local'[p] = local[p] /\ sessions'[p] = sessions[p]
    BY <1>2
  <1>4. sessions'[q].status = status /\ sessions'[q].hash = Hash(q)
    BY <1>2 DEF Row
  <1>5. Hash(q).batch = local[q].batch
    BY DEF Hash, ImportHash
  <1> USE DEF EngineInv, ImportInv
  <1>6. KeysOnce' /\ OneSourceEach'
    BY <1>1 DEF KeysOnce, OneSourceEach
  <1>7. HomesCompleted'
    <2>1. \A r \in Stored : home[r] \in Requests \ {q}
      BY <1>2, NullIsNoRequest DEF HomesCompleted, Stored, NoSession
    <2> QED  BY <1>1, <1>3, <2>1 DEF HomesCompleted
  <1>8. CompletedStored'
    <2> SUFFICES ASSUME NEW s \in Requests, sessions'[s].status = "completed"
                 PROVE  \/ sessions'[s].hash.batch \subseteq Stored
                        \/ \E t \in Requests :
                            sessions'[t].status = "failed" /\ sessions'[t].hash = sessions'[s].hash
      BY <1>1 DEF CompletedStored
    <2>1. CASE s = q
      BY <1>3, <1>4, <1>5, <2>1
    <2>2. CASE s # q
      <3>1. \/ sessions[s].hash.batch \subseteq Stored
            \/ \E t \in Requests : sessions[t].status = "failed" /\ sessions[t].hash = sessions[s].hash
        BY <1>3, <2>2 DEF CompletedStored
      <3> QED  BY <1>3, <2>2, <3>1 DEF NoSession
    <2> QED  BY <2>1, <2>2
  <1>9. BatchesOffered'
    BY <1>3 DEF BatchesOffered, ImportSteps
  <1>10. NotYetCommitted'
    BY <1>3 DEF NotYetCommitted, ImportSteps
  <1>11. ImportedCompleted'
    <2> SUFFICES ASSUME NEW p \in Requests, pc'[p] = "imported"
                 PROVE  sessions'[p].status = "completed" /\ sessions'[p].hash = Hash(p)'
      BY DEF ImportedCompleted
    <2>1. CASE p = q
      BY <1>4, <2>1
    <2>2. CASE p # q
      BY <1>3, <2>2 DEF ImportedCompleted, Hash, ImportHash, Form
    <2> QED  BY <2>1, <2>2
  <1>12. BatchSorted'
    BY <1>1, <1>3, RegisteringGrows, StaysSorted DEF BatchSorted
  <1>13. SyncReadsLedger'
    BY <1>1, <1>3 DEF SyncReadsLedger, LedgerBatch, IsLedger
  <1> QED  BY <1>6, <1>7, <1>8, <1>9, <1>10, <1>11, <1>12, <1>13

\* ... or together with records of its batch that have keys of their own.
LEMMA StoreStep ==
    ASSUME EngineInv, NEW q \in Requests, NEW records, UNCHANGED offered,
           sessions[q] = NoSession,
           records \subseteq local[q].batch,
           \E batch \in offered : local[q].batch \subseteq batch,
           \A x \in records, y \in records \cup Stored :
               CanonicalKey[x] = CanonicalKey[y] => x = y /\ y \notin Stored,
           home' = [r \in Records |-> IF r \in records THEN q ELSE home[r]],
           sessions' = [sessions EXCEPT ![q] = Row(q, "completed")],
           pc' = [pc EXCEPT ![q] = pc'[q]], local' = [local EXCEPT ![q] = local'[q]],
           pc'[q] \in {"imported", "done"},
           pc'[q] = "imported" => Hash(q)' = Hash(q),
           \/ local[q].batch \subseteq Stored \cup records
           \/ \E t \in Requests \ {q} : sessions[t].status = "failed" /\ sessions[t].hash = Hash(q)
    PROVE  HomesCompleted' /\ ImportInv'
  <1>2. /\ pc \in [Requests -> Steps] /\ local \in [Requests -> Local]
        /\ sessions \in [Requests -> Session] /\ home \in [Records -> Requests \cup {Null}]
        /\ offered \in Accounts
    BY DEF EngineInv, EngineTypeOK
  <1>0. records \subseteq Records
    BY DEF Records
  <1>1. Records' = Records /\ Stored' = Stored \cup records
    BY <1>0, NullIsNoRequest DEF Records, Stored
  <1>3. \A p \in Requests \ {q} :
            pc'[p] = pc[p] /\ local'[p] = local[p] /\ sessions'[p] = sessions[p]
    BY <1>2
  <1>4. sessions'[q].status = "completed" /\ sessions'[q].hash = Hash(q)
    BY <1>2 DEF Row
  <1>5. Hash(q).batch = local[q].batch
    BY DEF Hash, ImportHash
  <1> USE DEF EngineInv, ImportInv
  <1>a. \A r \in Stored : home[r] \in Requests \ {q}
    BY <1>2, NullIsNoRequest DEF HomesCompleted, Stored, NoSession
  <1>b. \A r \in Stored : r \notin records /\ home'[r] = home[r]
    BY DEF Stored
  <1>c. \A r \in records : home'[r] = q
    BY <1>0
  <1>6. KeysOnce'
    <2> SUFFICES ASSUME NEW x \in Stored \cup records, NEW y \in Stored \cup records,
                        CanonicalKey[x] = CanonicalKey[y]
                 PROVE  x = y
      BY <1>1 DEF KeysOnce
    <2>1. CASE x \in records
      BY <2>1
    <2>2. CASE y \in records
      BY <2>2
    <2>3. CASE x \in Stored /\ y \in Stored
      BY <2>3 DEF KeysOnce
    <2> QED  BY <2>1, <2>2, <2>3
  <1>7. HomesCompleted'
    BY <1>1, <1>3, <1>4, <1>a, <1>b, <1>c DEF HomesCompleted
  <1>d. OneSourceEach'
    <2> SUFFICES ASSUME NEW x \in Stored \cup records, NEW y \in Stored \cup records,
                        home'[x] = home'[y]
                 PROVE  Raw[x].source = Raw[y].source
      BY <1>1 DEF OneSourceEach
    <2>1. CASE x \in Stored /\ y \in Stored
      BY <1>b, <2>1 DEF OneSourceEach
    <2>2. CASE x \in records /\ y \in records
      <3>1. PICK batch \in offered : local[q].batch \subseteq batch
        OBVIOUS
      <3>2. x \in batch /\ y \in batch
        BY <2>2, <3>1
      <3>3. \A v, w \in batch : Raw[v].source = Raw[w].source
        BY <1>2, BatchOfOneSource
      <3> QED  BY <3>2, <3>3
    <2> QED  BY <1>a, <1>b, <1>c, <2>1, <2>2
  <1>8. CompletedStored'
    <2> SUFFICES ASSUME NEW s \in Requests, sessions'[s].status = "completed"
                 PROVE  \/ sessions'[s].hash.batch \subseteq Stored \cup records
                        \/ \E t \in Requests :
                            sessions'[t].status = "failed" /\ sessions'[t].hash = sessions'[s].hash
      BY <1>1 DEF CompletedStored
    <2>1. CASE s = q
      BY <1>3, <1>4, <1>5, <2>1
    <2>2. CASE s # q
      <3>1. \/ sessions[s].hash.batch \subseteq Stored
            \/ \E t \in Requests : sessions[t].status = "failed" /\ sessions[t].hash = sessions[s].hash
        BY <1>3, <2>2 DEF CompletedStored
      <3> QED  BY <1>3, <2>2, <3>1 DEF NoSession
    <2> QED  BY <2>1, <2>2
  <1>9. BatchesOffered'
    BY <1>3 DEF BatchesOffered, ImportSteps
  <1>10. NotYetCommitted'
    BY <1>3 DEF NotYetCommitted, ImportSteps
  <1>11. ImportedCompleted'
    <2> SUFFICES ASSUME NEW p \in Requests, pc'[p] = "imported"
                 PROVE  sessions'[p].status = "completed" /\ sessions'[p].hash = Hash(p)'
      BY DEF ImportedCompleted
    <2>1. CASE p = q
      BY <1>4, <2>1
    <2>2. CASE p # q
      BY <1>3, <2>2 DEF ImportedCompleted, Hash, ImportHash, Form
    <2> QED  BY <2>1, <2>2
  <1>12. BatchSorted'
    BY <1>1, <1>3, RegisteringGrows, StaysSorted DEF BatchSorted
  <1>13. SyncReadsLedger'
    <2> SUFFICES ASSUME NEW p \in Requests, pc'[p] \in {"syncing", "projecting"}
                 PROVE  /\ LedgerBatch(local'[p].batch)
                        /\ \A s \in local'[p].context :
                            \E x \in Stored' : home'[x] = s /\ IsLedger(x)
      BY DEF SyncReadsLedger, LedgerBatch, IsLedger
    <2>1. p # q /\ pc[p] \in {"syncing", "projecting"} /\ local'[p] = local[p]
      BY <1>3
    <2>2. /\ LedgerBatch(local[p].batch)
          /\ \A s \in local[p].context : \E x \in Stored : home[x] = s /\ IsLedger(x)
      BY <2>1 DEF SyncReadsLedger
    <2> QED  BY <1>1, <1>b, <2>1, <2>2
  <1> QED  BY <1>6, <1>7, <1>8, <1>9, <1>10, <1>11, <1>12, <1>13, <1>d

\* A registered batch is stored, unless the attempt that registered it failed.
LEMMA RegisteredStored ==
    ASSUME EngineInv, NEW q \in Requests, NEW s \in Registering(q), sessions[q] = NoSession
    PROVE  \/ local[q].batch \subseteq Stored
           \/ \E t \in Requests \ {q} : sessions[t].status = "failed" /\ sessions[t].hash = Hash(q)
  <1>1. s \in Requests \ {q} /\ sessions[s].status # "none" /\ sessions[s].hash = Hash(q)
    BY DEF Registering
  <1>2. sessions[s].status \in {"completed", "failed"}
    BY <1>1 DEF EngineInv, EngineTypeOK, Session
  <1>3. Hash(q).batch = local[q].batch
    BY DEF Hash, ImportHash
  <1>4. CASE sessions[s].status = "failed"
    BY <1>1, <1>4
  <1>5. CASE sessions[s].status = "completed"
    <2>1. \/ sessions[s].hash.batch \subseteq Stored
          \/ \E t \in Requests : sessions[t].status = "failed" /\ sessions[t].hash = sessions[s].hash
      BY <1>1, <1>5 DEF EngineInv, ImportInv, CompletedStored
    <2> QED  BY <1>1, <1>3, <2>1 DEF NoSession
  <1> QED  BY <1>2, <1>4, <1>5

LEMMA EngineNext == EngineInv /\ [Next]_vars => EngineInv'
  <1> SUFFICES ASSUME EngineInv, [Next]_vars PROVE HomesCompleted' /\ ImportInv'
    BY EngineTypeNext DEF EngineInv
  <1>0. /\ pc \in [Requests -> Steps] /\ local \in [Requests -> Local]
        /\ sessions \in [Requests -> Session] /\ home \in [Records -> Requests \cup {Null}]
    BY DEF EngineInv, EngineTypeOK
  <1>t. EngineTypeOK
    BY DEF EngineInv
  <1>n. \A q \in Requests :
            pc[q] \in {"idle", "checking", "sorting", "storing", "failing", "syncing",
                       "projecting"} => sessions[q] = NoSession
    BY DEF EngineInv, ImportInv, NotYetCommitted, ImportSteps
  <1>b. \A q \in Requests :
            pc[q] \in {"checking", "sorting", "storing", "failing", "syncing", "projecting"} =>
                \E batch \in offered : local[q].batch \subseteq batch
    BY DEF EngineInv, ImportInv, BatchesOffered, ImportSteps
  <1>1. CASE UNCHANGED vars
    <2>1. Records' = Records /\ Stored' = Stored /\ UNCHANGED ivars
      BY <1>1 DEF Records, Stored, vars, ivars
    <2> QED  BY <2>1 DEF ivars, EngineInv, HomesCompleted, ImportInv, KeysOnce, BatchesOffered,
                NotYetCommitted, ImportedCompleted, BatchSorted, CompletedStored, OneSourceEach,
                SyncReadsLedger, Hash, ImportHash, Form, LedgerBatch, IsLedger,
                Sorted, FoundRegistered, Registering
  <1>2. ASSUME NEW q \in Requests, NEW kind \in {"csv", "live"}, NEW batch \in offered,
               NEW transform \in BOOLEAN, Receive(q, kind, batch, transform)
        PROVE  HomesCompleted' /\ ImportInv'
    <2>1. pc[q] = "idle" /\ pc' = [pc EXCEPT ![q] = "checking"] /\ UNCHANGED <<offered, home, sessions>>
      BY <1>2 DEF Receive, Goto, MayStart
    <2>2. pc'[q] = "checking" /\ sessions[q] = NoSession
      BY <1>0, <1>n, <2>1
    <2> DEFINE mine == [local[q] EXCEPT !.kind = kind, !.batch = batch,
                                        !.transform = transform, !.started = Started]
    <2>a. local' = [local EXCEPT ![q] = mine]
      BY <1>0, <1>2 DEF Receive
    <2>3. local' = [local EXCEPT ![q] = local'[q]] /\ local'[q].batch = batch
      <3>1. mine.batch = batch
        BY <1>0 DEF Local
      <3> HIDE DEF mine
      <3> QED  BY <1>0, <2>a, <3>1
    <2>4. pc' = [pc EXCEPT ![q] = pc'[q]]
      BY <2>1, <2>2
    <2>5. \E b \in offered : local'[q].batch \subseteq b
      BY <2>3
    <2> QED  BY <2>1, <2>2, <2>3, <2>4, <2>5, LocalStep
  <1>3. ASSUME NEW q \in Requests, SkipBatch(q) PROVE HomesCompleted' /\ ImportInv'
    <2>1. PICK s \in Latest(q) :
             LET homes == Homes(WithKeyOf(local[q].batch)) IN
             local' = [local EXCEPT ![q].duplicateOf = s,
                                    ![q].reused = IF homes = {} THEN {s} ELSE homes]
      BY <1>3 DEF SkipBatch
    <2>2. /\ pc[q] = "checking" /\ pc' = [pc EXCEPT ![q] = "imported"]
          /\ sessions' = [sessions EXCEPT ![q] = Row(q, "completed")]
          /\ UNCHANGED <<offered, home>>
      BY <1>3 DEF SkipBatch, Goto
    <2>3. pc'[q] = "imported" /\ sessions[q] = NoSession
      BY <1>0, <1>n, <2>2
    <2> DEFINE homes == Homes(WithKeyOf(local[q].batch))
               mine  == [local[q] EXCEPT !.duplicateOf = s,
                                         !.reused = IF homes = {} THEN {s} ELSE homes]
    <2>a. local' = [local EXCEPT ![q] = mine]
      BY <1>0, <2>1
    <2>4. /\ local' = [local EXCEPT ![q] = local'[q]]
          /\ local'[q].batch = local[q].batch /\ local'[q].kind = local[q].kind
      <3>1. mine.batch = local[q].batch /\ mine.kind = local[q].kind
        BY <1>0 DEF Local
      <3> HIDE DEF mine
      <3> QED  BY <1>0, <2>a, <3>1
    <2>5. Hash(q)' = Hash(q)
      BY <2>4 DEF Hash, ImportHash, Form
    <2>6. \/ local[q].batch \subseteq Stored
          \/ \E t \in Requests \ {q} : sessions[t].status = "failed" /\ sessions[t].hash = Hash(q)
      BY <2>1, <2>3, RegisteredStored DEF Latest
    <2>7. pc' = [pc EXCEPT ![q] = pc'[q]]
      BY <2>2, <2>3
    <2> QED  BY <2>2, <2>3, <2>4, <2>5, <2>6, <2>7, SessionStep
  <1>4. ASSUME NEW q \in Requests, FindNoBatch(q) PROVE HomesCompleted' /\ ImportInv'
    <2>1. /\ pc[q] = "checking" /\ pc' = [pc EXCEPT ![q] = "sorting"]
          /\ UNCHANGED <<offered, home, sessions, local>>
      BY <1>4 DEF FindNoBatch, Goto
    <2>2. /\ pc'[q] = "sorting" /\ sessions[q] = NoSession
          /\ \E batch \in offered : local[q].batch \subseteq batch
          /\ local' = [local EXCEPT ![q] = local'[q]]
      BY <1>0, <1>n, <1>b, <2>1
    <2>3. pc' = [pc EXCEPT ![q] = pc'[q]]
      BY <2>1, <2>2
    <2> QED  BY <2>1, <2>2, <2>3, LocalStep
  <1>5. ASSUME NEW q \in Requests, SortRecords(q) PROVE HomesCompleted' /\ ImportInv'
    <2>0. pc[q] = "sorting" /\ UNCHANGED <<offered, home, sessions>>
      BY <1>5 DEF SortRecords
    <2>n. sessions[q] = NoSession /\ \E batch \in offered : local[q].batch \subseteq batch
      BY <1>n, <1>b, <2>0
    <2>1. CASE Contradicted(local[q].batch)
      <3>1. pc' = [pc EXCEPT ![q] = "failing"] /\ local' = local
        BY <1>5, <2>1 DEF SortRecords, Goto
      <3>2. pc'[q] = "failing" /\ local' = [local EXCEPT ![q] = local'[q]]
        BY <1>0, <3>1
      <3>3. pc' = [pc EXCEPT ![q] = pc'[q]]
        BY <3>1, <3>2
      <3> QED  BY <2>0, <2>n, <3>1, <3>2, <3>3, LocalStep
    <2>2. CASE ~Contradicted(local[q].batch)
      <3>1. /\ pc' = [pc EXCEPT ![q] = "storing"]
            /\ local' = [local EXCEPT ![q].known = WithKeyOf(local[q].batch),
                                      ![q].reused = Homes(WithKeyOf(local[q].batch))]
        BY <1>5, <2>2 DEF SortRecords, Goto
      <3> DEFINE mine == [local[q] EXCEPT !.known = WithKeyOf(local[q].batch),
                                          !.reused = Homes(WithKeyOf(local[q].batch))]
      <3>a. local' = [local EXCEPT ![q] = mine]
        BY <1>0, <3>1
      <3>2. /\ pc'[q] = "storing" /\ local' = [local EXCEPT ![q] = local'[q]]
            /\ local'[q].batch = local[q].batch
            /\ local'[q].known = WithKeyOf(local[q].batch)
        <4>1. mine.batch = local[q].batch /\ mine.known = WithKeyOf(local[q].batch)
          BY <1>0 DEF Local
        <4> HIDE DEF mine
        <4> QED  BY <1>0, <3>1, <3>a, <4>1
      <3>3. pc' = [pc EXCEPT ![q] = pc'[q]]
        BY <3>1, <3>2
      <3>4. WithKeyOf(local[q].batch) \subseteq Stored
        BY DEF WithKeyOf
      <3>5. \A x \in WithKeyOf(local[q].batch) \cup local[q].batch, y \in local[q].batch :
                CanonicalKey[x] = CanonicalKey[y] => x = y
        BY <2>2 DEF Contradicted
      <3>6. Sorted(q)'
        BY <2>0, <3>2, <3>4, <3>5, StoredStays DEF Sorted
      <3> QED  BY <2>0, <2>n, <3>2, <3>3, <3>6, LocalStep
    <2> QED  BY <2>1, <2>2
  <1>6. ASSUME NEW q \in Requests, StoreRecords(q) PROVE HomesCompleted' /\ ImportInv'
    <2>0. /\ pc[q] = "storing" /\ KeysFree(Pending(q)) /\ offered' = offered
          /\ home' = [r \in Records |-> IF r \in Pending(q) THEN q ELSE home[r]]
          /\ sessions' = [sessions EXCEPT ![q] = Row(q, "completed")]
          /\ local' = [local EXCEPT ![q].stored = (Pending(q) # {})]
          /\ pc' = [pc EXCEPT ![q] = "imported"]
      BY <1>6 DEF StoreRecords, Goto
    <2>1. sessions[q] = NoSession /\ \E batch \in offered : local[q].batch \subseteq batch
      BY <1>n, <1>b, <2>0
    <2>2. /\ local[q].known \subseteq Stored
          /\ \A x \in local[q].known \cup local[q].batch, y \in local[q].batch :
              CanonicalKey[x] = CanonicalKey[y] => x = y
      BY <2>0 DEF EngineInv, ImportInv, BatchSorted, Sorted
    <2>3. Pending(q) \subseteq local[q].batch
      BY DEF Pending
    <2>4. \A x \in Pending(q), y \in Pending(q) \cup Stored :
              CanonicalKey[x] = CanonicalKey[y] => x = y /\ y \notin Stored
      <3>1. \A x \in Pending(q), y \in Stored : CanonicalKey[x] # CanonicalKey[y]
        BY <2>0 DEF KeysFree, WithKeyOf
      <3> QED  BY <2>2, <2>3, <3>1
    <2>5. local[q].batch \subseteq Stored \cup Pending(q)
      BY <2>2 DEF Pending
    <2>6. /\ pc'[q] = "imported" /\ local' = [local EXCEPT ![q] = local'[q]]
          /\ local'[q].batch = local[q].batch /\ local'[q].kind = local[q].kind
      BY <1>0, <2>0 DEF Local
    <2>7. Hash(q)' = Hash(q)
      BY <2>6 DEF Hash, ImportHash, Form
    <2>8. pc' = [pc EXCEPT ![q] = pc'[q]]
      BY <2>0, <2>6
    <2> DEFINE records == Pending(q)
    <2> HIDE DEF records
    <2> QED  BY <2>0, <2>1, <2>3, <2>4, <2>5, <2>6, <2>7, <2>8, StoreStep
  <1>7. ASSUME NEW q \in Requests, ImportFails(q) PROVE HomesCompleted' /\ ImportInv'
    <2>1. /\ pc[q] \in {"checking", "storing"} /\ pc' = [pc EXCEPT ![q] = "failing"]
          /\ UNCHANGED <<offered, home, sessions, local>>
      BY <1>7 DEF ImportFails, Goto
    <2>2. /\ pc'[q] = "failing" /\ sessions[q] = NoSession
          /\ \E batch \in offered : local[q].batch \subseteq batch
          /\ local' = [local EXCEPT ![q] = local'[q]]
      BY <1>0, <1>n, <1>b, <2>1
    <2>3. pc' = [pc EXCEPT ![q] = pc'[q]]
      BY <2>1, <2>2
    <2> QED  BY <2>1, <2>2, <2>3, LocalStep
  <1>8. ASSUME NEW q \in Requests, RecordFailure(q) PROVE HomesCompleted' /\ ImportInv'
    <2>1. /\ pc[q] = "failing" /\ UNCHANGED <<offered, home>>
          /\ pc' = [pc EXCEPT ![q] = "done"] /\ local' = [local EXCEPT ![q] = NoLocal]
          /\ sessions' = sessions \/ sessions' = [sessions EXCEPT ![q] = Row(q, "failed")]
      BY <1>8 DEF RecordFailure, Answer, Goto
    <2>2. /\ pc'[q] = "done" /\ sessions[q] = NoSession
          /\ local' = [local EXCEPT ![q] = local'[q]]
      BY <1>0, <1>n, <2>1
    <2>3. pc' = [pc EXCEPT ![q] = pc'[q]]
      BY <2>1, <2>2
    <2>4. CASE sessions' = sessions
      BY <2>1, <2>2, <2>3, <2>4, LocalStep DEF ImportSteps
    <2>5. CASE sessions' = [sessions EXCEPT ![q] = Row(q, "failed")]
      BY <2>1, <2>2, <2>3, <2>5, SessionStep
    <2> QED  BY <2>1, <2>4, <2>5
  <1>9. ASSUME NEW q \in Requests, AnswerImport(q) \/ Transform(q) \/ Abandon(q)
        PROVE  HomesCompleted' /\ ImportInv'
    <2>1. /\ pc' = [pc EXCEPT ![q] = "done"] /\ local' = [local EXCEPT ![q] = NoLocal]
          /\ UNCHANGED <<offered, home, sessions>>
      BY <1>9 DEF AnswerImport, Transform, Abandon, Answer, Goto
    <2>2. pc'[q] = "done" /\ local' = [local EXCEPT ![q] = local'[q]]
      BY <1>0, <2>1
    <2>3. pc' = [pc EXCEPT ![q] = pc'[q]]
      BY <2>1, <2>2
    <2> QED  BY <2>1, <2>2, <2>3, LocalStep DEF ImportSteps
  <1>10. ASSUME NEW q \in Requests, NEW S \in SUBSET Requests,
                ContinueImport(q) \/ PostTransformation(q, S)
         PROVE  HomesCompleted' /\ ImportInv'
    <2>1. pc' = [pc EXCEPT ![q] = "transforming"] /\ UNCHANGED <<offered, home, sessions>>
      BY <1>10 DEF ContinueImport, PostTransformation, Goto
    <2>2. pc'[q] = "transforming"
      BY <1>0, <2>1
    <2>3. local' = [local EXCEPT ![q] = local'[q]]
      BY <1>0, <1>10 DEF ContinueImport, PostTransformation, Local
    <2>4. pc' = [pc EXCEPT ![q] = pc'[q]]
      BY <2>1, <2>2
    <2> QED  BY <2>1, <2>2, <2>3, <2>4, LocalStep DEF ImportSteps
  <1>12. ASSUME NEW q \in Requests, NEW batch \in offered, SyncCompare(q, batch)
         PROVE  HomesCompleted' /\ ImportInv'
    <2> DEFINE known == WithKeyOf(batch)
               new   == {r \in batch : \A x \in known : CanonicalKey[x] # CanonicalKey[r]}
    <2>0. pc[q] = "idle" /\ LedgerBatch(batch) /\ UNCHANGED <<offered, home, sessions>>
      BY <1>12 DEF SyncCompare, MayStart
    <2>1. CASE Contradicted(batch) \/ new = {}
      <3>1. pc' = [pc EXCEPT ![q] = "done"] /\ local' = [local EXCEPT ![q] = NoLocal]
        BY <1>12, <2>1 DEF SyncCompare, Answer, Goto
      <3>2. pc'[q] = "done" /\ local' = [local EXCEPT ![q] = local'[q]]
        BY <1>0, <3>1
      <3>3. pc' = [pc EXCEPT ![q] = pc'[q]]
        BY <3>1, <3>2
      <3> QED  BY <2>0, <3>2, <3>3, LocalStep DEF ImportSteps
    <2>2. CASE ~(Contradicted(batch) \/ new = {})
      <3>1. /\ pc' = [pc EXCEPT ![q] = "syncing"]
            /\ local' = [local EXCEPT ![q].kind = "sync", ![q].batch = new,
                              ![q].context = Homes(known), ![q].started = Started]
        BY <1>12, <2>2 DEF SyncCompare, Goto
      <3> DEFINE mine == [local[q] EXCEPT !.kind = "sync", !.batch = new,
                                          !.context = Homes(known), !.started = Started]
      <3>a. local' = [local EXCEPT ![q] = mine]
        BY <1>0, <3>1
      <3>2. /\ pc'[q] = "syncing" /\ local' = [local EXCEPT ![q] = local'[q]]
            /\ local'[q].batch = new /\ local'[q].context = Homes(known)
        <4>1. mine.batch = new /\ mine.context = Homes(known)
          BY <1>0 DEF Local
        <4> HIDE DEF mine
        <4> QED  BY <1>0, <3>1, <3>a, <4>1
      <3>3. pc' = [pc EXCEPT ![q] = pc'[q]]
        BY <3>1, <3>2
      <3>4. sessions[q] = NoSession
        BY <1>n, <2>0
      <3>5. LedgerBatch(new) /\ new \subseteq batch
        BY <2>0 DEF LedgerBatch
      <3>6. \A s \in Homes(known) : \E x \in Stored : home[x] = s /\ IsLedger(x)
        <4>1. \A x \in known : x \in Stored /\ x \in batch
          BY <2>2 DEF WithKeyOf, Contradicted
        <4> QED  BY <2>0, <4>1 DEF Homes, LedgerBatch
      <3> HIDE DEF known, new
      <3>7. \E b \in offered : local'[q].batch \subseteq b
        BY <3>2, <3>5
      <3> QED  BY <2>0, <3>2, <3>3, <3>4, <3>5, <3>6, <3>7, LocalStep
    <2> QED  BY <2>1, <2>2
  <1>13. ASSUME NEW q \in Requests, SyncImport(q) PROVE HomesCompleted' /\ ImportInv'
    <2> DEFINE known == IF Registering(q) = {} THEN WithKeyOf(local[q].batch) ELSE local[q].batch
    <2>0. /\ pc[q] = "syncing" /\ (Registering(q) = {} => ~Contradicted(local[q].batch))
          /\ pc' = [pc EXCEPT ![q] = "projecting"] /\ local' = [local EXCEPT ![q].known = known]
          /\ UNCHANGED <<offered, home, sessions>>
      BY <1>13 DEF SyncImport, Goto
    <2>1. sessions[q] = NoSession /\ \E batch \in offered : local[q].batch \subseteq batch
      BY <1>n, <1>b, <2>0
    <2> HIDE DEF known
    <2>2. /\ pc'[q] = "projecting" /\ local' = [local EXCEPT ![q] = local'[q]]
          /\ local'[q].batch = local[q].batch /\ local'[q].kind = local[q].kind
          /\ local'[q].context = local[q].context /\ local'[q].known = known
      BY <1>0, <2>0 DEF Local
    <2>3. pc' = [pc EXCEPT ![q] = pc'[q]]
      BY <2>0, <2>2
    <2>4. Registering(q)' = Registering(q)
      BY <2>0, <2>2 DEF Registering, Hash, ImportHash, Form
    <2>5. ASSUME Registering(q) = {} PROVE Sorted(q)'
      <3>1. known \subseteq Stored /\ known = WithKeyOf(local[q].batch)
        BY <2>5 DEF known, WithKeyOf
      <3>2. \A x \in known \cup local[q].batch, y \in local[q].batch :
                CanonicalKey[x] = CanonicalKey[y] => x = y
        BY <2>0, <2>5, <3>1 DEF Contradicted
      <3> QED  BY <2>0, <2>2, <3>1, <3>2, StoredStays DEF Sorted
    <2>6. ASSUME Registering(q) # {} PROVE FoundRegistered(q)'
      BY <2>2, <2>4, <2>6 DEF FoundRegistered, known
    <2>7. Sorted(q)' \/ FoundRegistered(q)'
      BY <2>5, <2>6
    <2>8. /\ LedgerBatch(local'[q].batch)
          /\ \A s \in local'[q].context : \E x \in Stored : home[x] = s /\ IsLedger(x)
      BY <2>0, <2>2 DEF EngineInv, ImportInv, SyncReadsLedger
    <2> QED  BY <2>0, <2>1, <2>2, <2>3, <2>7, <2>8, LocalStep
  <1>14. ASSUME NEW q \in Requests, NEW r \in Records, CheckPayload(q, r)
         PROVE  HomesCompleted' /\ ImportInv'
    <2> DEFINE found == FoundFor(r, Selected(q) \cup Context(q), facts)
    <2>0. /\ pc[q] \in {"transforming", "projecting"} /\ pc' = pc
          /\ local' = [local EXCEPT ![q].looked = @ \cup {r}, ![q].seen = @ \cup found]
          /\ UNCHANGED <<offered, home, sessions>>
      BY <1>14 DEF CheckPayload
    <2> HIDE DEF found
    <2>1. pc'[q] = pc[q] /\ pc' = [pc EXCEPT ![q] = pc'[q]]
      BY <1>0, <2>0
    <2> DEFINE mine == [local[q] EXCEPT !.looked = @ \cup {r}, !.seen = @ \cup found]
    <2>a. local' = [local EXCEPT ![q] = mine]
      BY <1>0, <2>0
    <2>b. /\ mine.batch = local[q].batch /\ mine.kind = local[q].kind
          /\ mine.context = local[q].context /\ mine.known = local[q].known
      BY <1>0 DEF Local
    <2> HIDE DEF mine
    <2>2. /\ local' = [local EXCEPT ![q] = local'[q]]
          /\ local'[q].batch = local[q].batch /\ local'[q].kind = local[q].kind
          /\ local'[q].context = local[q].context /\ local'[q].known = local[q].known
      BY <1>0, <2>a, <2>b
    <2>3. Registering(q)' = Registering(q)
      BY <2>0, <2>2 DEF Registering, Hash, ImportHash, Form
    <2>4. pc[q] = "projecting" => Sorted(q)' \/ FoundRegistered(q)'
      <3>1. pc[q] = "projecting" => Sorted(q) \/ FoundRegistered(q)
        BY DEF EngineInv, ImportInv, BatchSorted
      <3>2. Sorted(q) => Sorted(q)'
        BY <2>0, <2>2, StoredStays DEF Sorted
      <3>3. FoundRegistered(q) => FoundRegistered(q)'
        BY <2>2, <2>3 DEF FoundRegistered
      <3> QED  BY <3>1, <3>2, <3>3
    <2>5. pc[q] = "projecting" =>
              /\ sessions[q] = NoSession /\ \E batch \in offered : local[q].batch \subseteq batch
              /\ LedgerBatch(local'[q].batch)
              /\ \A s \in local'[q].context : \E x \in Stored : home[x] = s /\ IsLedger(x)
      BY <1>n, <1>b, <2>2 DEF EngineInv, ImportInv, SyncReadsLedger
    <2> QED  BY <2>0, <2>1, <2>2, <2>4, <2>5, LocalStep DEF ImportSteps
  <1>15. ASSUME NEW q \in Requests, SyncCommit(q) PROVE HomesCompleted' /\ ImportInv'
    <2>0. /\ pc[q] = "projecting" /\ KeysFree(Pending(q)) /\ offered' = offered
          /\ home' = [r \in Records |-> IF r \in Pending(q) THEN q ELSE home[r]]
          /\ sessions' = [sessions EXCEPT ![q] = Row(q, "completed")]
          /\ pc' = [pc EXCEPT ![q] = "done"]
          /\ local' = [local EXCEPT ![q] = NoLocal]
      BY <1>15 DEF SyncCommit, Answer, Goto
    <2>1. sessions[q] = NoSession /\ \E batch \in offered : local[q].batch \subseteq batch
      BY <1>n, <1>b, <2>0
    <2>2. pc'[q] = "done" /\ local' = [local EXCEPT ![q] = local'[q]]
      BY <1>0, <2>0
    <2>3. pc' = [pc EXCEPT ![q] = pc'[q]]
      BY <2>0, <2>2
    <2>4. Pending(q) \subseteq local[q].batch
      BY DEF Pending
    <2>5. Sorted(q) \/ FoundRegistered(q)
      BY <2>0 DEF EngineInv, ImportInv, BatchSorted
    <2>6. FoundRegistered(q) => Pending(q) = {}
      BY DEF FoundRegistered, Pending
    <2>7. \A x \in Pending(q), y \in Pending(q) \cup Stored :
              CanonicalKey[x] = CanonicalKey[y] => x = y /\ y \notin Stored
      <3>1. \A x \in Pending(q), y \in Stored : CanonicalKey[x] # CanonicalKey[y]
        BY <2>0 DEF KeysFree, WithKeyOf
      <3> QED  BY <2>4, <2>5, <2>6, <3>1 DEF Sorted
    <2>8. \/ local[q].batch \subseteq Stored \cup Pending(q)
          \/ \E t \in Requests \ {q} : sessions[t].status = "failed" /\ sessions[t].hash = Hash(q)
      <3>1. CASE FoundRegistered(q)
        BY <2>1, <3>1, RegisteredStored DEF FoundRegistered
      <3>2. CASE Sorted(q)
        BY <3>2 DEF Sorted, Pending
      <3> QED  BY <2>5, <3>1, <3>2
    <2> DEFINE records == Pending(q)
    <2> HIDE DEF records
    <2> QED  BY <2>0, <2>1, <2>2, <2>3, <2>4, <2>7, <2>8, StoreStep
  <1> QED
    BY <1>1, <1>2, <1>3, <1>4, <1>5, <1>6, <1>7, <1>8, <1>9, <1>10, <1>12, <1>13, <1>14, <1>15
       DEF Next, Import

LEMMA EngineAlways == Spec => []EngineInv
  BY EngineInit, EngineNext, PTL DEF Spec

\* A record that is stored keeps its place.
LEMMA HomesStay ==
    ASSUME EngineInv, [Next]_vars
    PROVE  UNCHANGED offered /\ \A r \in Stored : r \in Stored' /\ home'[r] = home[r]
  <1>0. home \in [Records -> Requests \cup {Null}]
    BY DEF EngineInv, EngineTypeOK
  <1>1. SUFFICES offered' = offered /\ \A r \in Stored : home'[r] = home[r]
    BY <1>1 DEF Stored, Records
  <1>2. ASSUME NEW q \in Requests, StoreRecords(q) \/ SyncCommit(q)
        PROVE  offered' = offered /\ \A r \in Stored : home'[r] = home[r]
    <2>1. /\ offered' = offered /\ KeysFree(Pending(q))
          /\ home' = [r \in Records |-> IF r \in Pending(q) THEN q ELSE home[r]]
      BY <1>2 DEF StoreRecords, SyncCommit
    <2>2. \A r \in Stored : r \notin Pending(q)
      BY <2>1 DEF KeysFree, WithKeyOf
    <2> QED  BY <2>1, <2>2 DEF Stored
  <1>4. CASE UNCHANGED <<offered, home>>
    BY <1>4
  <1>5. ASSUME NEW q \in Requests, Import(q), ~StoreRecords(q)
        PROVE  UNCHANGED <<offered, home>>
    BY <1>5 DEF Import, Receive, SkipBatch, FindNoBatch, SortRecords, ImportFails, RecordFailure
  <1>6. ASSUME NEW q \in Requests,
               \/ AnswerImport(q) \/ ContinueImport(q) \/ Transform(q) \/ Abandon(q)
               \/ SyncImport(q) \/ \E r \in Records : CheckPayload(q, r)
               \/ \E S \in SUBSET Requests : PostTransformation(q, S)
               \/ \E batch \in offered : SyncCompare(q, batch)
        PROVE  UNCHANGED <<offered, home>>
    BY <1>6 DEF AnswerImport, ContinueImport, PostTransformation, Transform, SyncCompare, Abandon,
                SyncImport, CheckPayload
  <1>7. CASE UNCHANGED vars
    BY <1>4, <1>7 DEF vars, ivars
  <1> QED  BY <1>2, <1>4, <1>5, <1>6, <1>7 DEF Next

\* An import that succeeds leaves every record of its batch stored with the contents it
\* was delivered with, unless a failed attempt registered the batch (ImportService).
THEOREM AnsweredStored == Spec => []AnsweredBatchStored
  <1>1. EngineInv => AnsweredBatchStored
    <2> SUFFICES ASSUME EngineInv, NEW q \in Requests, pc[q] = "imported"
                 PROVE  \/ local[q].batch \subseteq Stored
                        \/ \E s \in Requests :
                            sessions[s].status = "failed" /\ sessions[s].hash = Hash(q)
      BY DEF AnsweredBatchStored
    <2>1. sessions[q].status = "completed" /\ sessions[q].hash = Hash(q)
      BY DEF EngineInv, ImportInv, ImportedCompleted
    <2>2. Hash(q).batch = local[q].batch
      BY DEF Hash, ImportHash
    <2> QED  BY <2>1, <2>2 DEF EngineInv, ImportInv, CompletedStored
  <1> QED  BY <1>1, EngineAlways, PTL

\* A stored record stays where it is, and no other record with its key is ever stored
\* (uq_raw_import_canonical_key and the comparison before it).
THEOREM RecordsStay == Spec => StoredRecordsStay
  <1> DEFINE Stays == \A r \in Stored :
        /\ home'[r] = home[r]
        /\ \A x \in Records : home'[x] # Null /\ CanonicalKey[x] = CanonicalKey[r] => x = r
  <1>1. EngineInv /\ EngineInv' /\ [Next]_vars => [Stays]_vars
    <2> SUFFICES ASSUME EngineInv, EngineInv', [Next]_vars PROVE Stays
      OBVIOUS
    <2>1. offered' = offered /\ \A r \in Stored : r \in Stored' /\ home'[r] = home[r]
      BY HomesStay
    <2>2. \A x, y \in Stored' : CanonicalKey[x] = CanonicalKey[y] => x = y
      BY DEF EngineInv, ImportInv, KeysOnce
    <2>3. \A x \in Records : home'[x] # Null => x \in Stored'
      BY <2>1 DEF Stored, Records
    <2> QED  BY <2>1, <2>2, <2>3
  <1> QED  BY <1>1, EngineAlways, PTL DEF Spec, StoredRecordsStay

-----------------------------------------------------------------------------
(* The import implements RecordStore.                                      *)

\* A session row that is committed makes its hash known, for its status alone.
LEMMA HashesGrow ==
    ASSUME EngineTypeOK, NEW q \in Requests, sessions[q] = NoSession,
           NEW status \in {"completed", "failed"},
           sessions' = [sessions EXCEPT ![q] = Row(q, status)],
           NEW other \in {"completed", "failed"}
    PROVE  Hashes(other)' = IF other = status THEN Hashes(other) \cup {Hash(q)} ELSE Hashes(other)
  <1>1. sessions' \in [Requests -> Session] /\ sessions'[q] = Row(q, status)
        /\ \A p \in Requests \ {q} : sessions'[p] = sessions[p]
    BY RowType DEF EngineTypeOK
  <1>2. sessions[q].status \notin {"completed", "failed"}
    BY DEF NoSession
  <1>3. Row(q, status).status = status /\ Row(q, status).hash = Hash(q)
    BY DEF Row
  <1>4. CASE other = status
    BY <1>1, <1>2, <1>3, <1>4 DEF Hashes
  <1>5. CASE other # status
    BY <1>1, <1>2, <1>3, <1>5 DEF Hashes
  <1> QED  BY <1>4, <1>5

LEMMA HashesStay ==
    ASSUME sessions' = sessions, NEW status
    PROVE  Hashes(status)' = Hashes(status)
  BY DEF Hashes

\* What registers a batch has its hash among the known ones.
LEMMA RegisteringIsKnown ==
    ASSUME EngineTypeOK, NEW q \in Requests, Registering(q) # {}
    PROVE  Hash(q) \in Hashes("completed") \cup Hashes("failed")
  <1>1. PICK s \in Requests : sessions[s].status # "none" /\ sessions[s].hash = Hash(q)
    BY DEF Registering
  <1>2. sessions[s].status \in {"completed", "failed"}
    BY <1>1 DEF EngineTypeOK, Session
  <1> QED  BY <1>1, <1>2 DEF Hashes

\* A batch that is committed with a session of its own is one step of the store.
LEMMA CommitKeeps ==
    ASSUME EngineInv, EngineInv', NEW q \in Requests, NEW records \in SUBSET Records,
           sessions[q] = NoSession, offered' = offered,
           home' = [r \in Records |-> IF r \in records THEN q ELSE home[r]],
           sessions' = [sessions EXCEPT ![q] = Row(q, "completed")],
           Stored \cup records = Stored \cup local[q].batch
    PROVE  Store!Keep(Hash(q))
  <1>1. Stored' = Stored \cup records
    BY NullIsNoRequest DEF Stored, Records
  <1>2. HashOf(Hash(q)) = local[q].batch
    BY DEF HashOf, Hash, ImportHash
  <1>3. Hashes("completed")' = Hashes("completed") \cup {Hash(q)}
        /\ Hashes("failed")' = Hashes("failed")
    BY HashesGrow DEF EngineInv
  <1>4. Store!KeysOnce(Stored')
    BY DEF EngineInv, ImportInv, KeysOnce, Store!KeysOnce, Key
  <1> QED  BY <1>1, <1>2, <1>3, <1>4 DEF Store!Keep

LEMMA StepImplementsStore == EngineInv /\ EngineInv' /\ [Next]_vars => [Store!Next]_(Store!vars)
  <1> SUFFICES ASSUME EngineInv, EngineInv', [Next]_vars
               PROVE  Store!Next \/ UNCHANGED <<Stored, Hashes("completed"), Hashes("failed")>>
    BY DEF Store!vars
  <1> USE DEF EngineInv
  <1>1. ASSUME UNCHANGED <<offered, home, sessions>>
        PROVE  UNCHANGED <<Stored, Hashes("completed"), Hashes("failed")>>
    BY <1>1, StoredStays, HashesStay
  <1>2. ASSUME NEW q \in Requests, Store!Keep(Hash(q)) \/ Store!Skip(Hash(q)) \/ Store!Fail(Hash(q))
        PROVE  Store!Next
    <2>1. Hash(q) \in Hashes("completed")' \cup Hashes("failed")'
      BY <1>2 DEF Store!Keep, Store!Skip, Store!Fail
    <2> QED  BY <1>2, <2>1 DEF Store!Next
  <1>3. ASSUME NEW q \in Requests, pc[q] \in {"checking", "storing", "failing", "projecting"}
        PROVE  sessions[q] = NoSession
    BY <1>3 DEF ImportInv, NotYetCommitted, ImportSteps
  <1>4. ASSUME NEW q \in Requests, SkipBatch(q) PROVE Store!Next
    <2>1. /\ pc[q] = "checking" /\ Registering(q) # {} /\ UNCHANGED <<offered, home>>
          /\ sessions' = [sessions EXCEPT ![q] = Row(q, "completed")]
      BY <1>4 DEF SkipBatch, Latest
    <2>2. Hashes("completed")' = Hashes("completed") \cup {Hash(q)}
          /\ Hashes("failed")' = Hashes("failed")
      BY <1>3, <2>1, HashesGrow
    <2> QED  BY <1>2, <2>1, <2>2, RegisteringIsKnown, StoredStays DEF Store!Skip
  <1>5. ASSUME NEW q \in Requests, Sorted(q), StoreRecords(q) \/ SyncCommit(q)
        PROVE  Store!Next
    <2>1. /\ pc[q] \in {"storing", "projecting"} /\ offered' = offered
          /\ home' = [r \in Records |-> IF r \in Pending(q) THEN q ELSE home[r]]
          /\ sessions' = [sessions EXCEPT ![q] = Row(q, "completed")]
      BY <1>5 DEF StoreRecords, SyncCommit
    <2>3. Stored \cup Pending(q) = Stored \cup local[q].batch
      BY <1>5 DEF Sorted, Pending
    <2>4. Pending(q) \in SUBSET Records
      BY <2>1 DEF Pending, ImportInv, BatchesOffered, Records, ImportSteps
    <2>5. Store!Keep(Hash(q))
      BY <1>3, <2>1, <2>3, <2>4, CommitKeeps
    <2> QED  BY <1>2, <2>5
  <1>6. ASSUME NEW q \in Requests, RecordFailure(q)
        PROVE  Store!Next \/ UNCHANGED <<Stored, Hashes("completed"), Hashes("failed")>>
    <2>1. /\ pc[q] = "failing" /\ UNCHANGED <<offered, home>>
          /\ sessions' = sessions \/ sessions' = [sessions EXCEPT ![q] = Row(q, "failed")]
      BY <1>6 DEF RecordFailure
    <2>2. CASE sessions' = sessions
      BY <1>1, <2>1, <2>2
    <2>3. CASE sessions' = [sessions EXCEPT ![q] = Row(q, "failed")]
      <3>1. Hashes("failed")' = Hashes("failed") \cup {Hash(q)}
            /\ Hashes("completed")' = Hashes("completed")
        BY <1>3, <2>1, <2>3, HashesGrow
      <3> QED  BY <1>2, <2>1, <3>1, StoredStays DEF Store!Fail
    <2> QED  BY <2>1, <2>2, <2>3
  <1>7. ASSUME NEW q \in Requests, FoundRegistered(q), SyncCommit(q) PROVE Store!Next
    <2>1. /\ pc[q] = "projecting" /\ offered' = offered
          /\ home' = [r \in Records |-> IF r \in Pending(q) THEN q ELSE home[r]]
          /\ sessions' = [sessions EXCEPT ![q] = Row(q, "completed")]
      BY <1>7 DEF SyncCommit
    <2>2. Pending(q) = {} /\ Registering(q) # {}
      BY <1>7 DEF FoundRegistered, Pending
    <2>3. home' = home
      BY <2>1, <2>2 DEF EngineTypeOK
    <2>4. Hashes("completed")' = Hashes("completed") \cup {Hash(q)}
          /\ Hashes("failed")' = Hashes("failed")
      BY <1>3, <2>1, HashesGrow
    <2> QED  BY <1>2, <2>1, <2>2, <2>3, <2>4, RegisteringIsKnown, StoredStays DEF Store!Skip
  <1>8. ASSUME NEW q \in Requests, Import(q), ~SkipBatch(q), ~StoreRecords(q), ~RecordFailure(q)
        PROVE  UNCHANGED <<offered, home, sessions>>
    BY <1>8 DEF Import, Receive, FindNoBatch, SortRecords, ImportFails
  <1>9. ASSUME NEW q \in Requests,
               \/ AnswerImport(q) \/ ContinueImport(q) \/ Transform(q) \/ Abandon(q)
               \/ SyncImport(q) \/ \E r \in Records : CheckPayload(q, r)
               \/ \E S \in SUBSET Requests : PostTransformation(q, S)
               \/ \E batch \in offered : SyncCompare(q, batch)
        PROVE  UNCHANGED <<offered, home, sessions>>
    BY <1>9 DEF AnswerImport, ContinueImport, PostTransformation, Transform, SyncCompare, Abandon,
                SyncImport, CheckPayload
  <1>10. CASE UNCHANGED vars
    BY <1>1, <1>10 DEF vars, ivars
  <1>11. ASSUME NEW q \in Requests, StoreRecords(q) \/ SyncCommit(q)
         PROVE  \/ Sorted(q)
                \/ FoundRegistered(q) /\ SyncCommit(q)
    BY <1>11 DEF StoreRecords, SyncCommit, ImportInv, BatchSorted
  <1> QED  BY <1>1, <1>4, <1>5, <1>6, <1>7, <1>8, <1>9, <1>10, <1>11 DEF Next

\* The import, with its attempts that race and fail between the look-up of the hash and
\* the commit, implements the store that takes a batch in one step (ImportService).
THEOREM ImportImplementsStore == Spec => ImplementsStore
  <1>1. Init => Store!Init
    <2> SUFFICES ASSUME Init PROVE Store!Init
      OBVIOUS
    <2>1. Stored = {}
      BY DEF Init, ImportInit, Stored
    <2>2. Hashes("completed") = {} /\ Hashes("failed") = {}
      BY DEF Init, ImportInit, Hashes, NoSession
    <2> QED  BY <2>1, <2>2 DEF Store!Init
  <1> QED  BY <1>1, StepImplementsStore, EngineAlways, PTL DEF Spec, ImplementsStore, Store!Spec

\* The store keeps its promise: what was registered is there unless a failure registered
\* it, and no two records have one key ...
LEMMA StoreIsSound == Store!Spec => []Store!StoreSound
  <1>1. Store!Init => Store!StoreSound
    BY DEF Store!Init, Store!StoreSound, Store!KeysOnce
  <1>2. Store!StoreSound /\ [Store!Next]_(Store!vars) => Store!StoreSound'
    <2> SUFFICES ASSUME Store!StoreSound, [Store!Next]_(Store!vars) PROVE Store!StoreSound'
      OBVIOUS
    <2> USE DEF Store!StoreSound
    <2>1. ASSUME NEW hash, Store!Keep(hash) PROVE Store!StoreSound'
      BY <2>1 DEF Store!Keep, Store!KeysOnce
    <2>2. ASSUME NEW hash, Store!Skip(hash) \/ Store!Fail(hash) PROVE Store!StoreSound'
      BY <2>2 DEF Store!Skip, Store!Fail, Store!KeysOnce
    <2>3. CASE UNCHANGED Store!vars
      BY <2>3 DEF Store!vars, Store!KeysOnce
    <2> QED  BY <2>1, <2>2, <2>3 DEF Store!Next
  <1> QED  BY <1>1, <1>2, PTL DEF Store!Spec

\* ... and so does the import.
THEOREM ImportKeepsPromise == Spec => []Store!StoreSound
  BY ImportImplementsStore, StoreIsSound, PTL DEF ImplementsStore

-----------------------------------------------------------------------------
(* Visits.                                                                 *)

\* The two records of a pair, and everything a run knows with their reference.
LEMMA PairOfTwo ==
    ASSUME NEW group, IsFiniteSet(group), IsPair(group),
           \A x \in group : IsLedger(x)
    PROVE  /\ SpendOf(group) \in group /\ ReceiveOf(group) \in group
           /\ SpendAndReceive(SpendOf(group), ReceiveOf(group))
           /\ group = {SpendOf(group), ReceiveOf(group)}
  <1>1. PICK x \in group : Raw[x].type = "spend"
    BY DEF IsPair
  <1>2. PICK y \in group : Raw[y].type = "receive"
    BY DEF IsPair
  <1>3. SpendOf(group) \in group /\ Raw[SpendOf(group)].type = "spend"
    BY <1>1 DEF SpendOf
  <1>4. ReceiveOf(group) \in group /\ Raw[ReceiveOf(group)].type = "receive"
    BY <1>2 DEF ReceiveOf
  <1>5. SpendOf(group) # ReceiveOf(group)
    BY <1>3, <1>4
  <1> DEFINE a == SpendOf(group)
             b == ReceiveOf(group)
  <1>6. group = {a, b}
    <2>1. IsFiniteSet({a, b}) /\ Cardinality({a, b}) = 2
      <3>1. IsFiniteSet({}) /\ Cardinality({}) = 0
        BY FS_EmptySet
      <3>2. IsFiniteSet({a}) /\ Cardinality({a}) = 1
        BY FS_Singleton
      <3>3. b \notin {a} /\ {a} \cup {b} = {a, b}
        BY <1>5
      <3>4. IsFiniteSet({a} \cup {b}) /\ Cardinality({a} \cup {b}) = Cardinality({a}) + 1
        BY <3>2, <3>3, FS_AddElement
      <3> QED  BY <3>2, <3>3, <3>4
    <2>2. {a, b} \subseteq group /\ Cardinality(group) = 2
      BY <1>3, <1>4 DEF IsPair
    <2> QED  BY <2>1, <2>2, FS_Subset
  <1> QED  BY <1>3, <1>4, <1>6 DEF SpendAndReceive

LEMMA SpendOfTwo ==
    ASSUME NEW spend, NEW receive, SpendAndReceive(spend, receive)
    PROVE  SpendOf({spend, receive}) = spend /\ ReceiveOf({spend, receive}) = receive
  <1>1. \A x \in {spend, receive} : Raw[x].type = "spend" <=> x = spend
    BY DEF SpendAndReceive
  <1>2. \A x \in {spend, receive} : Raw[x].type = "receive" <=> x = receive
    BY DEF SpendAndReceive
  <1> QED  BY <1>1, <1>2 DEF SpendOf, ReceiveOf

\* The group of a record is the group of each of its members.
LEMMA GroupShared ==
    ASSUME NEW all, NEW r, NEW x \in LedgerGroup(r, all)
    PROVE  /\ LedgerGroup(x, all) = LedgerGroup(r, all)
           /\ x \in all /\ IsLedger(x)
  BY DEF LedgerGroup

LEMMA GroupHolds ==
    ASSUME NEW all, NEW r \in all, LedgerGroup(r, all) # {}
    PROVE  r \in LedgerGroup(r, all) /\ IsLedger(r)
  BY DEF LedgerGroup

LEMMA GroupOfMany ==
    ASSUME NEW all, NEW r, Cardinality(LedgerGroup(r, all)) > 1
    PROVE  LedgerGroup(r, all) # {}
  BY FS_EmptySet

\* What a visit is depends on the record and the records around it: one of a pair that
\* is an exchange, a reward, a trade, or nothing that is booked.
InExchange(r, all) ==
    LET group == LedgerGroup(r, all) IN
    /\ IsPair(group)
    /\ ValidExchange(SpendOf(group), ReceiveOf(group))

Rewarded(r, all) ==
    /\ ~(Cardinality(LedgerGroup(r, all)) > 1) /\ IsLedger(r)
    /\ ~(Raw[r].type = "trade" /\ r \in Findings(all).reconciled)
    /\ ~InternalMovement(r, Findings(all)) /\ IsReward(r)
    /\ ~(Raw[r].amount <= 0 \/ Code(r) = Absent \/ Raw[r].fee < 0 \/ Raw[r].fee >= Raw[r].amount)

Traded(r) == IsTrade(r) /\ ~IsLedger(r) /\ ValidTrade(r) /\ Raw[r].consistent

Reward(r) == Fact("reward", r, {r}, Code(r), Raw[r].amount - Raw[r].fee)

PassedOver(r, all, effect) ==
    /\ InExchange(r, all)
    /\ r = SpendOf(LedgerGroup(r, all))
    /\ effect = Effect({}, {})

Alone(r, all, effect) ==
    /\ ~InExchange(r, all)
    /\ \E verdict \in {"conflict", "review", "internal", "unsupported", "duplicate"} :
        /\ effect = Only(r, verdict)
        /\ verdict = "duplicate" => IsLedger(r) /\ r \in Findings(all).reconciled

VisitKind(r, all, stored, seen, before, effect) ==
    LET spend == SpendOf(LedgerGroup(r, all)) IN
    /\ Exchanged(r, all) =>
        effect = IF LegConflict(spend, r, seen) THEN Only(r, "conflict")
                 ELSE BookExchange(spend, r, before)
    /\ Rewarded(r, all) =>
        effect = Effect({Decision(r, Persisted(Reward(r), before), "reward")},
                        New({Reward(r)}, before))
    /\ Traded(r) =>
        effect = IF AssetConflict(r, stored) THEN Only(r, "conflict")
                 ELSE BookTrade(r, Persisted(TradeFact(r), before))
    /\ ~Exchanged(r, all) /\ ~Rewarded(r, all) /\ ~Traded(r) =>
        PassedOver(r, all, effect) \/ Alone(r, all, effect)

LEMMA VisitKinds ==
    ASSUME NEW all, IsFiniteSet(all), NEW r \in all, NEW stored, NEW seen, NEW before
    PROVE  VisitKind(r, all, stored, seen, before, Visit(r, Findings(all), stored, seen, before))
  <1> DEFINE found == Findings(all)
             group == LedgerGroup(r, all)
  <1> SUFFICES ASSUME NEW effect, effect = Visit(r, found, stored, seen, before)
               PROVE  VisitKind(r, all, stored, seen, before, effect)
    OBVIOUS
  <1>0. found.all = all
    BY DEF Findings
  <1>e. Exchanged(r, all) => Cardinality(group) > 1 /\ IsLedger(r)
    <2>1. Exchanged(r, all) => Cardinality(group) > 1
      BY DEF Exchanged, InExchange, IsPair
    <2> QED  BY <2>1, GroupOfMany, GroupHolds
  <1>i. InExchange(r, all) => Cardinality(group) > 1
    BY DEF InExchange, IsPair
  <1>1. CASE Cardinality(group) > 1
    <2>1. effect = VisitGroupMember(r, group, seen, before)
      BY <1>0, <1>1 DEF Visit
    <2>2. group # {} /\ r \in group /\ \A x \in group : IsLedger(x) /\ x \in all
      BY <1>1, GroupOfMany, GroupHolds, GroupShared
    <2>3. IsFiniteSet(group)
      BY <2>2, FS_Subset
    <2>n. ~Rewarded(r, all) /\ ~Traded(r)
      BY <1>1, <2>2 DEF Rewarded, Traded
    <2> HIDE DEF found
    <2>4. CASE ~InExchange(r, all)
      <3>1. effect = Only(r, "conflict") \/ effect = Only(r, "review")
        BY <2>1, <2>4 DEF VisitGroupMember, InExchange
      <3>2. Alone(r, all, effect)
        BY <2>4, <3>1 DEF Alone
      <3> QED  BY <2>4, <2>n, <3>2 DEF VisitKind, Exchanged, InExchange
    <2>6. CASE InExchange(r, all)
      <3>1. IsPair(group) /\ ValidExchange(SpendOf(group), ReceiveOf(group))
        BY <2>6 DEF InExchange
      <3>2. r = SpendOf(group) \/ r = ReceiveOf(group)
        BY <2>2, <2>3, <3>1, PairOfTwo
      <3>3. CASE r # ReceiveOf(group)
        <4>1. effect = Effect({}, {})
          BY <2>1, <3>1, <3>3 DEF VisitGroupMember
        <4> QED  BY <2>6, <2>n, <3>2, <3>3, <4>1 DEF VisitKind, Exchanged, InExchange, PassedOver
      <3>4. CASE r = ReceiveOf(group)
        <4>1. effect = IF LegConflict(SpendOf(group), r, seen) THEN Only(r, "conflict")
                       ELSE BookExchange(SpendOf(group), r, before)
          BY <2>1, <3>1, <3>4 DEF VisitGroupMember
        <4> QED  BY <2>6, <2>n, <3>4, <4>1 DEF VisitKind, Exchanged, InExchange
      <3> QED  BY <3>3, <3>4
    <2> QED  BY <2>4, <2>6
  <1>2. CASE ~(Cardinality(group) > 1) /\ IsLedger(r)
    <2>1. effect = VisitLedger(r, found, before)
      BY <1>0, <1>2 DEF Visit
    <2>n. ~Exchanged(r, all) /\ ~Traded(r)
      BY <1>e, <1>2 DEF Traded
    <2>2. CASE Raw[r].type = "trade" /\ r \in found.reconciled
      <3>1. Alone(r, all, effect) /\ ~Rewarded(r, all)
        BY <1>i, <1>2, <2>1, <2>2 DEF VisitLedger, Alone, Rewarded
      <3> QED  BY <2>n, <3>1 DEF VisitKind
    <2>3. CASE ~(Raw[r].type = "trade" /\ r \in found.reconciled) /\ InternalMovement(r, found)
      <3>1. Alone(r, all, effect) /\ ~Rewarded(r, all)
        BY <1>i, <1>2, <2>1, <2>3 DEF VisitLedger, Alone, Rewarded
      <3> QED  BY <2>n, <3>1 DEF VisitKind
    <2>4. CASE /\ ~(Raw[r].type = "trade" /\ r \in found.reconciled)
               /\ ~InternalMovement(r, found) /\ IsReward(r)
      <3>1. effect = VisitReward(r, before)
        BY <2>1, <2>4 DEF VisitLedger
      <3>2. CASE Rewarded(r, all)
        <4>1. effect = Effect({Decision(r, Persisted(Reward(r), before), "reward")},
                              New({Reward(r)}, before))
          BY <3>1, <3>2 DEF VisitReward, Reward, Rewarded
        <4> QED  BY <2>n, <3>2, <4>1 DEF VisitKind
      <3>3. CASE ~Rewarded(r, all)
        <4>1. effect = Only(r, "review")
          BY <1>2, <2>4, <3>1, <3>3 DEF VisitReward, Rewarded
        <4>2. Alone(r, all, effect)
          BY <1>i, <1>2, <4>1 DEF Alone
        <4> QED  BY <2>n, <3>3, <4>2 DEF VisitKind
      <3> QED  BY <3>2, <3>3
    <2>5. CASE /\ ~(Raw[r].type = "trade" /\ r \in found.reconciled)
               /\ ~InternalMovement(r, found) /\ ~IsReward(r)
      <3>1. effect = Only(r, "review") \/ effect = Only(r, "unsupported")
        BY <2>1, <2>5 DEF VisitLedger
      <3>2. Alone(r, all, effect) /\ ~Rewarded(r, all)
        BY <1>i, <1>2, <2>5, <3>1 DEF Alone, Rewarded
      <3> QED  BY <2>n, <3>2 DEF VisitKind
    <2> QED  BY <2>2, <2>3, <2>4, <2>5
  <1>3. CASE ~(Cardinality(group) > 1) /\ ~IsLedger(r)
    <2>n. ~Exchanged(r, all) /\ ~Rewarded(r, all)
      BY <1>3, <1>e DEF Rewarded
    <2>1. CASE Traded(r)
      <3>1. effect = VisitTrade(r, stored, before)
        BY <1>0, <1>3, <2>1 DEF Visit, Traded
      <3> QED  BY <2>1, <2>n, <3>1 DEF VisitTrade, Traded, VisitKind
    <2>2. CASE ~Traded(r)
      <3>1. effect = Only(r, "review") \/ effect = Only(r, "unsupported")
        BY <1>0, <1>3, <2>2 DEF Visit, VisitTrade, Traded
      <3>2. Alone(r, all, effect)
        BY <1>i, <1>3, <3>1 DEF Alone
      <3> QED  BY <2>2, <2>n, <3>2 DEF VisitKind
    <2> QED  BY <2>1, <2>2
  <1> QED  BY <1>1, <1>2, <1>3

\* What a run comes to, record by record.
LEMMA OutcomeOfVisits ==
    ASSUME NEW selected, NEW context, NEW stored, NEW seen, NEW before
    PROVE  LET outcome == Outcome(selected, context, stored, seen, before)
               found   == Findings(selected \cup context)
           IN  /\ \A d : d \in outcome.decisions
                      <=> \E r \in selected : d \in Visit(r, found, stored, seen, before).decisions
               /\ \A f : f \in outcome.facts
                      <=> \E r \in selected : f \in Visit(r, found, stored, seen, before).facts
  <1> DEFINE found == Findings(selected \cup context)
             effects == {Visit(r, f, stored, seen, before) : r \in selected, f \in {found}}
  <1>1. Outcome(selected, context, stored, seen, before)
          = Effect(UNION {e.decisions : e \in effects}, UNION {e.facts : e \in effects})
    BY DEF Outcome
  <1>2. \A e : e \in effects <=> \E r \in selected : e = Visit(r, found, stored, seen, before)
    <2> HIDE DEF found
    <2> QED  OBVIOUS
  <1> HIDE DEF effects, found
  <1>3. /\ Outcome(selected, context, stored, seen, before).decisions = UNION {e.decisions : e \in effects}
        /\ Outcome(selected, context, stored, seen, before).facts = UNION {e.facts : e \in effects}
    BY <1>1 DEF Effect
  <1>4. \A d : d \in UNION {e.decisions : e \in effects}
            <=> \E r \in selected : d \in Visit(r, found, stored, seen, before).decisions
    BY <1>2
  <1>5. \A d : d \in UNION {e.facts : e \in effects}
            <=> \E r \in selected : d \in Visit(r, found, stored, seen, before).facts
    BY <1>2
  <1> QED  BY <1>3, <1>4, <1>5 DEF found

-----------------------------------------------------------------------------
(* The facts of a visit.                                                   *)

LEMMA KeysShared ==
    ASSUME NEW f, NEW g, NEW h, SameKey(f, g)
    PROVE  SameKey(g, f) /\ (SameKey(f, h) <=> SameKey(g, h))
  BY DEF SameKey

\* What is booked once is found ever after, with the same contents.
LEMMA KnownStays ==
    ASSUME NEW before, NEW new, KeysUnique(new, before), NEW f, Existing(f, before) # {}
    PROVE  Existing(f, before \cup new) = Existing(f, before)
  <1>1. PICK e \in before : SameKey(f, e)
    BY DEF Existing
  <1>2. ASSUME NEW g \in new, SameKey(f, g) PROVE FALSE
    <2>1. SameKey(g, e)
      BY <1>1, <1>2, KeysShared
    <2>2. Existing(g, before) = {}
      BY DEF KeysUnique
    <2> QED  BY <1>1, <2>1, <2>2 DEF Existing
  <1> QED  BY <1>2 DEF Existing

LEMMA VerdictStays ==
    ASSUME NEW before, NEW new, KeysUnique(new, before), NEW f, Existing(f, before) # {}
    PROVE  Persisted(f, before \cup new) = Persisted(f, before)
  <1>1. Existing(f, before \cup new) = Existing(f, before)
    BY KnownStays
  <1> QED  BY <1>1 DEF Persisted

LEMMA NewOnly ==
    ASSUME NEW wanted, NEW before
    PROVE  /\ \A f : f \in New(wanted, before) <=> f \in wanted /\ Existing(f, before) = {}
           /\ \A f : Persisted(f, before) \in {"created", "reused", "conflict"}
           /\ \A f : Persisted(f, before) = "created" <=> Existing(f, before) = {}
  BY DEF New, Persisted

\* Facts that are booked where they are new are all there afterwards.
LEMMA BookedAreThere ==
    ASSUME NEW before, NEW new, NEW wanted, New(wanted, before) \subseteq new
    PROVE  New(wanted, before \cup new) = {}
  <1>1. ASSUME NEW f \in wanted PROVE Existing(f, before \cup new) # {}
    <2>1. CASE Existing(f, before) = {}
      <3>1. f \in before \cup new
        BY <2>1, NewOnly
      <3> QED  BY <3>1 DEF Existing, SameKey
    <2>2. CASE Existing(f, before) # {}
      BY <2>2 DEF Existing
    <2> QED  BY <2>1, <2>2
  <1> QED  BY <1>1, NewOnly

LEMMA EffectParts ==
    ASSUME NEW decisions, NEW new
    PROVE  Effect(decisions, new).decisions = decisions /\ Effect(decisions, new).facts = new
  BY DEF Effect

LEMMA OnlyParts ==
    ASSUME NEW r, NEW verdict
    PROVE  /\ Only(r, verdict).decisions = {Decision(r, verdict, "record")}
           /\ Only(r, verdict).facts = {}
  BY DEF Only, Effect

LEMMA DecisionParts ==
    ASSUME NEW r, NEW verdict, NEW about
    PROVE  Decision(r, verdict, about).record = r /\ Decision(r, verdict, about).verdict = verdict
  BY DEF Decision

LEMMA TradeParts ==
    ASSUME NEW t, NEW verdict
    PROVE  /\ BookTrade(t, verdict).decisions = {Decision(t, verdict, "trade")}
           /\ BookTrade(t, verdict).facts
                = IF verdict = "created" THEN {TradeFact(t)} \cup TradeFacts(t) ELSE {}
  BY DEF BookTrade, Effect

\* A conflict that was seen remains one.
LEMMA SeenConflict ==
    ASSUME NEW seen, NEW before, seen \subseteq before, FactsOnce(before),
           NEW f, Persisted(f, seen) = "conflict"
    PROVE  Persisted(f, before) = "conflict"
  <1>1. PICK g \in seen : SameKey(f, g) /\ g.basis # f.basis
    BY DEF Persisted, Existing
  <1>2. ASSUME NEW h \in before, SameKey(f, h) PROVE h = g
    <2>1. SameKey(g, h)
      BY <1>1, <1>2, KeysShared
    <2> QED  BY <2>1 DEF FactsOnce
  <1> QED  BY <1>1, <1>2 DEF Persisted, Existing

\* A record whose visit booked what it would book is visited in vain ever after.
LEMMA VisitedInVain ==
    ASSUME NEW all, IsFiniteSet(all), NEW r \in all, NEW stored, NEW more, stored \subseteq more,
           NEW before, FactsOnce(before), NEW seen, seen \subseteq before,
           NEW new, KeysUnique(new, before),
           Visit(r, Findings(all), stored, seen, before).facts \subseteq new
    PROVE  Visit(r, Findings(all), more, before \cup new, before \cup new).facts = {}
  <1> DEFINE spend == SpendOf(LedgerGroup(r, all))
             after == before \cup new
  <1> SUFFICES ASSUME NEW first, first = Visit(r, Findings(all), stored, seen, before),
                      NEW second, second = Visit(r, Findings(all), more, after, after)
               PROVE  second.facts = {}
    OBVIOUS
  <1>1. VisitKind(r, all, stored, seen, before, first) /\ VisitKind(r, all, more, after, after, second)
    BY VisitKinds
  <1>2. CASE Exchanged(r, all)
    <2> DEFINE wanted == ExchangeLegs(spend, r) \cup ExchangeFees(spend, r)
    <2>1. /\ first = IF LegConflict(spend, r, seen) THEN Only(r, "conflict")
                     ELSE BookExchange(spend, r, before)
          /\ second = IF LegConflict(spend, r, after) THEN Only(r, "conflict")
                      ELSE BookExchange(spend, r, after)
      BY <1>1, <1>2 DEF VisitKind
    <2> HIDE DEF spend
    <2>2. CASE LegConflict(spend, r, seen)
      <3>1. PICK f \in ExchangeLegs(spend, r) : Persisted(f, before) = "conflict"
        BY <2>2, SeenConflict DEF LegConflict
      <3>2. Existing(f, before) # {}
        BY <3>1, NewOnly
      <3>3. Persisted(f, after) = "conflict"
        BY <3>1, <3>2, VerdictStays
      <3>4. LegConflict(spend, r, after)
        BY <3>3 DEF LegConflict
      <3> QED  BY <2>1, <3>4 DEF Only, Effect
    <2>3. CASE ~LegConflict(spend, r, seen)
      <3>1. first.facts = New(wanted, before)
        BY <2>1, <2>3 DEF BookExchange, ExchangeFees, Effect
      <3>2. New(wanted, after) = {}
        <4> HIDE DEF wanted
        <4> QED  BY <3>1, BookedAreThere
      <3>3. second.facts = {} \/ second.facts = New(wanted, after)
        BY <2>1 DEF BookExchange, ExchangeFees, Effect, Only
      <3> QED  BY <3>2, <3>3
    <2> QED  BY <2>2, <2>3
  <1>3. CASE Rewarded(r, all)
    <2>1. /\ first = Effect({Decision(r, Persisted(Reward(r), before), "reward")},
                           New({Reward(r)}, before))
          /\ second = Effect({Decision(r, Persisted(Reward(r), after), "reward")},
                            New({Reward(r)}, after))
      BY <1>1, <1>3 DEF VisitKind
    <2>2. first.facts = New({Reward(r)}, before) /\ second.facts = New({Reward(r)}, after)
      BY <2>1, EffectParts
    <2> QED  BY <2>2, BookedAreThere
  <1>4. CASE Traded(r)
    <2>1. /\ first = IF AssetConflict(r, stored) THEN Only(r, "conflict")
                     ELSE BookTrade(r, Persisted(TradeFact(r), before))
          /\ second = IF AssetConflict(r, more) THEN Only(r, "conflict")
                      ELSE BookTrade(r, Persisted(TradeFact(r), after))
      BY <1>1, <1>4 DEF VisitKind
    <2>2. CASE AssetConflict(r, stored)
      <3>1. AssetConflict(r, more)
        BY <2>2 DEF AssetConflict
      <3> QED  BY <2>1, <3>1 DEF Only, Effect
    <2>3. CASE ~AssetConflict(r, stored)
      <3>1. Existing(TradeFact(r), after) # {}
        <4>1. CASE Existing(TradeFact(r), before) = {}
          <5>1. Persisted(TradeFact(r), before) = "created"
            BY <4>1, NewOnly
          <5>2. TradeFact(r) \in new
            BY <2>1, <2>3, <5>1, TradeParts
          <5> QED  BY <5>2 DEF Existing, SameKey
        <4>2. CASE Existing(TradeFact(r), before) # {}
          BY <4>2 DEF Existing
        <4> QED  BY <4>1, <4>2
      <3>2. Persisted(TradeFact(r), after) # "created"
        BY <3>1, NewOnly
      <3> QED  BY <2>1, <3>2, OnlyParts, TradeParts
    <2> QED  BY <2>2, <2>3
  <1>5. CASE ~Exchanged(r, all) /\ ~Rewarded(r, all) /\ ~Traded(r)
    <2>1. PassedOver(r, all, second) \/ Alone(r, all, second)
      BY <1>1, <1>5 DEF VisitKind
    <2>2. CASE PassedOver(r, all, second)
      <3>1. second = Effect({}, {})
        BY <2>2 DEF PassedOver
      <3> QED  BY <3>1, EffectParts
    <2>3. CASE Alone(r, all, second)
      <3>1. PICK verdict : second = Only(r, verdict)
        BY <2>3 DEF Alone
      <3> QED  BY <3>1, OnlyParts
    <2> QED  BY <2>1, <2>2, <2>3
  <1> QED  BY <1>2, <1>3, <1>4, <1>5

\* The same of a run: what it booked is there, whatever is stored and booked later.
LEMMA RunInVain ==
    ASSUME NEW selected, NEW context, IsFiniteSet(selected \cup context),
           NEW stored, NEW more, stored \subseteq more,
           NEW before, FactsOnce(before), NEW seen, seen \subseteq before,
           NEW new, KeysUnique(new, before),
           Outcome(selected, context, stored, seen, before).facts \subseteq new
    PROVE  Outcome(selected, context, more, before \cup new, before \cup new).facts = {}
  <1> DEFINE found == Findings(selected \cup context)
             after == before \cup new
  <1>1. ASSUME NEW r \in selected
        PROVE  Visit(r, found, more, after, after).facts = {}
    <2>1. Visit(r, found, stored, seen, before).facts \subseteq new
      BY OutcomeOfVisits
    <2> QED  BY <2>1, VisitedInVain
  <1>2. \A f : f \in Outcome(selected, context, more, after, after).facts
            <=> \E r \in selected : f \in Visit(r, found, more, after, after).facts
    BY OutcomeOfVisits
  <1> HIDE DEF found
  <1> QED  BY <1>1, <1>2

-----------------------------------------------------------------------------
(* The decisions of a run.                                                 *)

LEMMA ExchangeDecides ==
    ASSUME NEW r, NEW leg, NEW fee, NEW before
    PROVE  /\ \E d \in ExchangeDecisions(r, leg, fee, before) : d.record = r
           /\ \A d \in ExchangeDecisions(r, leg, fee, before) :
                  d.record = r /\ d.verdict # "duplicate"
  <1> USE DEF Decision
  <1>1. \A f : Persisted(f, before) # "duplicate"
    BY DEF Persisted
  <1>2. \A d \in ExchangeDecisions(r, leg, fee, before) :
            d.record = r /\ d.verdict # "duplicate"
    BY <1>1 DEF ExchangeDecisions
  <1>3. CASE leg \cup fee = {}
    <2>1. Decision(r, "created", "record") \in ExchangeDecisions(r, leg, fee, before)
      BY <1>3 DEF ExchangeDecisions
    <2> QED  BY <1>2, <2>1
  <1>4. CASE leg # {}
    <2>1. PICK f \in leg : TRUE
      BY <1>4
    <2>2. Decision(r, Persisted(f, before), f.role) \in ExchangeDecisions(r, leg, fee, before)
      BY <2>1 DEF ExchangeDecisions
    <2> QED  BY <1>2, <2>2
  <1>5. CASE leg = {} /\ fee # {}
    <2>1. PICK f \in fee : TRUE
      BY <1>5
    <2>2. Decision(r, Persisted(f, before), f.role) \in ExchangeDecisions(r, leg, fee, before)
      BY <1>5, <2>1 DEF ExchangeDecisions
    <2> QED  BY <1>2, <2>2
  <1> QED  BY <1>3, <1>4, <1>5

\* Booking an exchange decides its two records and no other.
LEMMA ExchangeDecidesBoth ==
    ASSUME NEW spend, NEW receive, NEW before
    PROVE  LET decisions == BookExchange(spend, receive, before).decisions IN
           /\ \E d \in decisions : d.record = spend
           /\ \E d \in decisions : d.record = receive
           /\ \A d \in decisions : d.record \in {spend, receive} /\ d.verdict # "duplicate"
  <1> DEFINE first  == ExchangeDecisions(spend, ExchangeDisposal(spend, receive),
                                         ExchangeFee(spend, spend, receive), before)
             second == ExchangeDecisions(receive, ExchangeAcquisition(spend, receive),
                                         ExchangeFee(receive, spend, receive), before)
  <1>1. BookExchange(spend, receive, before).decisions = first \cup second
    BY DEF BookExchange, Effect
  <1>2. /\ \E d \in first : d.record = spend
        /\ \A d \in first : d.record = spend /\ d.verdict # "duplicate"
    BY ExchangeDecides
  <1>3. /\ \E d \in second : d.record = receive
        /\ \A d \in second : d.record = receive /\ d.verdict # "duplicate"
    BY ExchangeDecides
  <1> HIDE DEF first, second
  <1> QED  BY <1>1, <1>2, <1>3

\* A visit decides its record, unless it is passed over.
LEMMA VisitDecides ==
    ASSUME NEW all, IsFiniteSet(all), NEW r \in all, NEW stored, NEW seen, NEW before,
           NEW effect, VisitKind(r, all, stored, seen, before, effect)
    PROVE  \/ PassedOver(r, all, effect)
           \/ \E d \in effect.decisions : d.record = r
  <1> DEFINE spend == SpendOf(LedgerGroup(r, all))
  <1>0. \A verdict : \E d \in Only(r, verdict).decisions : d.record = r
    <2> TAKE verdict
    <2>1. Decision(r, verdict, "record") \in Only(r, verdict).decisions
      BY OnlyParts
    <2> QED  BY <2>1, DecisionParts
  <1>1. CASE Exchanged(r, all)
    <2>1. effect = IF LegConflict(spend, r, seen) THEN Only(r, "conflict")
                   ELSE BookExchange(spend, r, before)
      BY <1>1 DEF VisitKind
    <2> HIDE DEF spend
    <2>2. \E d \in BookExchange(spend, r, before).decisions : d.record = r
      BY ExchangeDecidesBoth
    <2> QED  BY <1>0, <2>1, <2>2
  <1>2. CASE Rewarded(r, all)
    <2>1. effect = Effect({Decision(r, Persisted(Reward(r), before), "reward")},
                          New({Reward(r)}, before))
      BY <1>2 DEF VisitKind
    <2>2. effect.decisions = {Decision(r, Persisted(Reward(r), before), "reward")}
      BY <2>1, EffectParts
    <2> QED  BY <2>2 DEF Decision
  <1>3. CASE Traded(r)
    <2>1. effect = IF AssetConflict(r, stored) THEN Only(r, "conflict")
                   ELSE BookTrade(r, Persisted(TradeFact(r), before))
      BY <1>3 DEF VisitKind
    <2>2. BookTrade(r, Persisted(TradeFact(r), before)).decisions
            = {Decision(r, Persisted(TradeFact(r), before), "trade")}
      BY TradeParts
    <2>3. \E d \in BookTrade(r, Persisted(TradeFact(r), before)).decisions : d.record = r
      BY <2>2 DEF Decision
    <2> QED  BY <1>0, <2>1, <2>3
  <1>4. CASE ~Exchanged(r, all) /\ ~Rewarded(r, all) /\ ~Traded(r)
    <2>1. PassedOver(r, all, effect) \/ Alone(r, all, effect)
      BY <1>4 DEF VisitKind
    <2> QED  BY <1>0, <2>1 DEF Alone
  <1> QED  BY <1>1, <1>2, <1>3, <1>4

\* A record is called a duplicate only by its own visit, as a part of a trade.
LEMMA DuplicateOfTrade ==
    ASSUME NEW all, IsFiniteSet(all), NEW r \in all, NEW stored, NEW seen, NEW before,
           NEW effect, VisitKind(r, all, stored, seen, before, effect),
           NEW d \in effect.decisions, d.verdict = "duplicate"
    PROVE  d.record = r /\ IsLedger(r) /\ r \in Findings(all).reconciled
  <1> DEFINE spend == SpendOf(LedgerGroup(r, all))
  <1>0. \A verdict : \A c \in Only(r, verdict).decisions : c.record = r /\ c.verdict = verdict
    BY OnlyParts DEF Decision
  <1>p. \A f : Persisted(f, before) # "duplicate"
    BY DEF Persisted
  <1>1. CASE Exchanged(r, all)
    <2>1. effect = IF LegConflict(spend, r, seen) THEN Only(r, "conflict")
                   ELSE BookExchange(spend, r, before)
      BY <1>1 DEF VisitKind
    <2> HIDE DEF spend
    <2>2. \A c \in BookExchange(spend, r, before).decisions : c.verdict # "duplicate"
      BY ExchangeDecidesBoth
    <2> QED  BY <1>0, <2>1, <2>2
  <1>2. CASE Rewarded(r, all)
    <2>1. effect = Effect({Decision(r, Persisted(Reward(r), before), "reward")},
                          New({Reward(r)}, before))
      BY <1>2 DEF VisitKind
    <2>2. effect.decisions = {Decision(r, Persisted(Reward(r), before), "reward")}
      BY <2>1, EffectParts
    <2> QED  BY <1>p, <2>2 DEF Decision
  <1>3. CASE Traded(r)
    <2>1. effect = IF AssetConflict(r, stored) THEN Only(r, "conflict")
                   ELSE BookTrade(r, Persisted(TradeFact(r), before))
      BY <1>3 DEF VisitKind
    <2>2. BookTrade(r, Persisted(TradeFact(r), before)).decisions
            = {Decision(r, Persisted(TradeFact(r), before), "trade")}
      BY TradeParts
    <2>3. \A c \in BookTrade(r, Persisted(TradeFact(r), before)).decisions : c.verdict # "duplicate"
      BY <1>p, <2>2 DEF Decision
    <2> QED  BY <1>0, <2>1, <2>3
  <1>4. CASE ~Exchanged(r, all) /\ ~Rewarded(r, all) /\ ~Traded(r)
    <2>1. PassedOver(r, all, effect) \/ Alone(r, all, effect)
      BY <1>4 DEF VisitKind
    <2>2. ~PassedOver(r, all, effect)
      BY EffectParts DEF PassedOver
    <2>3. PICK verdict : effect = Only(r, verdict)
             /\ (verdict = "duplicate" => IsLedger(r) /\ r \in Findings(all).reconciled)
      BY <2>1, <2>2 DEF Alone
    <2> QED  BY <1>0, <2>3
  <1> QED  BY <1>1, <1>2, <1>3, <1>4

\* What is passed over is decided with its receive.
LEMMA LeftOrDecided ==
    ASSUME NEW selected, NEW context, IsFiniteSet(selected \cup context), NEW r \in selected,
           NEW stored, NEW seen, NEW before,
           NEW run, run.selected = selected, run.context = context,
           run.decisions = Outcome(selected, context, stored, seen, before).decisions
    PROVE  LeftToItsReceive(r, run) \/ \E d \in run.decisions : d.record = r
  <1> DEFINE all == selected \cup context
             group == LedgerGroup(r, all)
             Visited(x) == Visit(x, Findings(all), stored, seen, before)
  <1>1. \A x \in selected : VisitKind(x, all, stored, seen, before, Visited(x))
    BY VisitKinds
  <1>2. \A d : d \in run.decisions <=> \E x \in selected : d \in Visited(x).decisions
    BY OutcomeOfVisits
  <1> HIDE DEF Visited, group, all
  <1>3. CASE \E d \in Visited(r).decisions : d.record = r
    BY <1>2, <1>3
  <1>4. CASE PassedOver(r, all, Visited(r))
    <2>1. IsPair(group) /\ r = SpendOf(group) /\ ValidExchange(SpendOf(group), ReceiveOf(group))
      BY <1>4 DEF PassedOver, InExchange, group
    <2> DEFINE receive == ReceiveOf(group)
    <2>2. receive \in group
      <3>1. \E x \in group : Raw[x].type = "receive"
        BY <2>1 DEF IsPair
      <3> QED  BY <3>1 DEF ReceiveOf
    <2>3. LedgerGroup(receive, all) = group
      BY <2>2, GroupShared DEF group
    <2>4. Exchanged(receive, all)
      BY <2>1, <2>3 DEF Exchanged, InExchange
    <2>5. CASE receive \notin selected
      BY <2>1, <2>5 DEF LeftToItsReceive, group, all
    <2>6. CASE receive \in selected
      <3>1. Visited(receive) = IF LegConflict(r, receive, seen) THEN Only(receive, "conflict")
                               ELSE BookExchange(r, receive, before)
        BY <1>1, <2>1, <2>3, <2>4, <2>6 DEF VisitKind
      <3>2. CASE LegConflict(r, receive, seen)
        <4>1. Decision(receive, "conflict", "record") \in Visited(receive).decisions
          BY <3>1, <3>2, OnlyParts
        <4>2. \E d \in run.decisions : d.record = receive /\ d.verdict = "conflict"
          BY <1>2, <2>6, <4>1 DEF Decision
        <4> QED  BY <2>1, <4>2 DEF LeftToItsReceive, group, all
      <3>3. CASE ~LegConflict(r, receive, seen)
        <4>1. \E d \in Visited(receive).decisions : d.record = r
          BY <3>1, <3>3, ExchangeDecidesBoth
        <4> QED  BY <1>2, <2>6, <4>1
      <3> QED  BY <3>2, <3>3
    <2> QED  BY <2>5, <2>6
  <1>5. IsFiniteSet(all) /\ r \in all
    BY DEF all
  <1> QED  BY <1>1, <1>3, <1>4, <1>5, VisitDecides

DecidedOnce(r, run) ==
    \/ \E d \in run.decisions : \A e \in run.decisions : e.record = r <=> e = d
    \/ LeftToItsReceive(r, run)

Explained(d, run) ==
    \E t \in TradesOf(d.record, run.selected \cup run.context) :
        \E e \in run.decisions : e.record = t

\* A completed run decides what it selected, each record once.
LEMMA RunDecides ==
    ASSUME NEW selected, NEW context, IsFiniteSet(selected \cup context),
           NEW stored, NEW seen, NEW before,
           NEW run, run.selected = selected, run.context = context,
           run.decisions = Outcome(selected, context, stored, seen, before).decisions,
           OneDecisionEach(run.decisions), NEW r \in selected
    PROVE  DecidedOnce(r, run)
  <1>1. LeftToItsReceive(r, run) \/ \E d \in run.decisions : d.record = r
    BY LeftOrDecided
  <1> QED  BY <1>1 DEF OneDecisionEach, DecidedOnce

\* ... and a ledger entry that it puts aside with the trade, where the run selects
\* all it knows or knows ledger entries only.
LEMMA RunExplains ==
    ASSUME NEW selected, NEW context, IsFiniteSet(selected \cup context),
           NEW stored, NEW seen, NEW before,
           NEW run, run.selected = selected, run.context = context,
           run.decisions = Outcome(selected, context, stored, seen, before).decisions,
           context = {} \/ \A x \in selected \cup context : IsLedger(x),
           NEW d \in run.decisions, d.verdict = "duplicate"
    PROVE  Explained(d, run)
  <1> DEFINE all == selected \cup context
             Visited(x) == Visit(x, Findings(all), stored, seen, before)
  <1>1. \A x \in selected : VisitKind(x, all, stored, seen, before, Visited(x))
    BY VisitKinds
  <1>2. \A c : c \in run.decisions <=> \E x \in selected : c \in Visited(x).decisions
    BY OutcomeOfVisits
  <1>a. IsFiniteSet(all) /\ selected \subseteq all /\ run.selected \cup run.context = all
    OBVIOUS
  <1> HIDE DEF Visited, all
  <1>3. PICK r \in selected : d \in Visited(r).decisions
    BY <1>2
  <1>4. d.record = r /\ r \in Findings(all).reconciled
    BY <1>1, <1>3, <1>a, DuplicateOfTrade
  <1>5. PICK t \in TradesOf(r, all) : TRUE
    <2>1. Cardinality(TradesOf(r, all)) = 1
      BY <1>4 DEF Findings, Reconciled
    <2> QED  BY <2>1, FS_EmptySet
  <1>6. t \in all /\ IsTrade(t) /\ ~IsLedger(t)
    BY <1>5 DEF TradesOf, IsTrade, IsLedger
  <1>7. t \in selected
    BY <1>6 DEF all
  <1>8. ~PassedOver(t, all, Visited(t))
    <2>1. LedgerGroup(t, all) = {}
      BY <1>6 DEF LedgerGroup
    <2> QED  BY <2>1 DEF PassedOver, InExchange, IsPair
  <1>9. \E e \in Visited(t).decisions : e.record = t
    BY <1>1, <1>6, <1>7, <1>8, <1>a, VisitDecides
  <1> QED  BY <1>2, <1>4, <1>5, <1>7, <1>9, <1>a DEF Explained

-----------------------------------------------------------------------------
(* The books.                                                              *)

\* Two records with one source and one id are the same.
RecordsUnique(known) ==
    \A x, y \in known :
        Raw[x].source = Raw[y].source /\ Raw[x].key = Raw[y].key => x = y

LEMMA FactParts ==
    ASSUME NEW role, NEW r, NEW basis, NEW code, NEW quantity
    PROVE  LET f == Fact(role, r, basis, code, quantity) IN
           f.role = role /\ f.of = Raw[r].key /\ f.basis = basis
  BY DEF Fact

LEMMA AcquisitionShape ==
    ASSUME NEW spend, NEW receive, NEW f \in ExchangeAcquisition(spend, receive)
    PROVE  /\ ~IsFiat(receive) /\ ExchangeAcquisition(spend, receive) = {f}
           /\ f.role = "ledger-acquisition" /\ f.of = Raw[receive].key
           /\ f.basis = {spend, receive}
  BY FactParts DEF ExchangeAcquisition

LEMMA DisposalShape ==
    ASSUME NEW spend, NEW receive, NEW f \in ExchangeDisposal(spend, receive)
    PROVE  /\ ~IsFiat(spend) /\ ExchangeDisposal(spend, receive) = {f}
           /\ f.role = "ledger-disposal" /\ f.of = Raw[spend].key
           /\ f.basis = {spend, receive}
  BY FactParts DEF ExchangeDisposal

LEMMA LegsOfCrypto ==
    ASSUME NEW spend, NEW receive
    PROVE  /\ ~IsFiat(spend) => ExchangeDisposal(spend, receive) # {}
           /\ ~IsFiat(receive) => ExchangeAcquisition(spend, receive) # {}
  BY DEF ExchangeDisposal, ExchangeAcquisition

LEMMA FeeShape ==
    ASSUME NEW x, NEW spend, NEW receive, NEW f \in ExchangeFee(x, spend, receive)
    PROVE  /\ ExchangeFee(x, spend, receive) = {f}
           /\ f.role = "ledger-fee" /\ f.of = Raw[x].key /\ f.basis = {spend, receive}
  BY FactParts DEF ExchangeFee

LEMMA RewardShape ==
    ASSUME NEW r
    PROVE  Reward(r).role = "reward" /\ Reward(r).of = Raw[r].key /\ Reward(r).basis = {r}
  BY FactParts DEF Reward

LEMMA TradeFactShape ==
    ASSUME NEW t
    PROVE  TradeFact(t).role = "trade" /\ TradeFact(t).of = Raw[t].key /\ TradeFact(t).basis = {t}
  BY FactParts DEF TradeFact

LEMMA TradeFactsShape ==
    ASSUME NEW t, NEW f \in TradeFacts(t)
    PROVE  /\ f.role \in TradeRoles /\ f.of = Raw[t].key /\ f.basis = {t}
           /\ \A g \in TradeFacts(t) : f.role = g.role => f = g
  <1> DEFINE lot == Fact("acquisition", t, {t}, Received(t), ReceivedQuantity(t))
             sale == Fact("disposal", t, {t}, Paid(t), PaidQuantity(t))
             fee == Fact("fee", t, {t}, Raw[t].quote, Raw[t].fee)
  <1>1. \A g \in TradeFacts(t) : g = lot \/ g = sale \/ g = fee
    BY DEF TradeFacts
  <1>2. /\ lot.role = "acquisition" /\ lot.of = Raw[t].key /\ lot.basis = {t}
        /\ sale.role = "disposal" /\ sale.of = Raw[t].key /\ sale.basis = {t}
        /\ fee.role = "fee" /\ fee.of = Raw[t].key /\ fee.basis = {t}
    BY FactParts
  <1> HIDE DEF lot, sale, fee
  <1> QED  BY <1>1, <1>2 DEF TradeRoles

\* The fact of an exchange, by its role.
LEMMA ExchangeShape ==
    ASSUME NEW spend, NEW receive,
           NEW f \in ExchangeLegs(spend, receive) \cup ExchangeFees(spend, receive)
    PROVE  /\ f.role \in ExchangeRoles /\ f.basis = {spend, receive}
           /\ f.role = "ledger-acquisition" <=> f \in ExchangeAcquisition(spend, receive)
           /\ f.role = "ledger-disposal" <=> f \in ExchangeDisposal(spend, receive)
           /\ f.role = "ledger-fee" <=> f \in ExchangeFees(spend, receive)
           /\ \E x \in {spend, receive} : f.of = Raw[x].key
  BY AcquisitionShape, DisposalShape, FeeShape DEF ExchangeLegs, ExchangeFees, ExchangeRoles

\* Within one exchange a key belongs to one fact.
LEMMA ExchangeKeys ==
    ASSUME NEW spend, NEW receive, Raw[spend].key # Raw[receive].key,
           NEW f \in ExchangeLegs(spend, receive) \cup ExchangeFees(spend, receive),
           NEW g \in ExchangeLegs(spend, receive) \cup ExchangeFees(spend, receive),
           SameKey(f, g)
    PROVE  f = g
  <1>1. f.role = g.role /\ f.of = g.of
    BY DEF SameKey
  <1>2. CASE f \in ExchangeAcquisition(spend, receive)
    BY <1>1, <1>2, ExchangeShape, AcquisitionShape
  <1>3. CASE f \in ExchangeDisposal(spend, receive)
    BY <1>1, <1>3, ExchangeShape, DisposalShape
  <1>4. CASE f \in ExchangeFees(spend, receive)
    <2>1. g \in ExchangeFees(spend, receive)
      BY <1>1, <1>4, ExchangeShape
    <2> QED  BY <1>1, <1>4, <2>1, FeeShape DEF ExchangeFees
  <1> QED  BY <1>2, <1>3, <1>4 DEF ExchangeLegs

\* What is known to whoever visits the receive of an exchange.
LEMMA ExchangedPair ==
    ASSUME NEW all, IsFiniteSet(all), NEW r \in all, Exchanged(r, all)
    PROVE  LET spend == SpendOf(LedgerGroup(r, all)) IN
           /\ spend \in all /\ SpendAndReceive(spend, r)
           /\ LedgerGroup(r, all) = {spend, r}
           /\ LedgerGroup(spend, all) = LedgerGroup(r, all)
  <1> DEFINE group == LedgerGroup(r, all)
  <1>1. \A x \in group : LedgerGroup(x, all) = group /\ x \in all /\ IsLedger(x)
    BY GroupShared
  <1>2. IsPair(group) /\ r = ReceiveOf(group)
    BY DEF Exchanged, InExchange
  <1>3. IsFiniteSet(group)
    BY <1>1, FS_Subset
  <1> HIDE DEF group
  <1>4. /\ SpendOf(group) \in group /\ SpendAndReceive(SpendOf(group), r)
        /\ group = {SpendOf(group), r}
    BY <1>1, <1>2, <1>3, PairOfTwo
  <1> QED  BY <1>1, <1>4 DEF group

\* The facts of a visit.
BooksExchange(r, all, seen, before, f) ==
    LET spend == SpendOf(LedgerGroup(r, all)) IN
    /\ Exchanged(r, all) /\ ~LegConflict(spend, r, seen)
    /\ f \in ExchangeLegs(spend, r) \cup ExchangeFees(spend, r)
    /\ Existing(f, before) = {}

BooksReward(r, all, before, f) ==
    Rewarded(r, all) /\ f = Reward(r) /\ Existing(f, before) = {}

BooksTrade(r, before, f) ==
    Traded(r) /\ f \in {TradeFact(r)} \cup TradeFacts(r) /\ Existing(TradeFact(r), before) = {}

LEMMA VisitBooks ==
    ASSUME NEW all, NEW r \in all, NEW stored, NEW seen, NEW before,
           NEW effect, VisitKind(r, all, stored, seen, before, effect)
    PROVE  /\ \A f \in effect.facts :
                \/ BooksExchange(r, all, seen, before, f)
                \/ BooksReward(r, all, before, f)
                \/ BooksTrade(r, before, f)
           /\ \A f : BooksExchange(r, all, seen, before, f) => f \in effect.facts
           /\ \A f \in effect.facts : BooksTrade(r, before, f) => TradeFact(r) \in effect.facts
  <1> DEFINE spend == SpendOf(LedgerGroup(r, all))
             wanted == ExchangeLegs(spend, r) \cup ExchangeFees(spend, r)
  <1>1. CASE Exchanged(r, all)
    <2>1. effect = IF LegConflict(spend, r, seen) THEN Only(r, "conflict")
                   ELSE BookExchange(spend, r, before)
      BY <1>1 DEF VisitKind
    <2>2. BookExchange(spend, r, before).facts = New(wanted, before)
      BY EffectParts DEF BookExchange, ExchangeFees
    <2>n. ~Traded(r)
      <3>1. LedgerGroup(r, all) # {}
        BY <1>1, FS_EmptySet DEF Exchanged, InExchange, IsPair
      <3> QED  BY <3>1, GroupHolds DEF Traded
    <2> HIDE DEF wanted
    <2>3. CASE LegConflict(spend, r, seen)
      <3>1. effect.facts = {}
        BY <2>1, <2>3, OnlyParts
      <3> QED  BY <2>3, <3>1 DEF BooksExchange
    <2>4. CASE ~LegConflict(spend, r, seen)
      <3>1. effect.facts = New(wanted, before)
        BY <2>1, <2>2, <2>4
      <3>2. \A f : f \in New(wanted, before) <=> f \in wanted /\ Existing(f, before) = {}
        BY NewOnly
      <3> QED  BY <1>1, <2>4, <2>n, <3>1, <3>2 DEF BooksExchange, BooksTrade, wanted
    <2> QED  BY <2>3, <2>4
  <1>2. CASE Rewarded(r, all)
    <2>1. effect = Effect({Decision(r, Persisted(Reward(r), before), "reward")},
                          New({Reward(r)}, before))
      BY <1>2 DEF VisitKind
    <2>2. effect.facts = New({Reward(r)}, before)
      BY <2>1, EffectParts
    <2>3. \A f : f \in New({Reward(r)}, before) <=> f = Reward(r) /\ Existing(f, before) = {}
      BY NewOnly
    <2>4. ~Exchanged(r, all) /\ ~Traded(r)
      <3>1. ~(Cardinality(LedgerGroup(r, all)) > 1) /\ IsLedger(r)
        BY <1>2 DEF Rewarded
      <3> QED  BY <3>1 DEF Exchanged, InExchange, IsPair, Traded
    <2> QED  BY <1>2, <2>2, <2>3, <2>4 DEF BooksReward, BooksExchange, BooksTrade
  <1>3. CASE Traded(r)
    <2>1. effect = IF AssetConflict(r, stored) THEN Only(r, "conflict")
                   ELSE BookTrade(r, Persisted(TradeFact(r), before))
      BY <1>3 DEF VisitKind
    <2>2. effect.facts = {} \/ /\ effect.facts = {TradeFact(r)} \cup TradeFacts(r)
                               /\ Persisted(TradeFact(r), before) = "created"
      BY <2>1, OnlyParts, TradeParts
    <2>3. Persisted(TradeFact(r), before) = "created" => Existing(TradeFact(r), before) = {}
      BY NewOnly
    <2>4. ~Exchanged(r, all)
      <3>1. ~IsLedger(r)
        BY <1>3 DEF Traded
      <3>2. LedgerGroup(r, all) = {}
        BY <3>1 DEF LedgerGroup
      <3> QED  BY <3>2, FS_EmptySet DEF Exchanged, InExchange, IsPair
    <2> QED  BY <1>3, <2>2, <2>3, <2>4 DEF BooksTrade, BooksExchange
  <1>4. CASE ~Exchanged(r, all) /\ ~Rewarded(r, all) /\ ~Traded(r)
    <2>1. PassedOver(r, all, effect) \/ Alone(r, all, effect)
      BY <1>4 DEF VisitKind
    <2>2. effect.facts = {}
      BY <2>1, OnlyParts, EffectParts DEF PassedOver, Alone
    <2> QED  BY <1>4, <2>2 DEF BooksExchange
  <1> QED  BY <1>1, <1>2, <1>3, <1>4

\* A record's leg and its fee have one key each, in whatever exchange the record is.
LEMMA LegAndFee ==
    ASSUME NEW known, RecordsUnique(known),
           NEW spend \in known, NEW receive \in known, SpendAndReceive(spend, receive),
           NEW s \in known, NEW t \in known, SpendAndReceive(s, t),
           NEW x \in {spend, receive}, NEW f \in LegOf(x, spend, receive),
           NEW g \in ExchangeFee(x, spend, receive),
           NEW h \in ExchangeLegs(s, t) \cup ExchangeFees(s, t), SameKey(f, h) \/ SameKey(g, h)
    PROVE  /\ x \in {s, t}
           /\ \E e \in LegOf(x, s, t) : SameKey(f, e)
           /\ \E e \in ExchangeFee(x, s, t) : SameKey(g, e)
           /\ SameKey(f, h) => h \in LegOf(x, s, t)
           /\ SameKey(g, h) => h \in ExchangeFee(x, s, t)
  <1>1. /\ spend # receive /\ s # t
        /\ IsLedger(spend) /\ IsLedger(receive) /\ IsLedger(s) /\ IsLedger(t)
        /\ spend # t /\ receive # s
    BY DEF SpendAndReceive
  <1>2. \A y, z \in {spend, receive, s, t} : Raw[y].key = Raw[z].key => y = z
    BY <1>1 DEF RecordsUnique, IsLedger
  <1>3. f.of = Raw[x].key /\ g.of = Raw[x].key /\ g.role = "ledger-fee"
        /\ f.role = IF x = spend THEN "ledger-disposal" ELSE "ledger-acquisition"
    BY AcquisitionShape, DisposalShape, FeeShape DEF LegOf
  <1>4. h.of = Raw[x].key
    BY <1>3 DEF SameKey
  <1>5. x \in {s, t}
    <2>1. PICK y \in {s, t} : h.of = Raw[y].key
      BY ExchangeShape
    <2> QED  BY <1>2, <1>4, <2>1
  <1>6. x = spend <=> x = s
    BY <1>1, <1>5
  <1>7. PICK leg \in LegOf(x, s, t) : TRUE
    <2>1. x = spend => ~IsFiat(x)
      BY DisposalShape DEF LegOf
    <2>2. x # spend => ~IsFiat(x)
      BY AcquisitionShape DEF LegOf
    <2> QED  BY <1>5, <1>6, <2>1, <2>2, LegsOfCrypto DEF LegOf
  <1>8. PICK fee \in ExchangeFee(x, s, t) : TRUE
    <2>1. Raw[x].fee # 0
      BY DEF ExchangeFee
    <2> QED  BY <2>1 DEF ExchangeFee
  <1>9. /\ leg.of = Raw[x].key
        /\ leg.role = IF x = s THEN "ledger-disposal" ELSE "ledger-acquisition"
        /\ LegOf(x, s, t) = {leg}
    BY <1>5, <1>7, AcquisitionShape, DisposalShape DEF LegOf
  <1>10. fee.of = Raw[x].key /\ fee.role = "ledger-fee"
    BY <1>8, FeeShape
  <1>11. SameKey(f, leg) /\ SameKey(g, fee)
    BY <1>3, <1>6, <1>9, <1>10 DEF SameKey
  <1>12. Raw[s].key # Raw[t].key
    BY <1>1, <1>2
  <1>13. leg \in ExchangeLegs(s, t) /\ fee \in ExchangeFees(s, t)
    BY <1>5, <1>7, <1>8 DEF LegOf, ExchangeLegs, ExchangeFees
  <1>14. SameKey(f, h) => h = leg
    BY <1>11, <1>12, <1>13, ExchangeKeys, KeysShared
  <1>15. SameKey(g, h) => h = fee
    BY <1>11, <1>12, <1>13, ExchangeKeys, KeysShared
  <1> QED  BY <1>5, <1>7, <1>8, <1>11, <1>14, <1>15

\* Records that are added break nothing.
LEMMA BooksStay ==
    ASSUME NEW known, NEW more, known \subseteq more, NEW books, BooksKept(known, books)
    PROVE  BooksKept(more, books)
  <1>1. ExchangesFounded(more, books)
    BY DEF BooksKept, ExchangesFounded, Founded
  <1>2. LegsWithFees(more, books)
    <2> SUFFICES ASSUME NEW spend \in more, NEW receive \in more, SpendAndReceive(spend, receive),
                        NEW x \in {spend, receive}, NEW f \in LegOf(x, spend, receive),
                        NEW g \in ExchangeFee(x, spend, receive)
                 PROVE  f \in books <=> g \in books
      BY DEF LegsWithFees
    <2>1. f.basis = {spend, receive} /\ g.basis = {spend, receive}
      BY AcquisitionShape, DisposalShape, FeeShape DEF LegOf
    <2>2. f \in books \/ g \in books => spend \in known /\ receive \in known
      BY <2>1 DEF BooksKept
    <2> QED  BY <2>2 DEF BooksKept, LegsWithFees
  <1> QED  BY <1>1, <1>2 DEF BooksKept

\* A leg that is there with the evidence at hand is the leg itself.
LEMMA LegIsThere ==
    ASSUME NEW known, NEW books, BooksKept(known, books),
           NEW spend \in known, NEW receive \in known, SpendAndReceive(spend, receive),
           NEW f \in ExchangeLegs(spend, receive), Persisted(f, books) = "reused"
    PROVE  f \in books
  <1>1. PICK g \in books : SameKey(f, g) /\ g.basis = f.basis
    BY DEF Persisted, Existing
  <1>2. f.role \in {"ledger-acquisition", "ledger-disposal"} /\ f.basis = {spend, receive}
    BY AcquisitionShape, DisposalShape DEF ExchangeLegs
  <1>3. g.role = f.role /\ g.basis = {spend, receive}
    BY <1>1, <1>2 DEF SameKey
  <1>4. PICK s \in known, t \in known :
            /\ SpendAndReceive(s, t)
            /\ g \in ExchangeLegs(s, t) \cup ExchangeFees(s, t)
    BY <1>2, <1>3 DEF BooksKept, ExchangesFounded, Founded, ExchangeRoles
  <1>5. {s, t} = {spend, receive}
    BY <1>3, <1>4, ExchangeShape
  <1>6. s = spend /\ t = receive
    BY <1>4, <1>5 DEF SpendAndReceive
  <1>7. CASE f.role = "ledger-acquisition"
    <2>1. f \in ExchangeAcquisition(spend, receive) /\ g \in ExchangeAcquisition(spend, receive)
      BY <1>3, <1>4, <1>6, <1>7, ExchangeShape
    <2> QED  BY <1>1, <2>1, AcquisitionShape
  <1>8. CASE f.role = "ledger-disposal"
    <2>1. f \in ExchangeDisposal(spend, receive) /\ g \in ExchangeDisposal(spend, receive)
      BY <1>3, <1>4, <1>6, <1>8, ExchangeShape
    <2> QED  BY <1>1, <2>1, DisposalShape
  <1> QED  BY <1>2, <1>7, <1>8

\* A run keeps the books.
LEMMA RunBooks ==
    ASSUME NEW selected, NEW context, IsFiniteSet(selected \cup context),
           NEW known, selected \cup context \subseteq known, RecordsUnique(known),
           NEW stored, NEW seen, NEW before, BooksKept(known, before),
           NEW new, new = Outcome(selected, context, stored, seen, before).facts,
           KeysUnique(new, before)
    PROVE  BooksKept(known, before \cup new)
  <1> DEFINE all == selected \cup context
             Visited(x) == Visit(x, Findings(all), stored, seen, before)
             after == before \cup new
  <1>1. \A x \in selected : VisitKind(x, all, stored, seen, before, Visited(x))
    BY VisitKinds
  <1>2. \A f : f \in new <=> \E x \in selected : f \in Visited(x).facts
    BY OutcomeOfVisits
  <1>a. IsFiniteSet(all) /\ selected \subseteq all /\ all \subseteq known
    OBVIOUS
  <1> HIDE DEF Visited, all
  <1>3. FactsOnce(after)
    <2> SUFFICES ASSUME NEW f \in after, NEW g \in after, SameKey(f, g) PROVE f = g
      BY DEF FactsOnce
    <2>1. CASE f \in before /\ g \in before
      BY <2>1 DEF BooksKept, FactsOnce
    <2>2. CASE f \in new /\ g \in new
      BY <2>2 DEF KeysUnique
    <2>3. CASE f \in new /\ g \in before
      BY <2>3 DEF KeysUnique, Existing
    <2>4. CASE f \in before /\ g \in new
      BY <2>4, KeysShared DEF KeysUnique, Existing
    <2> QED  BY <2>1, <2>2, <2>3, <2>4
  <1>4. ASSUME NEW r \in selected, NEW f, BooksExchange(r, all, seen, before, f)
        PROVE  LET spend == SpendOf(LedgerGroup(r, all)) IN
               /\ spend \in known /\ r \in known /\ SpendAndReceive(spend, r)
               /\ f \in ExchangeLegs(spend, r) \cup ExchangeFees(spend, r)
               /\ f.basis = {spend, r}
               /\ \A g \in ExchangeLegs(spend, r) \cup ExchangeFees(spend, r) :
                     Existing(g, before) = {} => g \in new
    <2> DEFINE spend == SpendOf(LedgerGroup(r, all))
    <2>1. spend \in known /\ r \in known /\ SpendAndReceive(spend, r)
      BY <1>4, <1>a, ExchangedPair DEF BooksExchange
    <2>2. f \in ExchangeLegs(spend, r) \cup ExchangeFees(spend, r)
      BY <1>4 DEF BooksExchange
    <2>3. \A g \in ExchangeLegs(spend, r) \cup ExchangeFees(spend, r) :
              Existing(g, before) = {} => g \in new
      <3>1. \A g \in ExchangeLegs(spend, r) \cup ExchangeFees(spend, r) :
                Existing(g, before) = {} => BooksExchange(r, all, seen, before, g)
        BY <1>4 DEF BooksExchange
      <3>2. \A g : BooksExchange(r, all, seen, before, g) => g \in Visited(r).facts
        BY <1>1, <1>a, VisitBooks
      <3> HIDE DEF spend
      <3> QED  BY <1>2, <3>1, <3>2
    <2> HIDE DEF spend
    <2>4. f.basis = {spend, r}
      BY <2>2, ExchangeShape
    <2> QED  BY <2>1, <2>2, <2>3, <2>4 DEF spend
  <1>5. ASSUME NEW r \in selected, NEW f \in new, BooksReward(r, all, before, f)
        PROVE  f.role = "reward" /\ f.basis \subseteq known
    BY <1>5, <1>a, RewardShape DEF BooksReward
  <1>6. ASSUME NEW r \in selected, NEW f \in Visited(r).facts, BooksTrade(r, before, f)
        PROVE  /\ f.role \in TradeRoles \cup {"trade"} /\ f.basis \subseteq known
               /\ \E g \in new : g.role = "trade" /\ g.of = f.of
    <2>1. f = TradeFact(r) \/ f \in TradeFacts(r)
      BY <1>6 DEF BooksTrade
    <2>2. f.of = Raw[r].key /\ f.basis = {r} /\ f.role \in TradeRoles \cup {"trade"}
      BY <2>1, TradeFactShape, TradeFactsShape
    <2>3. TradeFact(r) \in Visited(r).facts
      BY <1>1, <1>6, <1>a, VisitBooks
    <2>4. TradeFact(r) \in new
      BY <1>2, <2>3
    <2> QED  BY <1>a, <2>2, <2>4, TradeFactShape
  <1>b. \A f \in new : \E r \in selected :
            /\ f \in Visited(r).facts
            /\ \/ BooksExchange(r, all, seen, before, f)
               \/ BooksReward(r, all, before, f)
               \/ BooksTrade(r, before, f)
    BY <1>1, <1>2, <1>a, VisitBooks
  <1>7. ASSUME NEW f \in new
        PROVE  /\ f.role \in ExchangeRoles => Founded(f, known)
               /\ f.role \in TradeRoles => \E g \in new : g.role = "trade" /\ g.of = f.of
               /\ f.basis \subseteq known
    <2>1. PICK r \in selected :
             /\ f \in Visited(r).facts
             /\ \/ BooksExchange(r, all, seen, before, f)
                \/ BooksReward(r, all, before, f)
                \/ BooksTrade(r, before, f)
      BY <1>b
    <2>3. CASE BooksExchange(r, all, seen, before, f)
      <3>1. Founded(f, known) /\ f.basis \subseteq known
        BY <1>4, <2>3 DEF Founded
      <3>2. f.role \in ExchangeRoles
        BY <2>3, ExchangeShape DEF BooksExchange
      <3> QED  BY <3>1, <3>2 DEF ExchangeRoles, TradeRoles
    <2>4. CASE BooksReward(r, all, before, f)
      BY <1>5, <2>4 DEF ExchangeRoles, TradeRoles
    <2>5. CASE BooksTrade(r, before, f)
      BY <1>6, <2>1, <2>5 DEF ExchangeRoles, TradeRoles
    <2> QED  BY <2>1, <2>3, <2>4, <2>5
  <1>8. ExchangesFounded(known, after)
    BY <1>7 DEF BooksKept, ExchangesFounded
  <1>9. TradesWhole(after)
    BY <1>7 DEF BooksKept, TradesWhole
  <1>10. LegsWithFees(known, after)
    <2> SUFFICES ASSUME NEW spend \in known, NEW receive \in known, SpendAndReceive(spend, receive),
                        NEW x \in {spend, receive}, NEW f \in LegOf(x, spend, receive),
                        NEW g \in ExchangeFee(x, spend, receive)
                 PROVE  f \in after <=> g \in after
      BY DEF LegsWithFees
    <2> DEFINE ours == ExchangeLegs(spend, receive) \cup ExchangeFees(spend, receive)
    <2>1. f \in before <=> g \in before
      BY DEF BooksKept, LegsWithFees
    <2>2. /\ f \in ours /\ f.role \in ExchangeRoles /\ f.basis = {spend, receive}
          /\ g \in ours /\ g.role \in ExchangeRoles /\ g.basis = {spend, receive}
      <3>1. f \in ours /\ g \in ours
        BY DEF LegOf, ExchangeLegs, ExchangeFees
      <3> HIDE DEF ours
      <3>2. \A h \in ours : h.role \in ExchangeRoles /\ h.basis = {spend, receive}
        BY ExchangeShape DEF ours
      <3> QED  BY <3>1, <3>2
    <2> HIDE DEF ours
    \* A run that books the one books the other, unless it is there.
    <2>3. ASSUME NEW h \in new, h \in {f, g}
          PROVE  \A e \in ours : Existing(e, before) = {} => e \in new
      <3>1. PICK r \in selected : BooksExchange(r, all, seen, before, h)
        BY <1>5, <1>6, <1>b, <2>2, <2>3 DEF ExchangeRoles, TradeRoles
      <3> DEFINE s == SpendOf(LedgerGroup(r, all))
      <3>2. /\ SpendAndReceive(s, r) /\ h.basis = {s, r}
            /\ \A e \in ExchangeLegs(s, r) \cup ExchangeFees(s, r) :
                  Existing(e, before) = {} => e \in new
        BY <1>4, <3>1
      <3> HIDE DEF s
      <3>3. s = spend /\ r = receive
        BY <2>2, <2>3, <3>2 DEF SpendAndReceive
      <3> QED  BY <3>2, <3>3 DEF ours
    <2>4. \A h \in new : Existing(h, before) = {}
      BY DEF KeysUnique
    \* What is there with the key of the one came with the other.
    <2>5. ASSUME NEW h \in before, SameKey(f, h) \/ SameKey(g, h)
          PROVE  Existing(f, before) # {} /\ Existing(g, before) # {}
      <3>1. h.role \in ExchangeRoles
        BY <2>2, <2>5 DEF SameKey
      <3>2. PICK s \in known, t \in known :
                SpendAndReceive(s, t) /\ h \in ExchangeLegs(s, t) \cup ExchangeFees(s, t)
        BY <3>1 DEF BooksKept, ExchangesFounded, Founded
      <3>3. /\ x \in {s, t}
            /\ \E e \in LegOf(x, s, t) : SameKey(f, e)
            /\ \E e \in ExchangeFee(x, s, t) : SameKey(g, e)
            /\ SameKey(f, h) => h \in LegOf(x, s, t)
            /\ SameKey(g, h) => h \in ExchangeFee(x, s, t)
        BY <2>5, <3>2, LegAndFee
      <3>4. \A e \in LegOf(x, s, t), c \in ExchangeFee(x, s, t) : e \in before <=> c \in before
        BY <3>2, <3>3 DEF BooksKept, LegsWithFees
      <3> QED  BY <2>5, <3>3, <3>4 DEF Existing
    <2>6. CASE f \in new
      BY <2>2, <2>3, <2>4, <2>5, <2>6 DEF Existing
    <2>7. CASE g \in new
      BY <2>2, <2>3, <2>4, <2>5, <2>7 DEF Existing
    <2> QED  BY <2>1, <2>6, <2>7
  <1> QED  BY <1>3, <1>7, <1>8, <1>9, <1>10 DEF BooksKept

\* A run that books one leg of an exchange has both legs and the fees of both in the
\* books, unless another run has booked a leg since the payload was checked.
LEMMA BooksWhole ==
    ASSUME NEW selected, NEW context, IsFiniteSet(selected \cup context),
           NEW known, selected \cup context \subseteq known,
           NEW stored, NEW before, BooksKept(known, before), NEW seen, seen \subseteq before,
           NEW f \in Outcome(selected, context, stored, seen, before).facts, f.role \in LegRoles
    PROVE  LET spend == SpendOf(f.basis) receive == ReceiveOf(f.basis) IN
           /\ receive \in selected /\ Exchanged(receive, selected \cup context)
           /\ \/ \E g \in ExchangeLegs(spend, receive) :
                   Existing(g, seen) = {} /\ Persisted(g, before) = "conflict"
              \/ BookedWhole(spend, receive,
                    before \cup Outcome(selected, context, stored, seen, before).facts)
  <1> DEFINE all == selected \cup context
             Visited(x) == Visit(x, Findings(all), stored, seen, before)
             new == Outcome(selected, context, stored, seen, before).facts
             after == before \cup new
  <1>1. \A x \in selected : VisitKind(x, all, stored, seen, before, Visited(x))
    BY VisitKinds
  <1>2. \A g : g \in new <=> \E x \in selected : g \in Visited(x).facts
    BY OutcomeOfVisits
  <1>a. IsFiniteSet(all) /\ selected \subseteq all /\ all \subseteq known
    OBVIOUS
  <1> HIDE DEF Visited, all, new
  <1>3. PICK r \in selected : BooksExchange(r, all, seen, before, f)
    <2>0. f \in new
      BY DEF new
    <2>1. PICK r \in selected :
             /\ f \in Visited(r).facts
             /\ \/ BooksExchange(r, all, seen, before, f)
                \/ BooksReward(r, all, before, f)
                \/ BooksTrade(r, before, f)
      BY <1>1, <1>2, <1>a, <2>0, VisitBooks
    <2>2. ~BooksReward(r, all, before, f)
      BY RewardShape DEF BooksReward, LegRoles
    <2>3. ~BooksTrade(r, before, f)
      BY TradeFactShape, TradeFactsShape DEF BooksTrade, LegRoles, TradeRoles
    <2> QED  BY <2>1, <2>2, <2>3
  <1> DEFINE spend == SpendOf(LedgerGroup(r, all))
  <1>4. spend \in known /\ r \in known /\ SpendAndReceive(spend, r) /\ Exchanged(r, all)
    BY <1>3, <1>a, ExchangedPair DEF BooksExchange
  <1>5. /\ ~LegConflict(spend, r, seen)
        /\ f \in ExchangeLegs(spend, r) \cup ExchangeFees(spend, r)
    BY <1>3 DEF BooksExchange
  <1>6. \A g \in ExchangeLegs(spend, r) \cup ExchangeFees(spend, r) :
            Existing(g, before) = {} => g \in new
    <2>1. \A g \in ExchangeLegs(spend, r) \cup ExchangeFees(spend, r) :
              Existing(g, before) = {} => BooksExchange(r, all, seen, before, g)
      BY <1>3 DEF BooksExchange
    <2>2. \A g : BooksExchange(r, all, seen, before, g) => g \in Visited(r).facts
      BY <1>1, <1>a, VisitBooks
    <2> HIDE DEF spend
    <2> QED  BY <1>2, <2>1, <2>2
  <1> HIDE DEF spend
  <1>7. SpendOf(f.basis) = spend /\ ReceiveOf(f.basis) = r
    <2>1. f.basis = {spend, r}
      BY <1>5, ExchangeShape
    <2> QED  BY <1>4, <2>1, SpendOfTwo
  <1>8. ASSUME NEW g \in ExchangeLegs(spend, r), Persisted(g, before) = "conflict"
        PROVE  Existing(g, seen) = {}
    <2>1. ASSUME NEW h \in seen, SameKey(g, h) PROVE h.basis # g.basis
      BY <1>8, <2>1 DEF Persisted, Existing
    <2>2. Persisted(g, seen) # "conflict"
      BY <1>5 DEF LegConflict
    <2> QED  BY <2>1, <2>2 DEF Persisted, Existing
  <1>9. ASSUME \A g \in ExchangeLegs(spend, r) : Persisted(g, before) # "conflict"
        PROVE  BookedWhole(spend, r, after)
    <2>1. ASSUME NEW g \in ExchangeLegs(spend, r) PROVE g \in after
      <3>1. CASE Persisted(g, before) = "created"
        <4>1. Existing(g, before) = {}
          BY <3>1, NewOnly
        <4> QED  BY <1>6, <4>1
      <3>2. CASE Persisted(g, before) = "reused"
        BY <1>4, <3>2, LegIsThere
      <3> QED  BY <1>9, <3>1, <3>2, NewOnly
    <2>2. ASSUME NEW g \in ExchangeFees(spend, r) PROVE Existing(g, after) # {}
      <3>1. CASE Existing(g, before) = {}
        BY <1>6, <3>1 DEF Existing, SameKey
      <3>2. CASE Existing(g, before) # {}
        BY <3>2 DEF Existing
      <3> QED  BY <3>1, <3>2
    <2> QED  BY <2>1, <2>2 DEF BookedWhole
  <1> QED  BY <1>4, <1>7, <1>8, <1>9 DEF all, new

-----------------------------------------------------------------------------
(* What a run writes does not collide.                                     *)

\* A fee is in conflict only where the leg of its record is: another exchange with the
\* record has booked both.
LEMMA FeeFollowsLeg ==
    ASSUME NEW known, RecordsUnique(known), NEW before, BooksKept(known, before),
           NEW spend \in known, NEW receive \in known, SpendAndReceive(spend, receive),
           NEW x \in {spend, receive},
           NEW f \in LegOf(x, spend, receive), Persisted(f, before) # "conflict",
           NEW g \in ExchangeFee(x, spend, receive), Persisted(g, before) = "conflict"
    PROVE  FALSE
  <1>1. PICK h \in before : SameKey(g, h) /\ h.basis # g.basis
    BY DEF Persisted, Existing
  <1>2. g.role = "ledger-fee" /\ g.basis = {spend, receive} /\ f.basis = {spend, receive}
    BY AcquisitionShape, DisposalShape, FeeShape DEF LegOf
  <1>3. PICK s \in known, t \in known :
            SpendAndReceive(s, t) /\ h \in ExchangeLegs(s, t) \cup ExchangeFees(s, t)
    BY <1>1, <1>2 DEF SameKey, BooksKept, ExchangesFounded, Founded, ExchangeRoles
  \* The leg that was booked with the fee has the key of the leg at hand.
  <1>4. PICK e \in LegOf(x, s, t) : SameKey(f, e)
    BY <1>1, <1>3, LegAndFee
  <1>5. x \in {s, t} /\ h \in ExchangeFee(x, s, t)
    BY <1>1, <1>3, LegAndFee
  <1>6. e \in before
    BY <1>3, <1>4, <1>5 DEF BooksKept, LegsWithFees
  <1>7. h.basis = {s, t} /\ e.basis = {s, t}
    BY <1>4, <1>5, FeeShape, AcquisitionShape, DisposalShape DEF LegOf
  <1>8. PICK d \in before : SameKey(f, d) /\ d.basis = f.basis
    <2>1. Existing(f, before) # {}
      BY <1>4, <1>6 DEF Existing
    <2> QED  BY <2>1 DEF Persisted, Existing
  <1>9. d = e
    <2>1. SameKey(d, e)
      BY <1>4, <1>8, KeysShared
    <2> QED  BY <1>6, <2>1 DEF BooksKept, FactsOnce
  <1> QED  BY <1>1, <1>2, <1>4, <1>7, <1>8, <1>9

\* At most one decision about either record of an exchange.
LEMMA OneDecisionOfLeg ==
    ASSUME NEW r, NEW leg, NEW fee, NEW before,
           \A f, g \in leg : f = g, \A f, g \in fee : f = g,
           \A f \in leg, g \in fee : Persisted(g, before) # "conflict",
           NEW d \in ExchangeDecisions(r, leg, fee, before),
           NEW e \in ExchangeDecisions(r, leg, fee, before)
    PROVE  d = e
  <1>1. CASE leg # {}
    <2>1. PICK f \in leg : leg = {f}
      BY <1>1
    <2>2. ExchangeDecisions(r, leg, fee, before) = {Decision(r, Persisted(f, before), f.role)}
      BY <2>1 DEF ExchangeDecisions
    <2> QED  BY <2>2
  <1>2. CASE leg = {} /\ fee # {}
    <2>1. PICK f \in fee : fee = {f}
      BY <1>2
    <2>2. ExchangeDecisions(r, leg, fee, before) = {Decision(r, Persisted(f, before), f.role)}
      BY <1>2, <2>1 DEF ExchangeDecisions
    <2> QED  BY <2>2
  <1>3. CASE leg = {} /\ fee = {}
    <2>1. ExchangeDecisions(r, leg, fee, before) = {Decision(r, "created", "record")}
      BY <1>3 DEF ExchangeDecisions
    <2> QED  BY <2>1
  <1> QED  BY <1>1, <1>2, <1>3

LEMMA OneDecisionInExchange ==
    ASSUME NEW known, RecordsUnique(known), NEW before, BooksKept(known, before),
           NEW spend \in known, NEW receive \in known, SpendAndReceive(spend, receive),
           ~LegConflict(spend, receive, before),
           NEW d \in BookExchange(spend, receive, before).decisions,
           NEW e \in BookExchange(spend, receive, before).decisions, d.record = e.record
    PROVE  d = e
  <1> DEFINE sold    == ExchangeDisposal(spend, receive)
             bought  == ExchangeAcquisition(spend, receive)
             sellFee == ExchangeFee(spend, spend, receive)
             buyFee  == ExchangeFee(receive, spend, receive)
             first   == ExchangeDecisions(spend, sold, sellFee, before)
             second  == ExchangeDecisions(receive, bought, buyFee, before)
  <1>1. BookExchange(spend, receive, before).decisions = first \cup second
    BY DEF BookExchange, Effect
  <1>2. spend # receive
    BY DEF SpendAndReceive
  <1>3. \A f \in sold \cup bought : Persisted(f, before) # "conflict"
    BY DEF LegConflict, ExchangeLegs
  <1>4. /\ \A f, g \in sold : f = g
        /\ \A f, g \in bought : f = g
        /\ \A f, g \in sellFee : f = g
        /\ \A f, g \in buyFee : f = g
    BY AcquisitionShape, DisposalShape, FeeShape
  <1>5. \A f \in sold, g \in sellFee : Persisted(g, before) # "conflict"
    <2> SUFFICES ASSUME NEW f \in sold, NEW g \in sellFee, Persisted(g, before) = "conflict"
                 PROVE  FALSE
      OBVIOUS
    <2>1. Persisted(f, before) # "conflict" /\ f \in LegOf(spend, spend, receive)
      BY <1>3 DEF LegOf
    <2> QED  BY <2>1, FeeFollowsLeg
  <1>6. \A f \in bought, g \in buyFee : Persisted(g, before) # "conflict"
    <2> SUFFICES ASSUME NEW f \in bought, NEW g \in buyFee, Persisted(g, before) = "conflict"
                 PROVE  FALSE
      OBVIOUS
    <2>1. Persisted(f, before) # "conflict" /\ f \in LegOf(receive, spend, receive)
      BY <1>2, <1>3 DEF LegOf
    <2> QED  BY <2>1, FeeFollowsLeg
  <1>7. /\ \A c \in first : c.record = spend
        /\ \A c \in second : c.record = receive
    BY ExchangeDecides
  <1> HIDE DEF sold, bought, sellFee, buyFee
  <1>8. CASE d.record = spend
    <2>1. d \in first /\ e \in first
      BY <1>1, <1>2, <1>7, <1>8
    <2> QED  BY <1>4, <1>5, <2>1, OneDecisionOfLeg
  <1>9. CASE d.record # spend
    <2>1. d \in second /\ e \in second
      BY <1>1, <1>7, <1>9
    <2> QED  BY <1>4, <1>6, <2>1, OneDecisionOfLeg
  <1> QED  BY <1>8, <1>9

\* Whom a visit decides about: its record, or both of an exchange.
LEMMA DecidedRecords ==
    ASSUME NEW all, NEW r \in all, NEW stored, NEW seen, NEW before,
           NEW effect, VisitKind(r, all, stored, seen, before, effect), NEW d \in effect.decisions
    PROVE  \/ /\ d.record = r
              /\ \A e \in effect.decisions : e = d
           \/ LET spend == SpendOf(LedgerGroup(r, all)) IN
              /\ Exchanged(r, all) /\ ~LegConflict(spend, r, seen)
              /\ effect = BookExchange(spend, r, before)
              /\ d.record \in {spend, r}
  <1> DEFINE spend == SpendOf(LedgerGroup(r, all))
  <1>0. \A verdict : \A c, e \in Only(r, verdict).decisions : c.record = r /\ c = e
    <2> TAKE verdict
    <2>1. Only(r, verdict).decisions = {Decision(r, verdict, "record")}
      BY OnlyParts
    <2> QED  BY <2>1, DecisionParts
  <1>1. CASE Exchanged(r, all)
    <2>1. effect = IF LegConflict(spend, r, seen) THEN Only(r, "conflict")
                   ELSE BookExchange(spend, r, before)
      BY <1>1 DEF VisitKind
    <2> HIDE DEF spend
    <2>2. CASE LegConflict(spend, r, seen)
      BY <1>0, <2>1, <2>2
    <2>3. CASE ~LegConflict(spend, r, seen)
      <3>1. d.record \in {spend, r}
        BY <2>1, <2>3, ExchangeDecidesBoth
      <3> QED  BY <1>1, <2>1, <2>3, <3>1 DEF spend
    <2> QED  BY <2>2, <2>3
  <1>2. CASE Rewarded(r, all)
    <2>1. effect = Effect({Decision(r, Persisted(Reward(r), before), "reward")},
                          New({Reward(r)}, before))
      BY <1>2 DEF VisitKind
    <2>2. effect.decisions = {Decision(r, Persisted(Reward(r), before), "reward")}
      BY <2>1, EffectParts
    <2>3. d = Decision(r, Persisted(Reward(r), before), "reward") /\ \A e \in effect.decisions : e = d
      BY <2>2
    <2> QED  BY <2>3, DecisionParts
  <1>3. CASE Traded(r)
    <2>1. effect = IF AssetConflict(r, stored) THEN Only(r, "conflict")
                   ELSE BookTrade(r, Persisted(TradeFact(r), before))
      BY <1>3 DEF VisitKind
    <2>2. BookTrade(r, Persisted(TradeFact(r), before)).decisions
            = {Decision(r, Persisted(TradeFact(r), before), "trade")}
      BY TradeParts
    <2>3. CASE AssetConflict(r, stored)
      BY <1>0, <2>1, <2>3
    <2>4. CASE ~AssetConflict(r, stored)
      <3>1. /\ d = Decision(r, Persisted(TradeFact(r), before), "trade")
            /\ \A e \in effect.decisions : e = d
        BY <2>1, <2>2, <2>4
      <3> QED  BY <3>1, DecisionParts
    <2> QED  BY <2>3, <2>4
  <1>4. CASE ~Exchanged(r, all) /\ ~Rewarded(r, all) /\ ~Traded(r)
    <2>1. PassedOver(r, all, effect) \/ Alone(r, all, effect)
      BY <1>4 DEF VisitKind
    <2>2. ~PassedOver(r, all, effect)
      BY EffectParts DEF PassedOver
    <2>3. PICK verdict : effect = Only(r, verdict)
      BY <2>1, <2>2 DEF Alone
    <2> QED  BY <1>0, <2>3
  <1> QED  BY <1>1, <1>2, <1>3, <1>4

\* A spend in an exchange is decided by no visit of its own.
LEMMA SpendLeft ==
    ASSUME NEW all, IsFiniteSet(all), NEW r \in all, Exchanged(r, all),
           NEW x \in all, x = SpendOf(LedgerGroup(r, all)),
           NEW stored, NEW seen, NEW before, NEW effect, VisitKind(x, all, stored, seen, before, effect)
    PROVE  effect.decisions = {}
  <1>1. SpendAndReceive(x, r) /\ LedgerGroup(x, all) = LedgerGroup(r, all)
    BY ExchangedPair
  <1>2. InExchange(x, all) /\ ~Exchanged(x, all)
    BY <1>1 DEF Exchanged, InExchange, SpendAndReceive
  <1>3. ~Rewarded(x, all) /\ ~Traded(x)
    BY <1>1, <1>2 DEF Rewarded, Traded, InExchange, IsPair, SpendAndReceive
  <1>4. PassedOver(x, all, effect)
    BY <1>2, <1>3 DEF VisitKind, Alone
  <1>5. effect = Effect({}, {})
    BY <1>4 DEF PassedOver
  <1> QED  BY <1>5, EffectParts

\* The receive of an exchange is known by either of its records.
LEMMA ReceiveShared ==
    ASSUME NEW all, IsFiniteSet(all),
           NEW r \in all, Exchanged(r, all), NEW t \in all, Exchanged(t, all),
           NEW x, x \in {SpendOf(LedgerGroup(r, all)), r}, x \in {SpendOf(LedgerGroup(t, all)), t}
    PROVE  r = t
  <1>1. LedgerGroup(x, all) = LedgerGroup(r, all)
    BY ExchangedPair
  <1>2. LedgerGroup(x, all) = LedgerGroup(t, all)
    BY ExchangedPair
  <1> QED  BY <1>1, <1>2 DEF Exchanged

\* What is written for one run never breaks a unique key by itself.
LEMMA OutcomeConsistent ==
    ASSUME NEW selected, NEW context, IsFiniteSet(selected \cup context),
           NEW known, selected \cup context \subseteq known, RecordsUnique(known),
           NEW stored, NEW before, BooksKept(known, before)
    PROVE  Consistent(Outcome(selected, context, stored, before, before), before)
  <1> DEFINE all == selected \cup context
             Visited(x) == Visit(x, Findings(all), stored, before, before)
             outcome == Outcome(selected, context, stored, before, before)
             Spend(x) == SpendOf(LedgerGroup(x, all))
  <1>1. \A x \in selected : VisitKind(x, all, stored, before, before, Visited(x))
    BY VisitKinds
  <1>2. /\ \A d : d \in outcome.decisions <=> \E x \in selected : d \in Visited(x).decisions
        /\ \A f : f \in outcome.facts <=> \E x \in selected : f \in Visited(x).facts
    BY OutcomeOfVisits
  <1>a. IsFiniteSet(all) /\ selected \subseteq all /\ all \subseteq known
    OBVIOUS
  <1> HIDE DEF Visited, all, outcome
  <1>3. ASSUME NEW r \in selected, Exchanged(r, all)
        PROVE  Spend(r) \in known /\ r \in known /\ Spend(r) \in all /\ SpendAndReceive(Spend(r), r)
    BY <1>3, <1>a, ExchangedPair
  <1>4. OneDecisionEach(outcome.decisions)
    <2> SUFFICES ASSUME NEW r \in selected, NEW d \in Visited(r).decisions,
                        NEW t \in selected, NEW e \in Visited(t).decisions,
                        d.record = e.record
                 PROVE  d = e
      BY <1>2 DEF OneDecisionEach
    <2> DEFINE Single(x, c) == c.record = x /\ \A b \in Visited(x).decisions : b = c
               Paired(x, c) == /\ Exchanged(x, all) /\ ~LegConflict(Spend(x), x, before)
                               /\ Visited(x) = BookExchange(Spend(x), x, before)
                               /\ c.record \in {Spend(x), x}
    <2>1. \A x \in selected : \A c \in Visited(x).decisions : Single(x, c) \/ Paired(x, c)
      <3> SUFFICES ASSUME NEW x \in selected, NEW c \in Visited(x).decisions
                   PROVE  Single(x, c) \/ Paired(x, c)
        OBVIOUS
      <3> QED  BY <1>1, <1>a, DecidedRecords
    <2>2. ASSUME Paired(r, d), r = t PROVE d = e
      <3> HIDE DEF Spend
      <3>1. Spend(r) \in known /\ r \in known /\ SpendAndReceive(Spend(r), r)
        BY <1>3, <2>2
      <3> QED  BY <1>a, <2>2, <3>1, OneDecisionInExchange
    <2>3. CASE Single(r, d) /\ Single(t, e)
      BY <2>3
    <2>4. CASE Paired(r, d) /\ Single(t, e)
      <3>1. t = r \/ t = Spend(r)
        BY <2>4
      <3>2. CASE t = Spend(r)
        <4>1. Visited(t).decisions = {}
          BY <1>1, <1>3, <1>a, <2>4, <3>2, SpendLeft
        <4> QED  BY <4>1
      <3> QED  BY <2>2, <2>4, <3>1, <3>2
    <2>5. CASE Single(r, d) /\ Paired(t, e)
      <3>1. r = t \/ r = Spend(t)
        BY <2>5
      <3>2. CASE r = Spend(t)
        <4>1. Visited(r).decisions = {}
          BY <1>1, <1>3, <1>a, <2>5, <3>2, SpendLeft
        <4> QED  BY <4>1
      <3>3. CASE r = t
        BY <2>5, <3>3
      <3> QED  BY <3>1, <3>2, <3>3
    <2>6. CASE Paired(r, d) /\ Paired(t, e)
      <3>1. r = t
        BY <1>a, <2>6, ReceiveShared
      <3> QED  BY <2>2, <2>6, <3>1
    <2> HIDE DEF Single, Paired
    <2> QED  BY <2>1, <2>3, <2>4, <2>5, <2>6
  <1>5. \A r \in selected : \A f \in Visited(r).facts :
            \/ BooksExchange(r, all, before, before, f)
            \/ BooksReward(r, all, before, f)
            \/ BooksTrade(r, before, f)
    BY <1>1, <1>a, VisitBooks
  <1>6. \A f \in outcome.facts : Existing(f, before) = {}
    <2> SUFFICES ASSUME NEW r \in selected, NEW f \in Visited(r).facts
                 PROVE  Existing(f, before) = {}
      BY <1>2
    <2>1. CASE BooksExchange(r, all, before, before, f) \/ BooksReward(r, all, before, f)
      BY <2>1 DEF BooksExchange, BooksReward
    <2>2. CASE BooksTrade(r, before, f)
      <3>1. Existing(TradeFact(r), before) = {}
        BY <2>2 DEF BooksTrade
      <3>2. CASE f = TradeFact(r)
        BY <3>1, <3>2
      <3>3. CASE f \in TradeFacts(r)
        <4>1. f.role \in TradeRoles /\ f.of = Raw[r].key
          BY <3>3, TradeFactsShape
        <4> SUFFICES ASSUME NEW g \in before, SameKey(f, g) PROVE FALSE
          BY DEF Existing
        <4>2. PICK h \in before : h.role = "trade" /\ h.of = g.of
          BY <4>1 DEF SameKey, BooksKept, TradesWhole
        <4>3. SameKey(TradeFact(r), h)
          BY <4>1, <4>2, TradeFactShape DEF SameKey
        <4> QED  BY <3>1, <4>3 DEF Existing
      <3> QED  BY <2>2, <3>2, <3>3 DEF BooksTrade
    <2> QED  BY <1>5, <2>1, <2>2
  <1>7. \A f, g \in outcome.facts : SameKey(f, g) => f = g
    <2> SUFFICES ASSUME NEW r \in selected, NEW f \in Visited(r).facts,
                        NEW t \in selected, NEW g \in Visited(t).facts, SameKey(f, g)
                 PROVE  f = g
      BY <1>2
    <2>1. f.role = g.role /\ f.of = g.of
      BY DEF SameKey
    <2>2. /\ BooksExchange(r, all, before, before, f) => f.role \in ExchangeRoles
          /\ BooksExchange(t, all, before, before, g) => g.role \in ExchangeRoles
      BY ExchangeShape DEF BooksExchange
    <2>3. /\ BooksReward(r, all, before, f) => f.role = "reward" /\ f.of = Raw[r].key
          /\ BooksReward(t, all, before, g) => g.role = "reward" /\ g.of = Raw[t].key
      BY RewardShape DEF BooksReward
    <2>4. /\ BooksTrade(r, before, f) => f.role \in TradeRoles \cup {"trade"} /\ f.of = Raw[r].key
          /\ BooksTrade(t, before, g) => g.role \in TradeRoles \cup {"trade"} /\ g.of = Raw[t].key
      BY TradeFactShape, TradeFactsShape DEF BooksTrade
    <2>5. CASE BooksExchange(r, all, before, before, f) /\ BooksExchange(t, all, before, before, g)
      <3>1. Exchanged(r, all) /\ Exchanged(t, all)
        BY <2>5 DEF BooksExchange
      <3>2. /\ f \in ExchangeLegs(Spend(r), r) \cup ExchangeFees(Spend(r), r)
            /\ g \in ExchangeLegs(Spend(t), t) \cup ExchangeFees(Spend(t), t)
        BY <2>5 DEF BooksExchange
      <3> HIDE DEF Spend
      <3>3. /\ Spend(r) \in known /\ r \in known /\ SpendAndReceive(Spend(r), r)
            /\ Spend(t) \in known /\ t \in known /\ SpendAndReceive(Spend(t), t)
        BY <1>3, <3>1
      <3>4. PICK x \in {Spend(r), r} : f.of = Raw[x].key
        BY <3>2, ExchangeShape
      <3>5. PICK y \in {Spend(t), t} : g.of = Raw[y].key
        BY <3>2, ExchangeShape
      <3>6. x = y
        <4>1. Raw[x].key = Raw[y].key /\ Raw[x].source = Raw[y].source
          BY <2>1, <3>3, <3>4, <3>5 DEF SpendAndReceive, IsLedger
        <4> QED  BY <3>3, <3>4, <3>5, <4>1 DEF RecordsUnique
      <3>7. r = t
        BY <1>a, <3>1, <3>4, <3>5, <3>6, ReceiveShared DEF Spend
      <3>8. Raw[Spend(r)].key # Raw[r].key
        <4>1. Raw[Spend(r)].source = Raw[r].source /\ Spend(r) # r
          BY <3>3 DEF SpendAndReceive, IsLedger
        <4> QED  BY <3>3, <4>1 DEF RecordsUnique
      <3> QED  BY <3>2, <3>7, <3>8, ExchangeKeys
    <2>6. CASE BooksReward(r, all, before, f) /\ BooksReward(t, all, before, g)
      <3>1. Raw[r].source = Raw[t].source /\ Raw[r].key = Raw[t].key
        BY <2>1, <2>3, <2>6 DEF BooksReward, Rewarded, IsLedger
      <3>2. r = t
        BY <1>a, <3>1 DEF RecordsUnique
      <3> QED  BY <2>6, <3>2 DEF BooksReward
    <2>7. CASE BooksTrade(r, before, f) /\ BooksTrade(t, before, g)
      <3>1. Raw[r].source = Raw[t].source /\ Raw[r].key = Raw[t].key
        BY <2>1, <2>4, <2>7 DEF BooksTrade, Traded, IsTrade
      <3>2. r = t
        BY <1>a, <3>1 DEF RecordsUnique
      <3>3. f \in {TradeFact(r)} \cup TradeFacts(r) /\ g \in {TradeFact(r)} \cup TradeFacts(r)
        BY <2>7, <3>2 DEF BooksTrade
      <3>4. CASE f.role = "trade"
        BY <2>1, <3>3, <3>4, TradeFactsShape DEF TradeRoles
      <3>5. CASE f.role # "trade"
        BY <2>1, <3>3, <3>5, TradeFactShape, TradeFactsShape
      <3> QED  BY <3>4, <3>5
    <2> QED
      BY <1>5, <2>1, <2>2, <2>3, <2>4, <2>5, <2>6, <2>7 DEF ExchangeRoles, TradeRoles
  <1> QED  BY <1>4, <1>6, <1>7 DEF Consistent, KeysUnique, outcome

-----------------------------------------------------------------------------
(* The whole pipeline.                                                     *)

RunsKept ==
    /\ runs = [q \in Requests |-> runs[q]]
    /\ \A q \in Requests : runs[q].selected \cup runs[q].context \subseteq Stored

RunsInv == RunsKept /\ SelectedRecordsDecided /\ TradeLegsExplained /\ RepeatedRunBooksNothing

PipelineInv == EngineInv /\ BooksInv /\ RunsInv

LEMMA PipelineInit == Init => PipelineInv
  <1> SUFFICES ASSUME Init PROVE BooksInv /\ RunsInv
    BY EngineInit DEF PipelineInv
  <1>1. BooksInv
    BY DEF Init, BooksInv, BooksKept, FactsOnce, ExchangesFounded, LegsWithFees, TradesWhole
  <1>2. \A q \in Requests :
            runs[q].selected = {} /\ runs[q].context = {} /\ runs[q].decisions = {}
    BY DEF Init, NoRun
  <1>3. RunsKept
    BY <1>2 DEF Init, RunsKept
  <1>4. SelectedRecordsDecided /\ TradeLegsExplained
    BY <1>2 DEF SelectedRecordsDecided, TradeLegsExplained
  <1>5. \A q \in Requests : \A stored, books :
            Outcome(runs[q].selected, runs[q].context, stored, books, books).facts = {}
    <2> TAKE q \in Requests
    <2> TAKE stored, books
    <2>1. \A f : f \notin Outcome(runs[q].selected, runs[q].context, stored, books, books).facts
      BY <1>2, OutcomeOfVisits
    <2> QED  BY <2>1
  <1> QED  BY <1>1, <1>3, <1>4, <1>5 DEF RunsInv, RepeatedRunBooksNothing

LEMMA StoredFinite ==
    ASSUME EngineInv, NEW S \in SUBSET Stored
    PROVE  IsFiniteSet(S)
  <1>1. IsFiniteSet(Records)
    BY AccountAssumption DEF EngineInv, EngineTypeOK, Records
  <1> QED  BY <1>1, FS_Subset DEF Stored

StoredUnique == RecordsUnique(Stored)

LEMMA StoredAreUnique == EngineInv => StoredUnique
  <1> SUFFICES ASSUME EngineInv, NEW x \in Stored, NEW y \in Stored,
                      Raw[x].source = Raw[y].source, Raw[x].key = Raw[y].key
               PROVE  x = y
    BY DEF StoredUnique, RecordsUnique
  <1>1. offered \in Accounts /\ x \in UNION offered /\ y \in UNION offered
    BY DEF EngineInv, EngineTypeOK, Stored, Records
  <1>2. CanonicalKey[x] = CanonicalKey[y]
    BY <1>1, KeyAssumption
  <1> QED  BY <1>2 DEF EngineInv, ImportInv, KeysOnce

LEMMA LaterUnique == EngineInv' => RecordsUnique(Stored')
  <1>1. EngineInv' => StoredUnique'
    BY StoredAreUnique, PTL
  <1> QED  BY <1>1 DEF StoredUnique, RecordsUnique

LEMMA SessionsHoldStored ==
    ASSUME EngineInv, NEW S \in SUBSET Requests
    PROVE  OfSessions(S) \subseteq Stored
  BY NullIsNoRequest DEF OfSessions, Stored

\* A step that completes no run.
LEMMA NoProjection ==
    ASSUME PipelineInv, [Next]_vars, UNCHANGED <<runs, facts>>
    PROVE  BooksInv' /\ RunsInv'
  <1>1. Stored \subseteq Stored'
    BY HomesStay DEF PipelineInv
  <1> DEFINE later == Stored'
  <1>2. BooksKept(later, facts)
    <2> HIDE DEF later
    <2> QED  BY <1>1, BooksStay DEF PipelineInv, BooksInv, later
  <1>3. RunsKept'
    BY <1>1 DEF PipelineInv, RunsInv, RunsKept
  <1>4. SelectedRecordsDecided' /\ TradeLegsExplained'
    BY DEF PipelineInv, RunsInv, SelectedRecordsDecided, TradeLegsExplained, LeftToItsReceive
  <1>5. ASSUME NEW q \in Requests
        PROVE  Outcome(runs[q].selected, runs[q].context, later, facts, facts).facts = {}
    <2>1. Outcome(runs[q].selected, runs[q].context, Stored, facts, facts).facts \subseteq {}
      BY DEF PipelineInv, RunsInv, RepeatedRunBooksNothing
    <2>2. IsFiniteSet(runs[q].selected \cup runs[q].context)
      BY StoredFinite DEF PipelineInv, RunsInv, RunsKept
    <2>3. KeysUnique({}, facts) /\ FactsOnce(facts)
      BY DEF KeysUnique, PipelineInv, BooksInv, BooksKept
    <2>4. Stored \subseteq later
      BY <1>1
    <2> HIDE DEF later
    <2>5. Outcome(runs[q].selected, runs[q].context, later, facts \cup {}, facts \cup {}).facts = {}
      BY <2>1, <2>2, <2>3, <2>4, RunInVain
    <2> QED  BY <2>5
  <1>6. RepeatedRunBooksNothing'
    BY <1>5 DEF RepeatedRunBooksNothing
  <1> QED  BY <1>2, <1>3, <1>4, <1>6 DEF RunsInv, BooksInv

\* A step that completes one has its records.
LEMMA ProjectedRecords ==
    ASSUME EngineInv, [Next]_vars, NEW q \in Requests, Transform(q) \/ SyncCommit(q)
    PROVE  /\ \E S : Project(q, S)
           /\ Stored' = Stored \cup Selected(q)
           /\ Selected(q) \cup Context(q) \subseteq Stored'
           /\ Context(q) = {} \/ \A x \in Selected(q) \cup Context(q) : IsLedger(x)
           /\ local[q].seen \subseteq facts
  <1>t. local[q] \in Local /\ home \in [Records -> Requests \cup {Null}]
    BY DEF EngineInv, EngineTypeOK
  <1>s. local[q].seen \subseteq facts
    BY <1>t DEF Local
  <1>1. CASE Transform(q)
    <2>1. pc[q] = "transforming" /\ Project(q, local[q].chosen) /\ UNCHANGED <<offered, home>>
      BY <1>1 DEF Transform
    <2>2. Stored' = Stored
      BY <2>1, StoredStays
    <2>3. Selected(q) = OfSessions(local[q].chosen) /\ Context(q) = {}
      BY <2>1 DEF Selected, Context
    <2>4. Selected(q) \subseteq Stored
      BY <1>t, <2>3, SessionsHoldStored DEF Local
    <2>5. \E S : Project(q, S)
      BY <2>1
    <2> QED  BY <1>s, <2>2, <2>3, <2>4, <2>5
  <1>2. CASE SyncCommit(q)
    <2>1. /\ pc[q] = "projecting" /\ offered' = offered
          /\ home' = [r \in Records |-> IF r \in Pending(q) THEN q ELSE home[r]]
          /\ Project(q, SyncContext(q) \cup {q})
      BY <1>2 DEF SyncCommit
    <2>2. Selected(q) = Pending(q) /\ Context(q) = OfSessions(SyncContext(q))
      BY <2>1 DEF Selected, Context
    <2>3. /\ LedgerBatch(local[q].batch) /\ local[q].batch \subseteq Records
          /\ SyncContext(q) \subseteq Requests
          /\ \A s \in SyncContext(q) : \E x \in Stored : home[x] = s /\ IsLedger(x)
      BY <1>t, <2>1 DEF EngineInv, ImportInv, SyncReadsLedger, SyncContext, Local
    <2>4. Pending(q) \subseteq local[q].batch
      BY DEF Pending
    <2>5. Stored' = Stored \cup Pending(q)
      BY <2>1, <2>3, <2>4, NullIsNoRequest DEF Stored, Records
    <2>6. Context(q) \subseteq Stored
      BY <2>2, <2>3, SessionsHoldStored
    <2>7. ASSUME NEW x \in Context(q) PROVE IsLedger(x)
      <3>1. x \in Stored /\ home[x] \in SyncContext(q)
        BY <2>2, <2>6 DEF OfSessions
      <3>2. PICK y \in Stored : home[y] = home[x] /\ IsLedger(y)
        BY <2>3, <3>1
      <3>3. Raw[x].source = Raw[y].source
        BY <3>1, <3>2 DEF EngineInv, ImportInv, OneSourceEach
      <3> QED  BY <3>2, <3>3 DEF IsLedger
    <2>8. \A x \in Selected(q) : IsLedger(x)
      BY <2>2, <2>3, <2>4 DEF LedgerBatch
    <2>9. \E S : Project(q, S)
      BY <2>1
    <2> QED  BY <1>s, <2>2, <2>5, <2>6, <2>7, <2>8, <2>9
  <1> QED  BY <1>1, <1>2

\* A step that completes one.
LEMMA Projection ==
    ASSUME PipelineInv, [Next]_vars, EngineInv', NEW q \in Requests, Transform(q) \/ SyncCommit(q)
    PROVE  BooksInv' /\ RunsInv'
  <1> DEFINE selected == Selected(q)
             context == Context(q)
             seen == local[q].seen
             later == Stored'
             outcome == Outcome(selected, context, later, seen, facts)
             new == outcome.facts
  <1>p. /\ \E S : Project(q, S)
        /\ later = Stored \cup selected
        /\ selected \cup context \subseteq later
        /\ context = {} \/ \A x \in selected \cup context : IsLedger(x)
        /\ seen \subseteq facts
    BY ProjectedRecords DEF PipelineInv
  <1>u. RecordsUnique(later)
    BY LaterUnique
  <1>f. FactsOnce(facts)
    BY DEF PipelineInv, BooksInv, BooksKept
  <1>o. OutcomeOf(q, seen) = outcome
    BY <1>p DEF OutcomeOf
  <1> HIDE DEF outcome, later
  <1>q. PICK S : Project(q, S)
    BY <1>p
  <1> DEFINE run == CompletedRun(S, selected, context, outcome.decisions)
  <1>1. /\ Consistent(outcome, facts)
        /\ runs' = [runs EXCEPT ![q] = run]
        /\ facts' = facts \cup new
    BY <1>o, <1>q DEF Project
  <1> USE DEF later
  <1> HIDE DEF selected, context, seen
  <1>2. Stored \subseteq later
    BY HomesStay DEF PipelineInv
  <1>3. IsFiniteSet(selected \cup context)
    <2>1. IsFiniteSet(Records')
      BY AccountAssumption DEF EngineInv, EngineTypeOK, Records
    <2>2. Stored' \subseteq Records'
      BY DEF Stored
    <2> QED  BY <1>p, <2>1, <2>2, FS_Subset
  <1>4. OneDecisionEach(outcome.decisions) /\ KeysUnique(new, facts)
    BY <1>1 DEF Consistent
  <1>5. /\ run.selected = selected /\ run.context = context
        /\ run.decisions = outcome.decisions
    BY DEF CompletedRun
  <1>6. /\ runs'[q] = run
        /\ \A p \in Requests \ {q} : runs'[p] = runs[p]
        /\ runs' = [p \in Requests |-> runs'[p]]
    <2>1. runs = [p \in Requests |-> runs[p]]
      BY DEF PipelineInv, RunsInv, RunsKept
    <2> HIDE DEF run
    <2> QED  BY <1>1, <2>1
  <1>7. BooksKept(later, facts')
    <2>1. BooksKept(later, facts)
      BY <1>2, BooksStay DEF PipelineInv, BooksInv
    <2>2. BooksKept(later, facts \cup new)
      BY <1>3, <1>4, <1>p, <1>u, <2>1, RunBooks DEF outcome
    <2> QED  BY <1>1, <2>2
  <1> HIDE DEF run, new, outcome
  <1>8. RunsKept'
    <2> SUFFICES ASSUME NEW p \in Requests
                 PROVE  runs'[p].selected \cup runs'[p].context \subseteq later
      BY <1>6 DEF RunsKept
    <2>1. CASE p = q
      BY <1>5, <1>6, <1>p, <2>1
    <2>2. CASE p # q
      BY <1>2, <1>6, <2>2 DEF PipelineInv, RunsInv, RunsKept
    <2> QED  BY <2>1, <2>2
  <1>9. SelectedRecordsDecided'
    <2> SUFFICES ASSUME NEW p \in Requests, NEW r \in runs'[p].selected
                 PROVE  DecidedOnce(r, runs'[p])
      BY DEF SelectedRecordsDecided, LeftToItsReceive, DecidedOnce
    <2>1. CASE p = q
      <3>1. DecidedOnce(r, run)
        <4>1. run.decisions = Outcome(selected, context, later, seen, facts).decisions
          BY <1>5 DEF outcome
        <4>2. OneDecisionEach(run.decisions) /\ r \in selected
          BY <1>4, <1>5, <1>6, <2>1
        <4> QED  BY <1>3, <1>5, <4>1, <4>2, RunDecides
      <3> QED  BY <1>6, <2>1, <3>1
    <2>2. CASE p # q
      BY <1>6, <2>2 DEF PipelineInv, RunsInv, SelectedRecordsDecided, DecidedOnce
    <2> QED  BY <2>1, <2>2
  <1>10. TradeLegsExplained'
    <2> SUFFICES ASSUME NEW p \in Requests, NEW d \in runs'[p].decisions, d.verdict = "duplicate"
                 PROVE  Explained(d, runs'[p])
      BY DEF TradeLegsExplained, Explained
    <2>1. CASE p = q
      <3>1. Explained(d, run)
        <4>1. run.decisions = Outcome(selected, context, later, seen, facts).decisions
          BY <1>5 DEF outcome
        <4>2. d \in run.decisions
          BY <1>6, <2>1
        <4> QED  BY <1>3, <1>5, <1>p, <4>1, <4>2, RunExplains
      <3> QED  BY <1>6, <2>1, <3>1
    <2>2. CASE p # q
      BY <1>6, <2>2 DEF PipelineInv, RunsInv, TradeLegsExplained, Explained
    <2> QED  BY <2>1, <2>2
  <1>11. RepeatedRunBooksNothing'
    <2> SUFFICES ASSUME NEW p \in Requests
                 PROVE  Outcome(runs'[p].selected, runs'[p].context, later, facts', facts').facts = {}
      BY DEF RepeatedRunBooksNothing
    <2>1. CASE p = q
      <3>1. Outcome(selected, context, later, seen, facts).facts \subseteq new
        BY DEF new, outcome
      <3>2. Outcome(selected, context, later, facts \cup new, facts \cup new).facts = {}
        BY <1>3, <1>4, <1>f, <1>p, <3>1, RunInVain
      <3> QED  BY <1>1, <1>5, <1>6, <2>1, <3>2
    <2>2. CASE p # q
      <3>1. Outcome(runs[p].selected, runs[p].context, Stored, facts, facts).facts \subseteq new
        BY DEF PipelineInv, RunsInv, RepeatedRunBooksNothing
      <3>2. IsFiniteSet(runs[p].selected \cup runs[p].context)
        BY StoredFinite DEF PipelineInv, RunsInv, RunsKept
      <3>3. Outcome(runs[p].selected, runs[p].context, later, facts \cup new, facts \cup new).facts = {}
        BY <1>2, <1>4, <1>f, <3>1, <3>2, RunInVain
      <3> QED  BY <1>1, <1>6, <2>2, <3>3
    <2> QED  BY <2>1, <2>2
  <1> QED  BY <1>7, <1>8, <1>9, <1>10, <1>11 DEF RunsInv, BooksInv

LEMMA PipelineNext == PipelineInv /\ [Next]_vars => PipelineInv'
  <1> SUFFICES ASSUME PipelineInv, [Next]_vars PROVE BooksInv' /\ RunsInv'
    BY EngineNext DEF PipelineInv
  <1>1. EngineInv'
    BY EngineNext DEF PipelineInv
  <1>2. ASSUME NEW q \in Requests, Transform(q) \/ SyncCommit(q) PROVE BooksInv' /\ RunsInv'
    BY <1>1, <1>2, Projection
  <1>3. CASE UNCHANGED <<runs, facts>>
    BY <1>3, NoProjection
  <1>4. ASSUME NEW q \in Requests, ~Transform(q), ~SyncCommit(q), RequestStep(q)
        PROVE  UNCHANGED <<runs, facts>>
    BY <1>4, OtherSteps
  <1>5. CASE UNCHANGED vars
    BY <1>3, <1>5 DEF vars
  <1> QED  BY <1>2, <1>3, <1>4, <1>5, StepOfRequest

LEMMA PipelineAlways == Spec => []PipelineInv
  BY PipelineInit, PipelineNext, PTL DEF Spec

\* Type correctness: the tables of the import and what each request remembers; a
\* record is kept by a session that completed, runs and facts rest on kept records.
THEOREM PipelineTypeCorrect == Spec => []TypeOK
  <1>1. PipelineInv => TypeOK
    BY DEF PipelineInv, EngineInv, EngineTypeOK, HomesCompleted, RunsInv, RunsKept, BooksInv,
       BooksKept, TypeOK
  <1> QED  BY <1>1, PipelineAlways, PTL

\* What a transformation is about to write breaks no unique key by itself, however the
\* records came and whatever is booked: only a race fails a run (_persist_projection).
THEOREM NoCollision == Spec => []ProjectionNeverCollides
  <1>1. PipelineInv => ProjectionNeverCollides
    <2> SUFFICES ASSUME PipelineInv, NEW q \in Requests,
                        pc[q] = "transforming" \/ (pc[q] = "projecting" /\ KeysFree(Pending(q)))
                 PROVE  Consistent(OutcomeOf(q, facts), facts)
      BY DEF ProjectionNeverCollides
    <2> DEFINE known == Stored \cup Selected(q)
    <2>1. EngineInv /\ local[q] \in Local /\ offered \in Accounts
      BY DEF PipelineInv, EngineInv, EngineTypeOK
    <2>2. /\ pc[q] = "transforming" => Selected(q) = OfSessions(local[q].chosen) /\ Context(q) = {}
          /\ pc[q] = "projecting" =>
                Selected(q) = Pending(q) /\ Context(q) = OfSessions(local[q].context)
      BY DEF Selected, Context, SyncContext
    <2>3. local[q].chosen \in SUBSET Requests /\ local[q].context \in SUBSET Requests
      BY <2>1 DEF Local
    <2>4. pc[q] = "transforming" => Selected(q) \subseteq Stored
      BY <2>1, <2>2, <2>3, SessionsHoldStored
    <2>5. Context(q) \subseteq Stored
      BY <2>1, <2>2, <2>3, SessionsHoldStored
    <2>6. pc[q] = "projecting" => Pending(q) \subseteq Records
      BY <2>1 DEF Pending, Local
    <2>7. known \subseteq Records
      BY <2>2, <2>4, <2>6 DEF Stored
    <2>8. \A x, y \in known : CanonicalKey[x] = CanonicalKey[y] => x = y
      <3>1. \A x, y \in Stored : CanonicalKey[x] = CanonicalKey[y] => x = y
        BY <2>1 DEF EngineInv, ImportInv, KeysOnce
      <3>2. CASE pc[q] = "transforming"
        BY <2>4, <3>1, <3>2
      <3>3. CASE pc[q] = "projecting" /\ KeysFree(Pending(q))
        <4>1. Sorted(q) \/ FoundRegistered(q)
          BY <2>1, <3>3 DEF EngineInv, ImportInv, BatchSorted
        <4>2. \A x, y \in Pending(q) : CanonicalKey[x] = CanonicalKey[y] => x = y
          BY <4>1 DEF Sorted, FoundRegistered, Pending
        <4>3. \A x \in Pending(q), y \in Stored : CanonicalKey[x] # CanonicalKey[y]
          BY <3>3 DEF KeysFree, WithKeyOf
        <4> QED  BY <2>2, <3>1, <3>3, <4>2, <4>3
      <3> QED  BY <3>2, <3>3
    <2>9. RecordsUnique(known)
      <3> SUFFICES ASSUME NEW x \in known, NEW y \in known,
                          Raw[x].source = Raw[y].source, Raw[x].key = Raw[y].key
                   PROVE  x = y
        BY DEF RecordsUnique
      <3>1. x \in UNION offered /\ y \in UNION offered
        BY <2>7 DEF Records
      <3>2. CanonicalKey[x] = CanonicalKey[y]
        BY <2>1, <3>1, KeyAssumption
      <3> QED  BY <2>8, <3>2
    <2>10. BooksKept(known, facts)
      <3>1. Stored \subseteq known
        OBVIOUS
      <3> HIDE DEF known
      <3> QED  BY <3>1, BooksStay DEF PipelineInv, BooksInv
    <2>11. Selected(q) \cup Context(q) \subseteq known
      BY <2>5
    <2>12. IsFiniteSet(Selected(q) \cup Context(q))
      <3>1. IsFiniteSet(Records)
        BY <2>1, AccountAssumption DEF Records
      <3> QED  BY <2>7, <2>11, <3>1, FS_Subset
    <2>13. OutcomeOf(q, facts) = Outcome(Selected(q), Context(q), known, facts, facts)
      BY DEF OutcomeOf
    <2> HIDE DEF known
    <2> QED  BY <2>9, <2>10, <2>11, <2>12, <2>13, OutcomeConsistent
  <1> QED  BY <1>1, PipelineAlways, PTL

\* A completed run decides every record it selected exactly once, save a spend that it
\* leaves to its receive (KrakenTransformationService.transform).
THEOREM RecordsDecided == Spec => []SelectedRecordsDecided
  BY PipelineAlways, PTL DEF PipelineInv, RunsInv

\* A run books an exchange whole, both legs and the fees of both, unless another run has
\* booked a leg on other evidence between the check of the payload and the booking
\* (_transform_ledger_group_member).
THEOREM UndisturbedExchangesWhole == Spec => UndisturbedExchangesBookedWhole
  <1> DEFINE Whole == \A q \in Requests : runs'[q] # runs[q] =>
                \A f \in facts' \ facts : f.role \in LegRoles =>
                    LET spend == SpendOf(f.basis) receive == ReceiveOf(f.basis) IN
                    Overtaken(q, spend, receive) \/ BookedWhole(spend, receive, facts')
  <1>1. PipelineInv /\ PipelineInv' /\ [Next]_vars => [Whole]_vars
    <2> SUFFICES ASSUME PipelineInv, PipelineInv', [Next]_vars,
                        NEW q \in Requests, runs'[q] # runs[q],
                        NEW f \in facts' \ facts, f.role \in LegRoles
                 PROVE  \/ Overtaken(q, SpendOf(f.basis), ReceiveOf(f.basis))
                        \/ BookedWhole(SpendOf(f.basis), ReceiveOf(f.basis), facts')
      OBVIOUS
    <2>1. PICK p \in Requests : Transform(p) \/ SyncCommit(p)
      BY StepOfRequest, OtherSteps DEF vars
    <2> DEFINE all == Selected(p) \cup Context(p)
               seen == local[p].seen
               later == Stored'
               new == Outcome(Selected(p), Context(p), later, seen, facts).facts
    <2>2. /\ \E S : Project(p, S)
          /\ later = Stored \cup Selected(p)
          /\ all \subseteq later
          /\ seen \subseteq facts
      BY <2>1, ProjectedRecords DEF PipelineInv
    <2>3. PICK S : Project(p, S)
      BY <2>2
    <2>4. OutcomeOf(p, seen).facts = new
      BY <2>2 DEF OutcomeOf
    <2> HIDE DEF new, later
    <2>5. facts' = facts \cup new /\ ExchangesOf(p) \subseteq local[p].looked
      BY <2>3, <2>4 DEF Project
    <2>6. p = q
      BY <2>3 DEF Project, PipelineInv, RunsInv, RunsKept
    <2>7. IsFiniteSet(all)
      <3>1. IsFiniteSet(Records') /\ Stored' \subseteq Records'
        BY AccountAssumption DEF PipelineInv, EngineInv, EngineTypeOK, Records, Stored
      <3> QED  BY <2>2, <3>1, FS_Subset DEF later
    <2>8. BooksKept(later, facts)
      BY <2>2, BooksStay DEF PipelineInv, BooksInv
    <2> DEFINE spend == SpendOf(f.basis)
               receive == ReceiveOf(f.basis)
    <2>9. /\ receive \in Selected(p) /\ Exchanged(receive, all)
          /\ \/ \E g \in ExchangeLegs(spend, receive) :
                  Existing(g, seen) = {} /\ Persisted(g, facts) = "conflict"
             \/ BookedWhole(spend, receive, facts \cup new)
      <3> DEFINE selected == Selected(p)
                 context == Context(p)
      <3>1. new = Outcome(selected, context, later, seen, facts).facts
        BY DEF new
      <3>2. /\ f \in Outcome(selected, context, later, seen, facts).facts
            /\ IsFiniteSet(selected \cup context) /\ selected \cup context \subseteq later
            /\ seen \subseteq facts
        BY <2>2, <2>5, <2>7, <3>1
      <3> HIDE DEF selected, context, seen, all
      <3>3. /\ receive \in selected /\ Exchanged(receive, selected \cup context)
            /\ \/ \E g \in ExchangeLegs(spend, receive) :
                    Existing(g, seen) = {} /\ Persisted(g, facts) = "conflict"
               \/ BookedWhole(spend, receive,
                     facts \cup Outcome(selected, context, later, seen, facts).facts)
        BY <2>8, <3>2, BooksWhole
      <3> QED  BY <3>1, <3>3 DEF selected, context, all
    <2>10. receive \in local[p].looked
      BY <2>5, <2>9 DEF ExchangesOf
    <2> HIDE DEF spend, receive
    <2>11. Overtaken(q, spend, receive) \/ BookedWhole(spend, receive, facts')
      BY <2>5, <2>6, <2>9, <2>10 DEF Overtaken
    <2> QED  BY <2>11 DEF spend, receive
  <1> QED  BY <1>1, PipelineAlways, PTL DEF Spec, UndisturbedExchangesBookedWhole

\* A ledger entry is put aside as part of a trade only by a run that decides the trade
\* (reconcile_trade_ledgers).
THEOREM TradesExplained == Spec => []TradeLegsExplained
  BY PipelineAlways, PTL DEF PipelineInv, RunsInv

\* Once a run has completed, transforming the same records again books nothing.
THEOREM RepeatedRunsIdle == Spec => []RepeatedRunBooksNothing
  BY PipelineAlways, PTL DEF PipelineInv, RunsInv
=============================================================================
