-------------------------- MODULE KrakenSyncProofs --------------------------
(* Proofs about KrakenSync, for every number of requests and entries, and that *)
(* it implements LedgerCheckpoint and RecordStore. *)
EXTENDS KrakenSync, TLAPS

USE TimeAssumption, NullAssumption DEF provider, batches

-----------------------------------------------------------------------------
(* Types.                                                                  *)

LEMMA FailedRowType ==
    ASSUME NEW row \in Row, NEW code \in ErrorCodes
    PROVE  fail_sync(row, code) \in Row
  BY DEF fail_sync, Row, Statuses

LEMMA CompletedRowType ==
    ASSUME NEW row \in Row, NEW ids \in SUBSET Entries
    PROVE  complete_sync(row, ids) \in Row
  BY DEF complete_sync, Row, Statuses

LEMMA LocalType ==
    ASSUME NEW l \in Local, NEW i \in Int, NEW j \in Int, NEW S \in SUBSET Record
    PROVE  /\ [l EXCEPT !.from = i, !.to = j] \in Local
           /\ [l EXCEPT !.read = S] \in Local
           /\ [l EXCEPT !.inputs = S] \in Local
  BY DEF Local

LEMMA RecordType ==
    ASSUME TypeOK, NEW from \in Int, NEW to \in Int
    PROVE  Snapshot(from, to) \subseteq Record
  BY DEF TypeOK, Snapshot, Record

LEMMA MergedType ==
    ASSUME TypeOK, NEW batch \in SUBSET Record
    PROVE  Merged(batch) \in [Entries -> Contents \cup {Null}]
<1> SUFFICES ASSUME NEW e \in Entries, e \in Ids(batch)
             PROVE  (CHOOSE c \in Contents : <<e, c>> \in batch) \in Contents
  BY DEF TypeOK, Merged
<1>1. PICK rec \in batch : e = rec[1]
  BY DEF Ids
<1>2. rec[2] \in Contents /\ rec = <<e, rec[2]>>
  BY <1>1 DEF Record
<1> QED
  BY <1>1, <1>2

LEMMA StoredType ==
    ASSUME TypeOK, NEW batch \in SUBSET Record
    PROVE  Stored(batch) \in [Entries -> Contents \cup {Null}]
  BY MergedType DEF TypeOK, Stored

\* Every step of every request, and of the world around it, keeps the state
\* within its types.
THEOREM TypeCorrect == Spec => []TypeOK
<1>1. Init => TypeOK
  BY DEF Init, TypeOK, NoRow, Row, NoLocal, Local, Statuses, ErrorCodes, Steps, Record
<1>2. TypeOK /\ [Next]_vars => TypeOK'
  <2> SUFFICES ASSUME TypeOK, [Next]_vars PROVE TypeOK'
    OBVIOUS
  <2> USE DEF TypeOK
  <2>1. ASSUME Tick PROVE TypeOK'
    BY <2>1 DEF Tick
  <2>2. ASSUME NEW e \in Entries, Publish(e) PROVE TypeOK'
    BY <2>2 DEF Publish
  <2>3. ASSUME NEW e \in Entries, NEW c \in Contents, Amend(e, c) PROVE TypeOK'
    BY <2>3 DEF Amend
  <2>4. ASSUME NEW batch \in SUBSET {<<e, content[e]>> : e \in visible},
               OtherImport(batch) \/ OtherImportFails(batch)
        PROVE  TypeOK'
    <3>1. batch \in SUBSET Record
      BY DEF Record
    <3> QED
      BY <2>4, <3>1, MergedType DEF OtherImport, OtherImportFails
  <2>5. ASSUME NEW r \in Requests, PlanWindow(r) PROVE TypeOK'
    <3>1. PICK from \in WindowStarts :
              local' = [local EXCEPT ![r] = [@ EXCEPT !.from = from,
                                                       !.to = now - SettlementLag]]
      BY <2>5 DEF PlanWindow
    <3>2. from \in Int /\ now - SettlementLag \in Int
      BY DEF WindowStarts, LatestSuccessful, Completed, Later, Row
    <3>3. local' \in [Requests -> Local]
      BY <3>1, <3>2, LocalType
    <3> QED
      BY <2>5, <3>3 DEF PlanWindow, GoTo, Steps
  <2>6. ASSUME NEW r \in Requests, PlanProcessing(r) PROVE TypeOK'
    BY <2>6 DEF PlanProcessing, GoTo, Finish, Steps, Local, NoLocal
  <2>7. ASSUME NEW r \in Requests, RejectRunning(r) PROVE TypeOK'
    BY <2>7 DEF RejectRunning, Finish, Steps, Local, NoLocal
  <2>8. ASSUME NEW r \in Requests, RecoverStale(r) PROVE TypeOK'
    <3>1. local[r].active \in Requests
      BY <2>8 DEF RecoverStale, Local
    <3>2. runs' \in [Requests -> Row]
      BY <2>8, <3>1, FailedRowType DEF RecoverStale, ErrorCodes
    <3> QED
      BY <2>8, <3>2 DEF RecoverStale, GoTo, Steps
  <2>9. ASSUME NEW r \in Requests, InsertRun(r) PROVE TypeOK'
    <3> DEFINE row == [status |-> "processing", from |-> local[r].from,
                       to |-> local[r].to, startedAt |-> now,
                       error |-> "none", digest |-> FALSE, ids |-> {}]
    <3>2. row \in Row
      BY DEF Row, Statuses, ErrorCodes, Local
    <3>1. runs' \in [Requests -> Row]
      BY <2>9, <3>2 DEF InsertRun
    <3> QED
      BY <2>9, <3>1 DEF InsertRun, GoTo, Finish, Steps, Local, NoLocal
  <2>10. ASSUME NEW r \in Requests, ReadPreview(r) PROVE TypeOK'
    <3>1. Snapshot(local[r].from, local[r].to) \in SUBSET Record
      BY RecordType DEF Local
    <3>2. local' \in [Requests -> Local]
      BY <2>10, <3>1, LocalType DEF ReadPreview
    <3> QED
      BY <2>10, <3>2 DEF ReadPreview, GoTo, Steps
  <2>11. ASSUME NEW r \in Requests, ReadConfirmation(r) PROVE TypeOK'
    BY <2>11 DEF ReadConfirmation, GoTo, Steps
  <2>12. ASSUME NEW r \in Requests, CompareKnown(r) PROVE TypeOK'
    <3>1. {rec \in local[r].read : Unknown(rec)} \in SUBSET Record
      BY DEF Local
    <3> DEFINE unknown == {rec \in local[r].read : Unknown(rec)}
    <3>3. local[r] \in Local
      OBVIOUS
    <3>4. [local[r] EXCEPT !.inputs = unknown] \in Local
      BY <3>1, <3>3 DEF Local
    <3>5. \/ UNCHANGED local
          \/ local' = [local EXCEPT ![r] = [local[r] EXCEPT !.inputs = unknown]]
      BY <2>12 DEF CompareKnown
    <3> HIDE DEF unknown
    <3>2. local' \in [Requests -> Local]
      BY <3>4, <3>5
    <3> QED
      BY <2>12, <3>2 DEF CompareKnown, GoTo, Steps
  <2>13. ASSUME NEW r \in Requests, Commit(r) PROVE TypeOK'
    <3>1. local[r].inputs \in SUBSET Record /\ local[r].read \in SUBSET Record
      BY DEF Local
    <3>2. Ids(local[r].read) \in SUBSET Entries
      BY <3>1 DEF Ids, Record
    <3>3. runs' \in [Requests -> Row]
      BY <2>13, <3>2, CompletedRowType DEF Commit
    <3>4. raw' \in [Entries -> Contents \cup {Null}] /\ done' \subseteq SUBSET Record
      BY <2>13, <3>1, StoredType DEF Commit
    <3> QED
      BY <2>13, <3>3, <3>4 DEF Commit, Finish, Steps, Local, NoLocal
  <2>14. ASSUME NEW r \in Requests, CommitRefused(r) PROVE TypeOK'
    BY <2>14 DEF CommitRefused, GoTo, Steps
  <2>15. ASSUME NEW r \in Requests, Fail(r) PROVE TypeOK'
    BY <2>15 DEF Fail, GoTo, Steps
  <2>16. ASSUME NEW r \in Requests, RecordFailureRead(r) PROVE TypeOK'
    BY <2>16 DEF RecordFailureRead, GoTo, Finish, Steps, Local, NoLocal
  <2>17. ASSUME NEW r \in Requests, RecordFailureWrite(r) PROVE TypeOK'
    <3>1. runs' \in [Requests -> Row]
      BY <2>17, FailedRowType DEF RecordFailureWrite, ErrorCodes
    <3> QED
      BY <2>17, <3>1 DEF RecordFailureWrite, Finish, Steps, Local, NoLocal
  <2>18. ASSUME NEW r \in Requests, Crash(r) PROVE TypeOK'
    BY <2>18 DEF Crash, Finish, Steps, Local, NoLocal
  <2>19. ASSUME UNCHANGED vars PROVE TypeOK'
    BY <2>19 DEF vars
  <2> QED
    BY <2>1, <2>2, <2>3, <2>4, <2>5, <2>6, <2>7, <2>8, <2>9, <2>10, <2>11, <2>12,
       <2>13, <2>14, <2>15, <2>16, <2>17, <2>18, <2>19
       DEF Next, Environment, RequestStep
<1> QED
  BY <1>1, <1>2, PTL DEF Spec

-----------------------------------------------------------------------------
(* The store only grows.                                                   *)

LEMMA StoredKeeps ==
    ASSUME NEW batch, NEW e \in Entries, raw[e] # Null
    PROVE  Merged(batch)[e] = raw[e] /\ Stored(batch)[e] = raw[e]
  BY DEF Stored, Merged

LEMMA StoreGrows ==
    ASSUME TypeOK, [Next]_vars
    PROVE  /\ \A e \in Entries : raw[e] # Null => raw'[e] = raw[e]
           /\ failed \subseteq failed'
<1>1. CASE Environment
  <2>1. failed \subseteq failed'
    BY <1>1 DEF Environment, Tick, Publish, Amend, OtherImport, OtherImportFails
  <2>2. raw' = raw \/ \E batch : raw' = Merged(batch)
    BY <1>1 DEF Environment, Tick, Publish, Amend, OtherImport, OtherImportFails
  <2>3. ASSUME NEW e \in Entries, raw[e] # Null PROVE raw'[e] = raw[e]
    <3>1. CASE \E batch : raw' = Merged(batch)
      <4>1. PICK batch : raw' = Merged(batch)
        BY <3>1
      <4> QED
        BY <2>3, <4>1, StoredKeeps
    <3> QED
      BY <2>2, <3>1
  <2> QED
    BY <2>1, <2>3
<1>2. ASSUME NEW r \in Requests, PlanWindow(r) \/ RequestStep(r) \/ Fail(r) \/ Crash(r)
      PROVE  /\ \A e \in Entries : raw[e] # Null => raw'[e] = raw[e]
             /\ failed \subseteq failed'
  <2>1. failed' = failed /\ raw' \in {raw, Stored(local[r].inputs)}
    BY <1>2
       DEF PlanWindow, RequestStep, PlanProcessing, RejectRunning, RecoverStale,
           InsertRun, ReadPreview, ReadConfirmation, CompareKnown, Commit,
           CommitRefused, RecordFailureRead, RecordFailureWrite, Fail, Crash
  <2> QED
    BY <2>1, StoredKeeps
<1>3. CASE UNCHANGED vars
  BY <1>3 DEF vars
<1> QED
  BY <1>1, <1>2, <1>3 DEF Next

\* A known ledger id is never overwritten by any step.
THEOREM NeverOverwritten == Spec => KnownEntriesNeverOverwritten
<1>1. TypeOK /\ [Next]_vars
        => [\A e \in Entries : raw[e] # Null => raw'[e] = raw[e]]_vars
  BY StoreGrows
<1> QED
  BY <1>1, TypeCorrect, PTL DEF Spec, KnownEntriesNeverOverwritten

LEMMA HeldGrows ==
    ASSUME TypeOK, [Next]_vars, NEW e \in Entries, Held(e)
    PROVE  Held(e)'
  BY StoreGrows DEF Held

\* After a successful import every record of the batch is held.
LEMMA ImportHolds ==
    ASSUME TypeOK, RegisteredBatchesHeld, NEW batch \in SUBSET Record,
           (AlreadyRegistered(batch) /\ raw' = raw) \/ raw' = Merged(batch),
           failed' = failed, NEW e \in Ids(batch)
    PROVE  Held(e)'
<1>1. e \in Entries
  BY DEF Ids, Record
<1>2. CASE AlreadyRegistered(batch) /\ raw' = raw
  <2>1. Held(e)
    BY <1>2 DEF AlreadyRegistered, RegisteredBatchesHeld, Held
  <2> QED
    BY <1>2, <2>1 DEF Held
<1>3. CASE raw' = Merged(batch)
  <2>1. CASE raw[e] # Null
    BY <1>1, <1>3, <2>1, StoredKeeps DEF Held
  <2>2. CASE raw[e] = Null
    <3>1. PICK rec \in batch : e = rec[1]
      BY DEF Ids
    <3>2. rec[2] \in Contents /\ rec = <<e, rec[2]>>
      BY <3>1 DEF Record
    <3>3. (CHOOSE c \in Contents : <<e, c>> \in batch) \in Contents
      BY <3>1, <3>2
    <3>4. raw'[e] = CHOOSE c \in Contents : <<e, c>> \in batch
      BY <1>1, <1>3, <2>2 DEF Merged
    <3> QED
      BY <3>3, <3>4 DEF Held
  <2> QED
    BY <2>1, <2>2
<1> QED
  BY <1>2, <1>3

-----------------------------------------------------------------------------
(* The checkpoint.                                                         *)

\* What a step leaves alone that does not carry a request forward.
RowKept(q) ==
    /\ runs'[q].to = runs[q].to
    /\ runs'[q].digest = runs[q].digest
    /\ runs'[q].ids = runs[q].ids
    /\ runs'[q].status = "completed" => runs[q].status = "completed"

WorkKept(q) ==
    /\ pc'[q] # "done" => /\ pc[q] # "done"
                          /\ local'[q].from = local[q].from
                          /\ local'[q].to = local[q].to
                          /\ local'[q].read = local[q].read
                          /\ local'[q].inputs = local[q].inputs
    /\ pc'[q] \in Planned => pc[q] \in Planned
    /\ pc'[q] \in Working => pc[q] \in Working
    /\ pc'[q] \in HasRead => pc[q] \in HasRead
    /\ pc'[q] = "committing" => pc[q] = "committing"

LEMMA Frame ==
    ASSUME TypeOK, TypeOK', [Next]_vars, now <= now',
           NEW q \in Requests, RequestInv(q), RowKept(q), WorkKept(q)
    PROVE  RequestInv(q)'
<1> USE DEF Planned, Working, HasRead
<1>0. \A e \in Entries : Held(e) => Held(e)'
  BY HeldGrows
<1>1. WindowAdjoins(q)'
  <2> SUFFICES ASSUME pc'[q] \in Planned
               PROVE  /\ InitialStart <= local'[q].from
                      /\ \A e \in Entries :
                            InitialStart <= OccurredAt[e] /\ OccurredAt[e] < local'[q].from
                                => Held(e)'
                      /\ local'[q].to <= now' - SettlementLag
    BY DEF WindowAdjoins, CoveredBefore
  <2>1. pc[q] \in Planned /\ local'[q].from = local[q].from /\ local'[q].to = local[q].to
    BY DEF WorkKept
  <2>2. local[q].to \in Int /\ now \in Int /\ now' \in Int
    BY DEF TypeOK, Local
  <2> QED
    BY <1>0, <2>1, <2>2 DEF RequestInv, WindowAdjoins, CoveredBefore
<1>2. RowMatchesWindow(q)'
  BY DEF RequestInv, RowMatchesWindow, RowKept, WorkKept
<1>3. ReadIsComplete(q)'
  BY DEF RequestInv, ReadIsComplete, WorkKept
<1>4. InputsAreComplete(q)'
  <2> SUFFICES ASSUME pc'[q] = "committing", NEW rec \in local'[q].read
               PROVE  rec \in local'[q].inputs \/ Held(rec[1])'
    BY DEF InputsAreComplete
  <2>1. /\ pc[q] = "committing"
        /\ local'[q].read = local[q].read
        /\ local'[q].inputs = local[q].inputs
    BY DEF WorkKept
  <2>2. rec[1] \in Entries
    BY <2>1 DEF TypeOK, Local, Record
  <2> QED
    BY <1>0, <2>1, <2>2 DEF RequestInv, InputsAreComplete
<1>5. CompletedRunCovers(q)'
  <2>1. ASSUME runs'[q].digest
        PROVE  /\ \A e \in Entries :
                     InitialStart <= OccurredAt[e] /\ OccurredAt[e] < runs'[q].to - Lookback
                         => Held(e)'
               /\ \A e \in runs'[q].ids : Held(e)'
    <3>1. runs[q].ids \subseteq Entries
      BY DEF TypeOK, Row
    <3> QED
      BY <1>0, <2>1, <3>1 DEF RequestInv, CompletedRunCovers, CoveredBefore, RowKept
  <2> QED
    BY <2>1 DEF RequestInv, CompletedRunCovers, CoveredBefore, RowKept
<1> QED
  BY <1>1, <1>2, <1>3, <1>4, <1>5 DEF RequestInv

\* Everything an active request has to do with the others.
LEMMA OthersKept ==
    ASSUME TypeOK, NEW r \in Requests, NEW q \in Requests, q # r,
           PlanWindow(r) \/ RequestStep(r) \/ Fail(r) \/ Crash(r)
    PROVE  RowKept(q) /\ WorkKept(q)
<1>1. pc'[q] = pc[q] /\ local'[q] = local[q]
  BY DEF TypeOK, PlanWindow, RequestStep, PlanProcessing, RejectRunning, RecoverStale,
         InsertRun, ReadPreview, ReadConfirmation, CompareKnown, Commit,
         CommitRefused, RecordFailureRead, RecordFailureWrite, Fail, Crash, GoTo, Finish
<1>2. CASE RecoverStale(r)
  <2>1. runs'[q] = runs[q] \/ runs'[q] = fail_sync(runs[q], "stale_recovered")
    BY <1>2 DEF RecoverStale, TypeOK
  <2>2. runs[q] \in Row
    BY DEF TypeOK
  <2>3. RowKept(q)
    BY <2>1, <2>2 DEF RowKept, fail_sync, Row
  <2> QED
    BY <1>1, <2>3 DEF WorkKept
<1>3. CASE ~RecoverStale(r)
  <2>1. runs'[q] = runs[q]
    BY <1>3 DEF TypeOK, PlanWindow, RequestStep, PlanProcessing, RejectRunning,
         InsertRun, ReadPreview, ReadConfirmation, CompareKnown, Commit,
         CommitRefused, RecordFailureRead, RecordFailureWrite, Fail, Crash
  <2> QED
    BY <1>1, <2>1 DEF RowKept, WorkKept
<1> QED
  BY <1>2, <1>3

\* The steps of a request that take it no further: they reject it, turn it to
\* failing, or end it.
LEMMA OwnKept ==
    ASSUME TypeOK, NEW r \in Requests,
           \/ PlanProcessing(r) \/ RejectRunning(r) \/ RecoverStale(r)
           \/ ReadConfirmation(r) \/ CommitRefused(r) \/ Fail(r) \/ Crash(r)
           \/ RecordFailureRead(r) \/ RecordFailureWrite(r)
    PROVE  RowKept(r) /\ WorkKept(r)
<1> USE DEF Planned, Working, HasRead, GoTo, Finish
<1>1. runs[r] \in Row /\ local[r] \in Local
  BY DEF TypeOK
<1>2. CASE PlanProcessing(r)
  <2>1. runs' = runs
    BY <1>2 DEF PlanProcessing
  <2>2. CASE local[r].to <= local[r].from
    BY <1>2, <2>1, <2>2 DEF PlanProcessing, RowKept, WorkKept, TypeOK
  <2>3. CASE ~(local[r].to <= local[r].from)
    <3>1. pc[r] = "planned" /\ pc'[r] = "checked"
      BY <1>2, <2>3 DEF PlanProcessing, TypeOK
    <3>2. \/ local' = local
          \/ \E a \in Requests : local' = [local EXCEPT ![r].active = a]
      BY <1>2, <2>3 DEF PlanProcessing
    <3>3. /\ local'[r].from = local[r].from
          /\ local'[r].to = local[r].to
          /\ local'[r].read = local[r].read
          /\ local'[r].inputs = local[r].inputs
      BY <1>1, <3>2 DEF TypeOK, Local
    <3> QED
      BY <2>1, <3>1, <3>3 DEF RowKept, WorkKept
  <2> QED
    BY <2>2, <2>3
<1>3. CASE RejectRunning(r)
  BY <1>3 DEF RejectRunning, RowKept, WorkKept, TypeOK
<1>4. CASE RecoverStale(r)
  <2>1. runs'[r] = runs[r] \/ runs'[r] = fail_sync(runs[r], "stale_recovered")
    BY <1>4 DEF RecoverStale, TypeOK
  <2>2. RowKept(r)
    BY <1>1, <2>1 DEF RowKept, fail_sync, Row
  <2> QED
    BY <1>4, <2>2 DEF RecoverStale, WorkKept, TypeOK
<1>5. CASE ReadConfirmation(r)
  BY <1>5 DEF ReadConfirmation, RowKept, WorkKept, TypeOK
<1>6. CASE CommitRefused(r) \/ Fail(r)
  BY <1>6 DEF CommitRefused, Fail, RowKept, WorkKept, TypeOK
<1>7. CASE Crash(r)
  BY <1>7 DEF Crash, RowKept, WorkKept, TypeOK
<1>8. CASE RecordFailureRead(r)
  BY <1>8 DEF RecordFailureRead, RowKept, WorkKept, TypeOK
<1>9. CASE RecordFailureWrite(r)
  <2>1. runs'[r] = fail_sync(runs[r], "run_failed")
    BY <1>9 DEF RecordFailureWrite, TypeOK
  <2>2. RowKept(r)
    BY <1>1, <2>1 DEF RowKept, fail_sync, Row
  <2> QED
    BY <1>9, <2>2 DEF RecordFailureWrite, WorkKept, TypeOK
<1> QED
  BY <1>2, <1>3, <1>4, <1>5, <1>6, <1>7, <1>8, <1>9

\* A window starts where nothing older is missing: at InitialStart, or Lookback
\* before the end of a run that has completed.
LEMMA PlanWindowKeeps ==
    ASSUME TypeOK, TypeOK', CheckpointInv, [Next]_vars, NEW r \in Requests, PlanWindow(r)
    PROVE  RequestInv(r)'
<1> USE DEF Planned, Working, HasRead
<1>1. PICK from \in WindowStarts :
          local' = [local EXCEPT ![r] = [@ EXCEPT !.from = from,
                                                  !.to = now - SettlementLag]]
  BY DEF PlanWindow
<1>2. /\ pc[r] = "idle" /\ pc'[r] = "planned"
      /\ UNCHANGED <<now, raw, failed, runs>>
  BY DEF PlanWindow, GoTo, TypeOK
<1>3. local'[r].from = from /\ local'[r].to = now - SettlementLag
  BY <1>1 DEF TypeOK, Local
<1>4. InitialStart <= from /\ CoveredBefore(from)
  <2>1. CASE from = InitialStart
    BY <2>1 DEF CoveredBefore, TypeOK
  <2>2. CASE from # InitialStart
    <3>1. PICK p \in Requests : /\ runs[p].status = "completed"
                               /\ from = Later(InitialStart, runs[p].to - Lookback)
      BY <1>1, <2>2 DEF WindowStarts, LatestSuccessful, Completed
    <3>2. CoveredBefore(runs[p].to - Lookback)
      BY <3>1 DEF CheckpointInv, RequestInv, CompletedRunCovers
    <3>3. runs[p].to \in Int
      BY DEF TypeOK, Row
    <3> QED
      BY <3>1, <3>2, <3>3 DEF CoveredBefore, Later
  <2> QED
    BY <2>1, <2>2
<1>5. WindowAdjoins(r)'
  BY <1>2, <1>3, <1>4 DEF WindowAdjoins, CoveredBefore, Held, TypeOK
<1>6. RequestInv(r)
  BY DEF CheckpointInv
<1>7. RowMatchesWindow(r)' /\ ReadIsComplete(r)' /\ InputsAreComplete(r)'
  BY <1>2, <1>6 DEF RequestInv, RowMatchesWindow, ReadIsComplete, InputsAreComplete
<1>8. CompletedRunCovers(r)'
  BY <1>2, <1>6 DEF RequestInv, CompletedRunCovers, CoveredBefore, Held
<1> QED
  BY <1>5, <1>7, <1>8 DEF RequestInv

LEMMA InsertRunKeeps ==
    ASSUME TypeOK, TypeOK', CheckpointInv, [Next]_vars, now' = now,
           NEW r \in Requests, InsertRun(r)
    PROVE  RequestInv(r)'
<1> USE DEF Planned, Working, HasRead
<1>0. RequestInv(r)
  BY DEF CheckpointInv
<1>1. CASE \E a \in Requests : runs[a].status = "processing"
  <2>1. RowKept(r) /\ WorkKept(r)
    BY <1>1 DEF InsertRun, RowKept, WorkKept, Finish, TypeOK
  <2> QED
    BY <1>0, <2>1, Frame DEF TypeOK
<1>2. CASE ~\E a \in Requests : runs[a].status = "processing"
  <2>1. /\ pc[r] \in {"recovered", "checked"} /\ pc'[r] = "reading"
        /\ UNCHANGED <<now, raw, failed, local>>
        /\ runs'[r].to = local[r].to
        /\ runs'[r].digest = FALSE
        /\ runs'[r].status = "processing"
    BY <1>2 DEF InsertRun, GoTo, TypeOK
  <2>2. WindowAdjoins(r)'
    BY <1>0, <2>1 DEF RequestInv, WindowAdjoins, CoveredBefore, Held
  <2> QED
    BY <2>1, <2>2 DEF RequestInv, RowMatchesWindow, ReadIsComplete,
         InputsAreComplete, CompletedRunCovers
<1> QED
  BY <1>1, <1>2

\* By the time a window is read, every entry in it that is not read again has
\* been published: it is older than the longest delay.
LEMMA ReadPreviewKeeps ==
    ASSUME TypeOK, TypeOK', CheckpointInv, [Next]_vars, NEW r \in Requests, ReadPreview(r)
    PROVE  RequestInv(r)'
<1> USE DEF Planned, Working, HasRead
<1>0. RequestInv(r)
  BY DEF CheckpointInv
<1> DEFINE found == Snapshot(local[r].from, local[r].to)
<1>1. /\ pc[r] = "reading" /\ pc'[r] = "confirming"
      /\ UNCHANGED <<now, raw, failed, runs>>
      /\ local'[r].from = local[r].from
      /\ local'[r].to = local[r].to
      /\ local'[r].read = found
  BY DEF ReadPreview, GoTo, TypeOK, Local
<1>2. ASSUME NEW e \in Entries, local[r].from <= OccurredAt[e],
             OccurredAt[e] < local[r].to - Lookback
      PROVE  e \in Ids(found)
  <2>1. local[r].from \in Int /\ local[r].to \in Int /\ OccurredAt[e] \in Nat /\ now \in Nat
    BY DEF TypeOK, Local
  <2>2. local[r].to <= now - SettlementLag
    BY <1>0, <1>1 DEF RequestInv, WindowAdjoins
  <2>3. e \in visible
    BY <1>2, <2>1, <2>2, DelayAssumption DEF CheckpointInv, UnpublishedIsRecent
  <2>4. <<e, content[e]>> \in found
    BY <1>2, <2>1, <2>3 DEF Snapshot
  <2>5. <<e, content[e]>>[1] = e
    OBVIOUS
  <2> HIDE DEF found
  <2> QED
    BY <2>4, <2>5 DEF Ids
<1>3. ReadIsComplete(r)'
  BY <1>1, <1>2 DEF ReadIsComplete
<1>4. WindowAdjoins(r)' /\ RowMatchesWindow(r)' /\ InputsAreComplete(r)'
  BY <1>0, <1>1 DEF RequestInv, WindowAdjoins, RowMatchesWindow, InputsAreComplete,
                    CoveredBefore, Held
<1>5. CompletedRunCovers(r)'
  BY <1>0, <1>1 DEF RequestInv, CompletedRunCovers, CoveredBefore, Held
<1> QED
  BY <1>3, <1>4, <1>5 DEF RequestInv

LEMMA CompareKnownKeeps ==
    ASSUME TypeOK, TypeOK', CheckpointInv, [Next]_vars, now' = now,
           NEW r \in Requests, CompareKnown(r)
    PROVE  RequestInv(r)'
<1> USE DEF Planned, Working, HasRead
<1>0. RequestInv(r)
  BY DEF CheckpointInv
<1>1. CASE Conflicting(local[r].read)
  <2>1. RowKept(r) /\ WorkKept(r)
    BY <1>1 DEF CompareKnown, RowKept, WorkKept, GoTo, TypeOK
  <2> QED
    BY <1>0, <2>1, Frame DEF TypeOK
<1>2. CASE ~Conflicting(local[r].read)
  <2> DEFINE new == {rec \in local[r].read : Unknown(rec)}
  <2>1. /\ pc[r] = "comparing" /\ pc'[r] = "committing"
        /\ UNCHANGED <<now, raw, failed, runs>>
        /\ local' = [local EXCEPT ![r].inputs = new]
    BY <1>2 DEF CompareKnown, GoTo, TypeOK
  <2>2. local[r] \in Local
    BY DEF TypeOK
  <2>3. /\ local'[r].from = local[r].from
        /\ local'[r].to = local[r].to
        /\ local'[r].read = local[r].read
        /\ local'[r].inputs = new
    BY <2>1, <2>2 DEF TypeOK, Local
  <2>4. ASSUME NEW rec \in local[r].read PROVE rec \in new \/ Held(rec[1])'
    BY <2>1, <2>4 DEF Unknown, Held
  <2>5. InputsAreComplete(r)'
    BY <2>3, <2>4 DEF InputsAreComplete
  <2>6. WindowAdjoins(r)' /\ RowMatchesWindow(r)' /\ ReadIsComplete(r)'
    BY <1>0, <2>1, <2>3 DEF RequestInv, WindowAdjoins, RowMatchesWindow, ReadIsComplete,
                            CoveredBefore, Held
  <2>7. CompletedRunCovers(r)'
    BY <1>0, <2>1 DEF RequestInv, CompletedRunCovers, CoveredBefore, Held
  <2> QED
    BY <2>5, <2>6, <2>7 DEF RequestInv
<1> QED
  BY <1>1, <1>2

\* A commit stores what was not held before, so the whole window is held.
LEMMA CommitKeeps ==
    ASSUME TypeOK, TypeOK', CheckpointInv, [Next]_vars, NEW r \in Requests, Commit(r)
    PROVE  RequestInv(r)' /\ RegisteredBatchesHeld'
<1> USE DEF Planned, Working, HasRead
<1>0. RequestInv(r) /\ RegisteredBatchesHeld
  BY DEF CheckpointInv
<1> DEFINE batch == local[r].inputs
           window == local[r].read
<1>1. /\ pc[r] = "committing" /\ pc'[r] = "done"
      /\ UNCHANGED <<now, failed>>
      /\ runs' = [runs EXCEPT ![r] = complete_sync(@, Ids(window))]
  BY DEF Commit, Finish, TypeOK
<1>2. runs[r] \in Row /\ local[r] \in Local /\ batch \in SUBSET Record
  BY DEF TypeOK, Local
<1>3. /\ runs'[r].to = local[r].to
      /\ runs'[r].digest = TRUE
      /\ runs'[r].ids = Ids(window)
  BY <1>0, <1>1, <1>2 DEF TypeOK, complete_sync, Row, RequestInv, RowMatchesWindow
<1>4. \A e \in Ids(batch) : Held(e)'
  <2>1. CASE batch = {}
    BY <2>1 DEF Ids
  <2>2. CASE batch # {}
    <3>1. (AlreadyRegistered(batch) /\ raw' = raw) \/ raw' = Merged(batch)
      BY <2>2 DEF Commit, Stored
    <3> QED
      BY <1>0, <1>1, <1>2, <3>1, ImportHolds
  <2> QED
    BY <2>1, <2>2
<1>5. ASSUME NEW e \in Ids(window) PROVE Held(e)'
  <2>1. PICK rec \in window : e = rec[1]
    BY DEF Ids
  <2>2. e \in Entries
    BY <1>2, <2>1 DEF Local, Record
  <2>3. CASE rec \in batch
    BY <1>4, <2>1, <2>3 DEF Ids
  <2>4. CASE rec \notin batch
    <3>1. Held(e)
      BY <1>0, <1>1, <2>1, <2>4 DEF RequestInv, InputsAreComplete
    <3> QED
      BY <2>2, <3>1, HeldGrows
  <2> QED
    BY <2>3, <2>4
<1>6. CoveredBefore(runs[r].to - Lookback)'
  <2> SUFFICES ASSUME NEW e \in Entries, InitialStart <= OccurredAt[e],
                      OccurredAt[e] < local[r].to - Lookback
               PROVE  Held(e)'
    BY <1>3 DEF CoveredBefore
  <2>1. CASE OccurredAt[e] < local[r].from
    <3>1. Held(e)
      BY <1>0, <1>1, <2>1 DEF RequestInv, WindowAdjoins, CoveredBefore
    <3> QED
      BY <3>1, HeldGrows
  <2>2. CASE ~(OccurredAt[e] < local[r].from)
    <3>1. local[r].from \in Int /\ OccurredAt[e] \in Int
      BY <1>2 DEF Local
    <3>2. e \in Ids(window)
      BY <1>0, <1>1, <2>2, <3>1 DEF RequestInv, ReadIsComplete
    <3> QED
      BY <1>5, <3>2
  <2> QED
    BY <2>1, <2>2
<1>7. CompletedRunCovers(r)'
  BY <1>3, <1>5, <1>6 DEF CompletedRunCovers
<1>8. WindowAdjoins(r)' /\ RowMatchesWindow(r)' /\ ReadIsComplete(r)' /\ InputsAreComplete(r)'
  BY <1>1 DEF WindowAdjoins, RowMatchesWindow, ReadIsComplete, InputsAreComplete
<1>9. RegisteredBatchesHeld'
  <2> SUFFICES ASSUME NEW b \in done', NEW e \in Ids(b) PROVE Held(e)'
    BY DEF RegisteredBatchesHeld
  <2>1. b \in done \/ b = batch
    BY DEF Commit
  <2>2. CASE b \in done
    <3>1. e \in Entries /\ Held(e)
      BY <1>0, <2>2 DEF RegisteredBatchesHeld, TypeOK, Ids, Record
    <3> QED
      BY <3>1, HeldGrows
  <2> QED
    BY <1>4, <2>1, <2>2
<1> QED
  BY <1>7, <1>8, <1>9 DEF RequestInv

LEMMA RegisteredKept ==
    ASSUME TypeOK, [Next]_vars, RegisteredBatchesHeld, done' = done
    PROVE  RegisteredBatchesHeld'
<1> SUFFICES ASSUME NEW b \in done, NEW e \in Ids(b) PROVE Held(e)'
  BY DEF RegisteredBatchesHeld
<1>1. e \in Entries /\ Held(e)
  BY DEF RegisteredBatchesHeld, TypeOK, Ids, Record
<1> QED
  BY <1>1, HeldGrows

\* The world outside the requests: entries appear in time, other importers
\* only add.
LEMMA EnvironmentKeeps ==
    ASSUME TypeOK, TypeOK', CheckpointInv, [Next]_vars, Environment
    PROVE  CheckpointInv'
<1>0. UnpublishedIsRecent /\ RegisteredBatchesHeld
  BY DEF CheckpointInv
<1>1. UNCHANGED <<runs, pc, local>> /\ now <= now'
  BY DEF Environment, Tick, Publish, Amend, OtherImport, OtherImportFails, TypeOK
<1>2. ASSUME NEW q \in Requests PROVE RequestInv(q)'
  <2>1. RowKept(q) /\ WorkKept(q)
    BY <1>1 DEF RowKept, WorkKept
  <2> QED
    BY <1>1, <2>1, Frame DEF CheckpointInv
<1>3. UnpublishedIsRecent'
  BY <1>0 DEF Environment, Tick, Publish, Amend, OtherImport, OtherImportFails,
              UnpublishedIsRecent, TypeOK
<1>4. RegisteredBatchesHeld'
  <2>1. CASE done' = done
    BY <1>0, <2>1, RegisteredKept
  <2>2. ASSUME NEW batch \in SUBSET {<<e, content[e]>> : e \in visible}, OtherImport(batch)
        PROVE  RegisteredBatchesHeld'
    <3>1. batch \in SUBSET Record
      BY DEF TypeOK, Record
    <3> SUFFICES ASSUME NEW b \in done', NEW e \in Ids(b) PROVE Held(e)'
      BY DEF RegisteredBatchesHeld
    <3>2. CASE b \in done
      <4>1. e \in Entries /\ Held(e)
        BY <1>0, <3>2 DEF RegisteredBatchesHeld, TypeOK, Ids, Record
      <4> QED
        BY <4>1, HeldGrows
    <3>3. CASE b = batch
      BY <1>0, <2>2, <3>1, <3>3, ImportHolds DEF OtherImport
    <3> QED
      BY <2>2, <3>2, <3>3 DEF OtherImport
  <2> QED
    BY <2>1, <2>2 DEF Environment, Tick, Publish, Amend, OtherImportFails
<1> QED
  BY <1>2, <1>3, <1>4 DEF CheckpointInv

\* The invariant behind the checkpoint, for any number of requests and entries
\* and any history of failures, crashes, recoveries and other imports.
THEOREM CheckpointInductive == Spec => []CheckpointInv
<1>1. Init => CheckpointInv
  <2> SUFFICES ASSUME Init PROVE CheckpointInv
    OBVIOUS
  <2>1. UnpublishedIsRecent
    BY DEF Init, UnpublishedIsRecent
  <2>2. RegisteredBatchesHeld
    BY DEF Init, RegisteredBatchesHeld
  <2>3. ASSUME NEW r \in Requests PROVE RequestInv(r)
    BY DEF Init, NoRow, RequestInv, WindowAdjoins, RowMatchesWindow, ReadIsComplete,
           InputsAreComplete, CompletedRunCovers, Planned, Working, HasRead
  <2> QED
    BY <2>1, <2>2, <2>3 DEF CheckpointInv
<1>2. TypeOK /\ TypeOK' /\ CheckpointInv /\ [Next]_vars => CheckpointInv'
  <2> SUFFICES ASSUME TypeOK, TypeOK', CheckpointInv, [Next]_vars PROVE CheckpointInv'
    OBVIOUS
  <2>1. CASE Environment
    BY <2>1, EnvironmentKeeps
  <2>2. ASSUME NEW r \in Requests, PlanWindow(r) \/ RequestStep(r) \/ Fail(r) \/ Crash(r)
        PROVE  CheckpointInv'
    <3>1. now' = now /\ visible' = visible
      BY <2>2 DEF PlanWindow, RequestStep, PlanProcessing, RejectRunning, RecoverStale,
         InsertRun, ReadPreview, ReadConfirmation, CompareKnown, Commit, provider,
         CommitRefused, RecordFailureRead, RecordFailureWrite, Fail, Crash
    <3>2. UnpublishedIsRecent'
      BY <3>1 DEF CheckpointInv, UnpublishedIsRecent
    <3>3. ASSUME NEW q \in Requests, q # r PROVE RequestInv(q)'
      <4>1. RowKept(q) /\ WorkKept(q)
        BY <2>2, <3>3, OthersKept
      <4> QED
        BY <3>1, <4>1, Frame DEF CheckpointInv, TypeOK
    <3>4. RequestInv(r)'
      <4>1. CASE PlanWindow(r)
        BY <4>1, PlanWindowKeeps
      <4>2. CASE InsertRun(r)
        BY <3>1, <4>2, InsertRunKeeps
      <4>3. CASE ReadPreview(r)
        BY <4>3, ReadPreviewKeeps
      <4>4. CASE CompareKnown(r)
        BY <3>1, <4>4, CompareKnownKeeps
      <4>5. CASE Commit(r)
        BY <4>5, CommitKeeps
      <4>6. CASE \/ PlanProcessing(r) \/ RejectRunning(r) \/ RecoverStale(r)
                 \/ ReadConfirmation(r) \/ CommitRefused(r) \/ Fail(r) \/ Crash(r)
                 \/ RecordFailureRead(r) \/ RecordFailureWrite(r)
        <5>1. RowKept(r) /\ WorkKept(r)
          BY <4>6, OwnKept
        <5> QED
          BY <3>1, <5>1, Frame DEF CheckpointInv, TypeOK
      <4> QED
        BY <2>2, <4>1, <4>2, <4>3, <4>4, <4>5, <4>6 DEF RequestStep
    <3>5. RegisteredBatchesHeld'
      <4>1. CASE Commit(r)
        BY <4>1, CommitKeeps
      <4>2. CASE ~Commit(r)
        <5>1. done' = done
          BY <2>2, <4>2 DEF PlanWindow, RequestStep, PlanProcessing, RejectRunning,
             RecoverStale, InsertRun, ReadPreview, ReadConfirmation, CompareKnown,
             CommitRefused, RecordFailureRead, RecordFailureWrite, Fail, Crash, batches
        <5> QED
          BY <5>1, RegisteredKept DEF CheckpointInv
      <4> QED
        BY <4>1, <4>2
    <3> QED
      BY <3>2, <3>3, <3>4, <3>5 DEF CheckpointInv
  <2>3. CASE UNCHANGED vars
    BY <2>3 DEF vars, CheckpointInv, UnpublishedIsRecent, RegisteredBatchesHeld, RequestInv,
       WindowAdjoins, RowMatchesWindow, ReadIsComplete, InputsAreComplete,
       CompletedRunCovers, CoveredBefore, Held
  <2> QED
    BY <2>1, <2>2, <2>3 DEF Next
<1> QED
  BY <1>1, <1>2, TypeCorrect, PTL DEF Spec

\* The checkpoint never passes an entry that was not taken in.
THEOREM CheckpointLeavesNoGap == Spec => []NoGapBehindCheckpoint
<1>1. CheckpointInv => NoGapBehindCheckpoint
  BY DEF CheckpointInv, RequestInv, CompletedRunCovers, CoveredBefore, NoGapBehindCheckpoint
<1> QED
  BY <1>1, CheckpointInductive, PTL

\* What a completed run says it has read is held.
THEOREM CompletedReadsAreHeld == Spec => []CompletedWindowHeld
<1>1. CheckpointInv => CompletedWindowHeld
  BY DEF CheckpointInv, RequestInv, CompletedRunCovers, CompletedWindowHeld
<1> QED
  BY <1>1, CheckpointInductive, PTL

-----------------------------------------------------------------------------
(* The rows of the runs.                                                   *)

\* uq_kraken_sync_active holds up for every number of racing requests.
THEOREM OneRunAtATime == Spec => []OneProcessingRun
<1>1. Init => OneProcessingRun
  BY DEF Init, OneProcessingRun, NoRow
<1>2. TypeOK /\ OneProcessingRun /\ [Next]_vars => OneProcessingRun'
  <2> SUFFICES ASSUME TypeOK, OneProcessingRun, [Next]_vars PROVE OneProcessingRun'
    OBVIOUS
  <2>1. ASSUME \A q \in Requests :
                   runs'[q].status = "processing" => runs[q].status = "processing"
        PROVE  OneProcessingRun'
    BY <2>1 DEF OneProcessingRun
  <2>2. CASE UNCHANGED runs
    BY <2>1, <2>2
  <2>3. ASSUME NEW r \in Requests, RecoverStale(r) \/ RecordFailureWrite(r) \/ Commit(r)
        PROVE  OneProcessingRun'
    <3>1. ASSUME NEW q \in Requests
          PROVE  \/ runs'[q] = runs[q]
                 \/ \E code \in ErrorCodes : runs'[q] = fail_sync(runs[q], code)
                 \/ \E ids : runs'[q] = complete_sync(runs[q], ids)
      BY <2>3 DEF RecoverStale, RecordFailureWrite, Commit, TypeOK, ErrorCodes
    <3>2. ASSUME NEW q \in Requests, runs'[q].status = "processing"
          PROVE  runs[q].status = "processing"
      <4>1. runs[q] \in Row
        BY DEF TypeOK
      <4> QED
        BY <3>1, <3>2, <4>1 DEF fail_sync, complete_sync, Row
    <3> QED
      BY <2>1, <3>2
  <2>4. ASSUME NEW r \in Requests, InsertRun(r) PROVE OneProcessingRun'
    <3>1. CASE \E a \in Requests : runs[a].status = "processing"
      BY <2>4, <3>1, <2>2 DEF InsertRun
    <3>2. CASE ~\E a \in Requests : runs[a].status = "processing"
      <4>1. \A q \in Requests : q # r => runs'[q] = runs[q]
        BY <2>4, <3>2 DEF InsertRun, TypeOK
      <4> QED
        BY <3>2, <4>1 DEF OneProcessingRun
    <3> QED
      BY <3>1, <3>2
  <2> QED
    BY <2>2, <2>3, <2>4
       DEF vars, Next, Environment, Tick, Publish, Amend, OtherImport, OtherImportFails,
           PlanWindow, RequestStep, PlanProcessing, RejectRunning, ReadPreview,
           ReadConfirmation, CompareKnown, CommitRefused, RecordFailureRead, Fail, Crash
<1> QED
  BY <1>1, <1>2, TypeCorrect, PTL DEF Spec

\* How a step may change a row: fail it, complete it while it carries no error
\* code, or insert it.
LEMMA RowSteps ==
    ASSUME TypeOK, [Next]_vars, NEW q \in Requests
    PROVE  \/ runs'[q] = runs[q]
           \/ \E code \in ErrorCodes \ {"none"} : runs'[q] = fail_sync(runs[q], code)
           \/ /\ runs[q].error = "none"
              /\ runs'[q].status = "completed"
              /\ pc[q] \notin NotStarted
           \/ /\ runs'[q].status = "processing"
              /\ pc[q] \in NotStarted
              /\ pc'[q] \notin NotStarted
<1> USE DEF NotStarted
<1>1. ASSUME NEW r \in Requests, RecoverStale(r) \/ RecordFailureWrite(r)
      PROVE  \/ runs'[q] = runs[q]
             \/ \E code \in ErrorCodes \ {"none"} : runs'[q] = fail_sync(runs[q], code)
  BY <1>1 DEF RecoverStale, RecordFailureWrite, TypeOK, ErrorCodes
<1>2. ASSUME NEW r \in Requests, Commit(r)
      PROVE  \/ runs'[q] = runs[q]
             \/ /\ runs[q].error = "none"
                /\ runs'[q].status = "completed"
                /\ pc[q] \notin NotStarted
  <2>1. runs[q] \in Row
    BY DEF TypeOK
  <2> QED
    BY <1>2, <2>1 DEF Commit, MayComplete, complete_sync, TypeOK, Row
<1>3. ASSUME NEW r \in Requests, InsertRun(r)
      PROVE  \/ runs'[q] = runs[q]
             \/ /\ runs'[q].status = "processing"
                /\ pc[q] \in NotStarted
                /\ pc'[q] \notin NotStarted
  BY <1>3 DEF InsertRun, GoTo, TypeOK
<1> QED
  BY <1>1, <1>2, <1>3
     DEF vars, Next, Environment, Tick, Publish, Amend, OtherImport, OtherImportFails,
         PlanWindow, RequestStep, PlanProcessing, RejectRunning, ReadPreview,
         ReadConfirmation, CompareKnown, CommitRefused, RecordFailureRead, Fail, Crash

LEMMA ActiveSteps ==
    ASSUME TypeOK, [Next]_vars, NEW q \in Requests, local'[q].active # Null
    PROVE  \/ local'[q].active = local[q].active
           \/ /\ local'[q].active \in Requests
              /\ runs[local'[q].active].status = "processing"
              /\ runs' = runs
<1> USE DEF GoTo, Finish
<1>0. local[q] \in Local
  BY DEF TypeOK
<1>1. ASSUME NEW r \in Requests, PlanWindow(r) PROVE local'[q].active = local[q].active
  BY <1>0, <1>1 DEF PlanWindow, TypeOK, Local
<1>2. ASSUME NEW r \in Requests, PlanProcessing(r)
      PROVE  \/ local'[q].active = local[q].active
             \/ /\ local'[q].active \in Requests
                /\ runs[local'[q].active].status = "processing"
                /\ runs' = runs
  BY <1>0, <1>2 DEF PlanProcessing, TypeOK, Local, NoLocal
<1>3. ASSUME NEW r \in Requests, ReadPreview(r) \/ CompareKnown(r)
      PROVE  local'[q].active = local[q].active
  BY <1>0, <1>3 DEF ReadPreview, CompareKnown, TypeOK, Local
<1>4. ASSUME NEW r \in Requests, local' = local \/ local' = [local EXCEPT ![r] = NoLocal]
      PROVE  local'[q].active = local[q].active
  BY <1>4 DEF TypeOK, NoLocal
<1>5. CASE UNCHANGED local
  BY <1>5
<1> QED
  BY <1>1, <1>2, <1>3, <1>4, <1>5
     DEF vars, Next, Environment, Tick, Publish, Amend, OtherImport, OtherImportFails,
         RequestStep, RejectRunning, RecoverStale, InsertRun, ReadConfirmation, Commit,
         CommitRefused, RecordFailureRead, RecordFailureWrite, Fail, Crash

LEMMA TerminalRowsInductive == Spec => []TerminalRowsInv
<1> USE DEF NotStarted
<1>1. Init => TerminalRowsInv
  <2> SUFFICES ASSUME Init, NEW r \in Requests
               PROVE  /\ runs[r].status = "none"
                      /\ local[r].active = Null
    BY Zenon DEF TerminalRowsInv
  <2> QED
    BY DEF Init, NoRow, NoLocal
<1>2. TypeOK /\ TypeOK' /\ TerminalRowsInv /\ [Next]_vars => TerminalRowsInv'
  <2> SUFFICES ASSUME TypeOK, TypeOK', TerminalRowsInv, [Next]_vars PROVE TerminalRowsInv'
    OBVIOUS
  <2> SUFFICES ASSUME NEW q \in Requests
               PROVE  /\ pc'[q] \in NotStarted => runs'[q].status = "none"
                      /\ runs'[q].status = "failed" => runs'[q].error # "none"
                      /\ local'[q].active # Null =>
                            runs'[local'[q].active].status # "none"
    BY Zenon DEF TerminalRowsInv
  <2>1. ASSUME NEW p \in Requests
        PROVE  /\ runs'[p].status = "failed" =>
                     runs'[p].error # "none"
               /\ runs[p].status # "none" => runs'[p].status # "none"
    <3>1. runs[p] \in Row
      BY DEF TypeOK
    <3>2. ASSUME NEW code \in ErrorCodes \ {"none"}, runs'[p] = fail_sync(runs[p], code)
          PROVE  runs'[p].status = "failed" /\ runs'[p].error # "none"
      BY <3>1, <3>2 DEF fail_sync, Row
    <3>3. CASE runs'[p] = runs[p]
      BY <3>3 DEF TerminalRowsInv
    <3>4. CASE runs'[p].status \in {"completed", "processing"}
      BY <3>4
    <3> QED
      BY <3>2, <3>3, <3>4, RowSteps
  <2>2. pc'[q] \in NotStarted => pc[q] \in NotStarted
    <3>1. ASSUME NEW r \in Requests, PlanWindow(r) \/ RequestStep(r) \/ Fail(r) \/ Crash(r)
          PROVE  pc'[q] \in NotStarted => pc[q] \in NotStarted
      <4>1. CASE \/ PlanWindow(r) \/ PlanProcessing(r) \/ RejectRunning(r)
                 \/ RecoverStale(r) \/ InsertRun(r)
        BY <4>1 DEF PlanWindow, PlanProcessing, RejectRunning, RecoverStale, InsertRun,
                    TypeOK, GoTo, Finish
      <4>2. CASE \/ ReadPreview(r) \/ ReadConfirmation(r) \/ CompareKnown(r)
                 \/ Commit(r) \/ CommitRefused(r)
        BY <4>2 DEF ReadPreview, ReadConfirmation, CompareKnown, Commit, CommitRefused,
                    TypeOK, GoTo, Finish
      <4>3. CASE \/ RecordFailureRead(r) \/ RecordFailureWrite(r) \/ Fail(r) \/ Crash(r)
        BY <4>3 DEF RecordFailureRead, RecordFailureWrite, Fail, Crash, TypeOK, GoTo, Finish
      <4> QED
        BY <3>1, <4>1, <4>2, <4>3 DEF RequestStep
    <3> QED
      BY <3>1 DEF vars, Next, Environment, Tick, Publish, Amend, OtherImport, OtherImportFails
  <2>3. ASSUME pc'[q] \in NotStarted PROVE runs'[q].status = "none"
    <3>1. runs[q].status = "none" /\ pc[q] \in NotStarted
      BY <2>2, <2>3 DEF TerminalRowsInv
    <3>2. CASE \E r \in Requests : RecoverStale(r)
      <4>1. PICK r \in Requests : RecoverStale(r)
        BY <3>2
      <4>2. local[r].active # q
        BY <3>1, <4>1 DEF RecoverStale, TerminalRowsInv
      <4>3. local[r].active \in Requests
        BY <4>1 DEF RecoverStale, TypeOK, Local
      <4>4. runs'[q] = runs[q]
        BY <4>1, <4>2, <4>3 DEF RecoverStale, TypeOK
      <4> QED
        BY <3>1, <4>4
    <3>3. CASE ~\E r \in Requests : RecoverStale(r)
      <4>1. ASSUME NEW r \in Requests, RecordFailureWrite(r) \/ Commit(r) \/ InsertRun(r)
            PROVE  runs'[q] = runs[q]
        BY <2>3, <3>1, <4>1 DEF RecordFailureWrite, Commit, InsertRun, TypeOK, GoTo
      <4>2. runs'[q] = runs[q]
        BY <3>3, <4>1
         DEF vars, Next, Environment, Tick, Publish, Amend, OtherImport, OtherImportFails,
           PlanWindow, RequestStep, PlanProcessing, RejectRunning, ReadPreview,
           ReadConfirmation, CompareKnown, CommitRefused, RecordFailureRead, Fail, Crash
      <4> QED
        BY <3>1, <4>2
    <3> QED
      BY <3>2, <3>3
  <2>4. ASSUME local'[q].active # Null PROVE runs'[local'[q].active].status # "none"
    <3>1. local'[q].active \in Requests
      BY <2>4 DEF TypeOK, Local
    <3>2. CASE local'[q].active = local[q].active
      BY <2>1, <2>4, <3>1, <3>2 DEF TerminalRowsInv
    <3>3. CASE local'[q].active # local[q].active
      BY <2>4, <3>3, ActiveSteps
    <3> QED
      BY <3>2, <3>3
  <2> QED
    BY <2>1, <2>3, <2>4
<1> QED
  BY <1>1, <1>2, TypeCorrect, PTL DEF Spec

\* A run that was declared dead never completes after all, whatever its own
\* thread still does.
THEOREM RecoveredStaysFailed == Spec => RecoveredRunStaysFailed
<1>1. TypeOK /\ TerminalRowsInv /\ [Next]_vars
        => [\A r \in Requests : runs[r].status = "failed" => runs'[r].status = "failed"]_vars
  <2> SUFFICES ASSUME TypeOK, TerminalRowsInv, [Next]_vars,
                      NEW r \in Requests, runs[r].status = "failed"
               PROVE  runs'[r].status = "failed"
    OBVIOUS
  <2>1. runs[r].error # "none" /\ pc[r] \notin NotStarted
    BY DEF TerminalRowsInv
  <2>2. runs[r] \in Row
    BY DEF TypeOK
  <2>3. ASSUME NEW code \in ErrorCodes \ {"none"}, runs'[r] = fail_sync(runs[r], code)
        PROVE  runs'[r].status = "failed"
    BY <2>2, <2>3 DEF fail_sync, Row
  <2> QED
    BY <2>1, <2>3, RowSteps
<1> QED
  BY <1>1, TypeCorrect, TerminalRowsInductive, PTL DEF Spec, RecoveredRunStaysFailed

-----------------------------------------------------------------------------
(* KrakenSync implements LedgerCheckpoint.                                 *)

HeldEntries == {e \in Entries : Held(e)}
Checkpoints == {runs[r].to : r \in {q \in Requests : runs[q].digest}}

\* A planned window begins at InitialStart or Lookback before a checkpoint,
\* and it is not empty once the plan has been accepted.
WindowIsPlanned(r) ==
    /\ pc[r] \in Planned =>
          local[r].from \in {InitialStart} \cup
              {c - Lookback : c \in {d \in Checkpoints : d - Lookback >= InitialStart}}
    /\ pc[r] \in Planned \ {"planned"} => local[r].from < local[r].to

WindowsArePlanned == \A r \in Requests : WindowIsPlanned(r)

-----------------------------------------------------------------------------
\* Apart from a commit, no step adds or removes a checkpoint.
LEMMA CheckpointsKept ==
    ASSUME TypeOK, CheckpointInv, [Next]_vars, NEW q \in Requests,
           ~Commit(q)
    PROVE  /\ runs'[q].digest = runs[q].digest
           /\ runs[q].digest => runs'[q].to = runs[q].to
<1>1. CASE \/ Environment \/ UNCHANGED vars
  BY <1>1 DEF vars, Environment, Tick, Publish, Amend, OtherImport, OtherImportFails
<1>2. ASSUME NEW r \in Requests, PlanWindow(r) \/ RequestStep(r) \/ Fail(r) \/ Crash(r)
      PROVE  /\ runs'[q].digest = runs[q].digest
             /\ runs[q].digest => runs'[q].to = runs[q].to
  <2>1. CASE q # r
    BY <1>2, <2>1, OthersKept DEF RowKept
  <2>2. CASE q = r
    <3>1. CASE InsertRun(r)
      <4>1. ~runs[r].digest
        BY <3>1 DEF CheckpointInv, RequestInv, RowMatchesWindow, InsertRun
      <4>2. runs'[r] = runs[r] \/ runs'[r].digest = FALSE
        BY <3>1 DEF InsertRun, TypeOK
      <4>3. runs[r].digest \in BOOLEAN
        BY DEF TypeOK, Row
      <4> QED
        BY <2>2, <4>1, <4>2, <4>3
    <3>2. CASE PlanWindow(r) \/ ReadPreview(r) \/ CompareKnown(r)
      BY <3>2 DEF PlanWindow, ReadPreview, CompareKnown
    <3>3. CASE \/ PlanProcessing(r) \/ RejectRunning(r) \/ RecoverStale(r)
               \/ ReadConfirmation(r) \/ CommitRefused(r) \/ Fail(r) \/ Crash(r)
               \/ RecordFailureRead(r) \/ RecordFailureWrite(r)
      BY <2>2, <3>3, OwnKept DEF RowKept
    <3> QED
      BY <1>2, <2>2, <3>1, <3>2, <3>3 DEF RequestStep
  <2> QED
    BY <2>1, <2>2
<1> QED
  BY <1>1, <1>2 DEF Next

LEMMA CommitAddsCheckpoint ==
    ASSUME TypeOK, CheckpointInv, [Next]_vars, NEW r \in Requests, Commit(r)
    PROVE  Checkpoints' = Checkpoints \cup {local[r].to}
<1>1. /\ ~runs[r].digest
      /\ runs[r].to = local[r].to
  BY DEF CheckpointInv, RequestInv, RowMatchesWindow, Working, Commit
<1>2. runs[r] \in Row
  BY DEF TypeOK
<1>3. runs'[r].digest /\ runs'[r].to = runs[r].to
  BY <1>2 DEF Commit, complete_sync, TypeOK, Row
<1>4. \A q \in Requests : q # r => runs'[q] = runs[q]
  BY DEF Commit, TypeOK
<1> QED
  BY <1>1, <1>3, <1>4 DEF Checkpoints

LEMMA CheckpointsGrow ==
    ASSUME TypeOK, CheckpointInv, [Next]_vars
    PROVE  Checkpoints \subseteq Checkpoints'
<1>1. CASE \E r \in Requests : Commit(r)
  BY <1>1, CommitAddsCheckpoint
<1>2. CASE ~\E r \in Requests : Commit(r)
  BY <1>2, CheckpointsKept DEF Checkpoints
<1> QED
  BY <1>1, <1>2

LEMMA CheckpointsStay ==
    ASSUME TypeOK, CheckpointInv, [Next]_vars, ~\E r \in Requests : Commit(r)
    PROVE  Checkpoints' = Checkpoints
  BY CheckpointsKept DEF Checkpoints

-----------------------------------------------------------------------------
LEMMA WindowsArePlannedInductive == Spec => []WindowsArePlanned
<1> USE DEF Planned, GoTo, Finish
<1>1. Init => WindowsArePlanned
  BY DEF Init, WindowsArePlanned, WindowIsPlanned
<1>2. TypeOK /\ TypeOK' /\ CheckpointInv /\ WindowsArePlanned /\ [Next]_vars
        => WindowsArePlanned'
  <2> SUFFICES ASSUME TypeOK, TypeOK', CheckpointInv, WindowsArePlanned, [Next]_vars,
                      NEW q \in Requests
               PROVE  WindowIsPlanned(q)'
    BY DEF WindowsArePlanned
  <2>0. WindowIsPlanned(q)
    BY DEF WindowsArePlanned
  <2>1. ASSUME pc'[q] \in Planned => /\ pc[q] \in Planned
                                     /\ local'[q].from = local[q].from
                                     /\ local'[q].to = local[q].to,
               pc'[q] \in Planned \ {"planned"} => \/ pc[q] \in Planned \ {"planned"}
                                                   \/ local'[q].from < local'[q].to
        PROVE  WindowIsPlanned(q)'
    BY <2>0, <2>1, CheckpointsGrow DEF WindowIsPlanned
  <2>2. CASE UNCHANGED <<pc, local>>
    BY <2>1, <2>2
  <2>3. ASSUME NEW r \in Requests, PlanWindow(r) \/ RequestStep(r) \/ Fail(r) \/ Crash(r),
               q # r
        PROVE  WindowIsPlanned(q)'
    <3>1. pc'[q] = pc[q] /\ local'[q] = local[q]
      BY <2>3 DEF TypeOK, PlanWindow, RequestStep, PlanProcessing, RejectRunning,
         RecoverStale, InsertRun, ReadPreview, ReadConfirmation, CompareKnown, Commit,
         CommitRefused, RecordFailureRead, RecordFailureWrite, Fail, Crash
    <3> QED
      BY <2>1, <3>1
  <2>4. CASE PlanWindow(q)
    <3>1. PICK from \in WindowStarts :
              local' = [local EXCEPT ![q] = [@ EXCEPT !.from = from,
                                                      !.to = now - SettlementLag]]
      BY <2>4 DEF PlanWindow
    <3>2. pc'[q] = "planned" /\ local'[q].from = from /\ runs' = runs
      <4>1. pc'[q] = "planned" /\ runs' = runs
        BY <2>4 DEF PlanWindow, TypeOK
      <4>2. local[q] \in Local
        BY DEF TypeOK
      <4>3. local'[q] = [local[q] EXCEPT !.from = from, !.to = now - SettlementLag]
        BY <3>1 DEF TypeOK
      <4> QED
        BY <4>1, <4>2, <4>3 DEF Local
    <3>3. CASE from = InitialStart
      BY <3>2, <3>3 DEF WindowIsPlanned
    <3>4. ASSUME NEW p \in Requests, runs[p].status = "completed",
                 from = Later(InitialStart, runs[p].to - Lookback), from # InitialStart
          PROVE  WindowIsPlanned(q)'
      <4>1. runs[p].digest
        BY <3>4 DEF CheckpointInv, RequestInv, CompletedRunCovers
      <4>2. runs[p].to \in Int
        BY DEF TypeOK, Row
      <4>3. from = runs[p].to - Lookback /\ runs[p].to - Lookback >= InitialStart
        BY <3>4, <4>2 DEF Later
      <4>4. runs[p].to \in Checkpoints'
        BY <3>2, <4>1 DEF Checkpoints
      <4> QED
        BY <3>2, <4>3, <4>4 DEF WindowIsPlanned
    <3> QED
      BY <3>1, <3>3, <3>4 DEF WindowStarts, LatestSuccessful, Completed
  <2>5. CASE PlanProcessing(q)
    <3>1. CASE local[q].to <= local[q].from
      BY <2>1, <2>5, <3>1 DEF PlanProcessing, TypeOK
    <3>2. CASE ~(local[q].to <= local[q].from)
      <4>1. pc[q] = "planned" /\ pc'[q] = "checked"
        BY <2>5, <3>2 DEF PlanProcessing, TypeOK
      <4>2. \/ local' = local
            \/ \E a \in Requests : local' = [local EXCEPT ![q].active = a]
        BY <2>5, <3>2 DEF PlanProcessing
      <4>3. local[q] \in Local
        BY DEF TypeOK
      <4>4. local'[q].from = local[q].from /\ local'[q].to = local[q].to
        BY <4>2, <4>3 DEF TypeOK, Local
      <4>5. local[q].from < local[q].to
        BY <3>2, <4>3 DEF Local
      <4> QED
        BY <2>1, <4>1, <4>4, <4>5
    <3> QED
      BY <3>1, <3>2
  <2>6. CASE \/ RejectRunning(q) \/ RecoverStale(q) \/ InsertRun(q)
             \/ ReadConfirmation(q) \/ Commit(q)
    BY <2>1, <2>6 DEF RejectRunning, RecoverStale, InsertRun, ReadConfirmation, Commit, TypeOK
  <2>7. CASE ReadPreview(q) \/ CompareKnown(q)
    <3>1. local[q] \in Local
      BY DEF TypeOK
    <3>2. local'[q].from = local[q].from /\ local'[q].to = local[q].to
      BY <2>7, <3>1 DEF ReadPreview, CompareKnown, TypeOK, Local
    <3>3. pc[q] \in {"reading", "comparing"}
      BY <2>7 DEF ReadPreview, CompareKnown
    <3> QED
      BY <2>1, <3>2, <3>3
  <2>8. CASE \/ CommitRefused(q) \/ RecordFailureRead(q) \/ RecordFailureWrite(q)
             \/ Fail(q) \/ Crash(q)
    BY <2>1, <2>8 DEF CommitRefused, RecordFailureRead, RecordFailureWrite, Fail, Crash, TypeOK
  <2> QED
    BY <2>2, <2>3, <2>4, <2>5, <2>6, <2>7, <2>8
       DEF vars, Next, RequestStep, Environment, Tick, Publish, Amend, OtherImport,
           OtherImportFails
<1> QED
  BY <1>1, <1>2, TypeCorrect, CheckpointInductive, PTL DEF Spec

-----------------------------------------------------------------------------
LEMMA HeldEntriesGrow ==
    ASSUME TypeOK, [Next]_vars
    PROVE  HeldEntries \subseteq HeldEntries' /\ HeldEntries' \subseteq Entries
  BY HeldGrows DEF HeldEntries

\* A commit is one step of the abstract synchronisation: it takes in a window
\* that begins at a checkpoint and makes its end the next one.
LEMMA CommitCompletes ==
    ASSUME TypeOK, TypeOK', CheckpointInv, CheckpointInv', WindowsArePlanned, [Next]_vars,
           NEW r \in Requests, Commit(r)
    PROVE  Checkpoint!Next
<1> DEFINE from == local[r].from
           to   == local[r].to
<1>1. /\ pc[r] = "committing"
      /\ now' = now
  BY DEF Commit
<1>2. from \in Int /\ to \in Int /\ now \in Int
  BY DEF TypeOK, Local
<1>3. /\ from \in Checkpoint!Starts
      /\ from < to
  BY <1>1 DEF WindowsArePlanned, WindowIsPlanned, Planned, Checkpoints, Checkpoint!Starts
<1>4. /\ InitialStart <= from
      /\ to <= now - SettlementLag
      /\ runs[r].to = to
  BY <1>1 DEF CheckpointInv, RequestInv, WindowAdjoins, RowMatchesWindow, Planned, Working
<1>5. to \in InitialStart .. (now - SettlementLag)
  BY <1>2, <1>3, <1>4
<1>6. Checkpoints' = Checkpoints \cup {to}
  BY CommitAddsCheckpoint
<1>7. ASSUME NEW e \in Entries, from <= OccurredAt[e], OccurredAt[e] < to - Lookback
      PROVE  e \in HeldEntries'
  <2>1. runs[r] \in Row
    BY DEF TypeOK
  <2>2. runs'[r].digest /\ runs'[r].to = to
    BY <1>4, <2>1 DEF Commit, complete_sync, TypeOK, Row
  <2>3. CoveredBefore(runs[r].to - Lookback)'
    BY <2>2 DEF CheckpointInv, RequestInv, CompletedRunCovers
  <2>4. InitialStart <= OccurredAt[e]
    BY <1>2, <1>4, <1>7
  <2> QED
    BY <1>7, <2>2, <2>3, <2>4 DEF CoveredBefore, HeldEntries
<1> HIDE DEF from, to
<1>8. HeldEntries \subseteq HeldEntries' /\ HeldEntries' \subseteq Entries
  BY HeldEntriesGrow
<1> QED
  BY <1>1, <1>3, <1>5, <1>6, <1>7, <1>8
     DEF Checkpoint!Next, Checkpoint!Complete, HeldEntries, Checkpoints

\* Requests that race, fail, crash and recover each other, and importers that
\* come in between, amount to nothing but growing sets of held entries and
\* checkpoints with no gap behind them.
THEOREM SyncImplementsCheckpoint == Spec => ImplementsCheckpoint
<1>1. Init => Checkpoint!Init
  BY DEF Init, Checkpoint!Init, Held, NoRow
<1>2. TypeOK /\ TypeOK' /\ CheckpointInv /\ CheckpointInv' /\ WindowsArePlanned /\ [Next]_vars
        => [Checkpoint!Next]_Checkpoint!vars
  <2> SUFFICES ASSUME TypeOK, TypeOK', CheckpointInv, CheckpointInv', WindowsArePlanned,
                      [Next]_vars
               PROVE  [Checkpoint!Next]_Checkpoint!vars
    OBVIOUS
  <2>1. ASSUME NEW r \in Requests, Commit(r) PROVE Checkpoint!Next
    BY <2>1, CommitCompletes
  <2>2. CASE ~\E r \in Requests : Commit(r)
    <3>1. Checkpoints' = Checkpoints
      BY <2>2, CheckpointsStay
    <3>2. HeldEntries \subseteq HeldEntries' /\ HeldEntries' \subseteq Entries
      BY HeldEntriesGrow
    <3>3. CASE Tick
      <4>1. HeldEntries' = HeldEntries
        BY <3>3 DEF Tick, HeldEntries, Held, batches
      <4> QED
        BY <3>1, <3>3, <4>1 DEF Tick, Checkpoint!Next, Checkpoint!Advance, HeldEntries,
                                Checkpoints
    <3>4. CASE ~Tick
      <4>1. now' = now
        BY <3>4 DEF vars, Next, Environment, Publish, Amend, OtherImport, OtherImportFails,
           PlanWindow, RequestStep, PlanProcessing, RejectRunning, RecoverStale,
           InsertRun, ReadPreview, ReadConfirmation, CompareKnown, Commit,
           CommitRefused, RecordFailureRead, RecordFailureWrite, Fail, Crash
      <4> QED
        BY <3>1, <3>2, <4>1 DEF Checkpoint!Next, Checkpoint!Acquire, HeldEntries, Checkpoints
    <3> QED
      BY <3>3, <3>4
  <2> QED
    BY <2>1, <2>2
<1> QED
  BY <1>1, <1>2, TypeCorrect, CheckpointInductive, WindowsArePlannedInductive, PTL
     DEF Spec, ImplementsCheckpoint, Checkpoint!Spec

-----------------------------------------------------------------------------
(* The sync implements RecordStore.                                        *)

\* No entry is in a batch with two contents.
OneContentEach(batch) == \A x, y \in batch : x[1] = y[1] => x = y

\* The provider says one thing of an entry at a time, and a request keeps what it has
\* read in one go.
ReadsAreSnapshots ==
    \A r \in Requests : OneContentEach(local[r].read) /\ OneContentEach(local[r].inputs)

LEMMA ReadsAreSnapshotsInductive == Spec => []ReadsAreSnapshots
<1>1. Init => ReadsAreSnapshots
  <2>1. OneContentEach({}) /\ NoLocal.read = {} /\ NoLocal.inputs = {}
    BY DEF OneContentEach, NoLocal
  <2> QED
    BY <2>1 DEF Init, ReadsAreSnapshots
<1>2. TypeOK /\ ReadsAreSnapshots /\ [Next]_vars => ReadsAreSnapshots'
  <2> SUFFICES ASSUME TypeOK, ReadsAreSnapshots, [Next]_vars, NEW q \in Requests
               PROVE  (OneContentEach(local[q].read) /\ OneContentEach(local[q].inputs))'
    BY DEF ReadsAreSnapshots
  <2> USE DEF TypeOK
  <2>1. local[q] \in Local /\ OneContentEach(local[q].read) /\ OneContentEach(local[q].inputs)
    BY DEF ReadsAreSnapshots
  <2>2. OneContentEach({}) /\ NoLocal.read = {} /\ NoLocal.inputs = {}
    BY DEF OneContentEach, NoLocal
  <2>3. ASSUME local'[q].read = local[q].read, local'[q].inputs = local[q].inputs
        PROVE  OneContentEach(local'[q].read) /\ OneContentEach(local'[q].inputs)
    BY <2>1, <2>3
  <2>4. ASSUME NEW r \in Requests, Finish(r)
        PROVE  OneContentEach(local'[q].read) /\ OneContentEach(local'[q].inputs)
    BY <2>1, <2>2, <2>4 DEF Finish
  <2>5. ASSUME NEW r \in Requests, PlanWindow(r) \/ (PlanProcessing(r) /\ ~Finish(r))
        PROVE  OneContentEach(local'[q].read) /\ OneContentEach(local'[q].inputs)
    <3>1. CASE PlanWindow(r)
      <4>1. PICK from : local' = [local EXCEPT ![r] = [@ EXCEPT !.from = from,
                                                               !.to = now - SettlementLag]]
        BY <3>1 DEF PlanWindow
      <4>2. local'[q].read = local[q].read /\ local'[q].inputs = local[q].inputs
        BY <2>1, <4>1 DEF Local
      <4> QED
        BY <2>3, <4>2
    <3>2. CASE PlanProcessing(r) /\ ~Finish(r)
      <4>1. local'[q].read = local[q].read /\ local'[q].inputs = local[q].inputs
        BY <2>1, <3>2 DEF PlanProcessing, Local
      <4> QED
        BY <2>3, <4>1
    <3> QED
      BY <2>5, <3>1, <3>2
  <2>6. ASSUME NEW r \in Requests, ReadPreview(r)
        PROVE  OneContentEach(local'[q].read) /\ OneContentEach(local'[q].inputs)
    <3>1. OneContentEach(Snapshot(local[r].from, local[r].to))
      BY DEF Snapshot, OneContentEach
    <3>2. \/ local'[q].read = local[q].read
          \/ local'[q].read = Snapshot(local[r].from, local[r].to)
      BY <2>1, <2>6 DEF ReadPreview, Local
    <3>3. local'[q].inputs = local[q].inputs
      BY <2>1, <2>6 DEF ReadPreview, Local
    <3> QED
      BY <2>1, <3>1, <3>2, <3>3
  <2>7. ASSUME NEW r \in Requests, CompareKnown(r)
        PROVE  OneContentEach(local'[q].read) /\ OneContentEach(local'[q].inputs)
    <3>1. local'[q].read = local[q].read
      BY <2>1, <2>7 DEF CompareKnown, Local
    <3>2. \/ local'[q].inputs = local[q].inputs
          \/ local'[q].inputs = {rec \in local[q].read : Unknown(rec)}
      BY <2>1, <2>7 DEF CompareKnown, Local
    <3> QED
      BY <2>1, <3>1, <3>2 DEF OneContentEach
  <2>8. ASSUME local' = local
        PROVE  OneContentEach(local'[q].read) /\ OneContentEach(local'[q].inputs)
    BY <2>1, <2>8
  <2>9. ASSUME NEW r \in Requests,
               \/ RejectRunning(r) \/ RecoverStale(r) \/ InsertRun(r) \/ ReadConfirmation(r)
               \/ Commit(r) \/ CommitRefused(r) \/ RecordFailureRead(r)
               \/ RecordFailureWrite(r) \/ Fail(r) \/ Crash(r)
        PROVE  Finish(r) \/ local' = local
    BY <2>9 DEF RejectRunning, RecoverStale, InsertRun, ReadConfirmation, Commit,
       CommitRefused, RecordFailureRead, RecordFailureWrite, Fail, Crash
  <2>10. CASE Environment \/ UNCHANGED vars
    BY <2>8, <2>10 DEF vars, Environment, Tick, Publish, Amend, OtherImport, OtherImportFails
  <2> QED
    BY <2>4, <2>5, <2>6, <2>7, <2>8, <2>9, <2>10 DEF Next, RequestStep
<1> QED
  BY <1>1, <1>2, TypeCorrect, PTL DEF Spec

KnownRecords == {rec \in Record : Known(rec)}

\* A batch that conflicts with nothing is taken in whole.
LEMMA MergeKeeps ==
    ASSUME TypeOK, NEW batch \in SUBSET Record, OneContentEach(batch), ~Conflicting(batch),
           raw' = Merged(batch), done' = done \cup {batch}, failed' = failed
    PROVE  Store!Keep(batch)
<1>1. \A rec \in batch : rec[1] \in Entries /\ rec[2] \in Contents /\ rec = <<rec[1], rec[2]>>
  BY DEF Record
<1>2. ASSUME NEW rec \in batch, raw[rec[1]] = Null PROVE raw'[rec[1]] = rec[2]
  <2>1. raw'[rec[1]] = CHOOSE c \in Contents : <<rec[1], c>> \in batch
    BY <1>1, <1>2 DEF Merged, Ids
  <2>2. \A c \in Contents : <<rec[1], c>> \in batch => c = rec[2]
    BY <1>1 DEF OneContentEach
  <2> QED
    BY <1>1, <2>1, <2>2
<1>3. \A rec \in batch : Known(rec)'
  BY <1>1, <1>2, StoredKeeps DEF Conflicting, Known, Unknown
<1>4. ASSUME NEW rec \in Record, Known(rec) PROVE Known(rec)'
  <2>1. rec[1] \in Entries /\ raw[rec[1]] # Null
    BY <1>4 DEF Known, Record
  <2> QED
    BY <1>4, <2>1, StoredKeeps DEF Known
<1>5. ASSUME NEW rec \in Record, Known(rec)', ~Known(rec) PROVE rec \in batch
  <2>1. rec[1] \in Entries /\ rec[2] \in Contents /\ rec = <<rec[1], rec[2]>>
    BY DEF Record
  <2>2. rec[1] \in Ids(batch)
    BY <1>5, <2>1 DEF Known, Merged
  <2>3. PICK x \in batch : x[1] = rec[1]
    BY <2>2 DEF Ids
  <2>4. x[2] = rec[2]
    BY <1>3, <1>5, <2>3 DEF Known
  <2> QED
    BY <1>1, <2>1, <2>3, <2>4
<1>6. KnownRecords' = KnownRecords \cup batch
  BY <1>3, <1>4, <1>5 DEF KnownRecords, Record
<1>7. \A x, y \in KnownRecords' : x[1] = y[1] => x = y
  BY DEF KnownRecords, Known, Record
<1> QED
  BY <1>6, <1>7 DEF Store!Keep, Store!KeysOnce, EntryOf, RecordsOf, KnownRecords

LEMMA StepImplementsStore ==
    TypeOK /\ ReadsAreSnapshots /\ [Next]_vars => [Store!Next]_(Store!vars)
<1> SUFFICES ASSUME TypeOK, ReadsAreSnapshots, [Next]_vars
             PROVE  Store!Next \/ UNCHANGED <<KnownRecords, done, failed>>
  BY DEF Store!vars, KnownRecords
<1>1. ASSUME NEW batch, Store!Keep(batch) \/ Store!Skip(batch) \/ Store!Fail(batch)
      PROVE  Store!Next
  <2>1. batch \in done' \cup failed'
    BY <1>1 DEF Store!Keep, Store!Skip, Store!Fail
  <2> QED
    BY <1>1, <2>1 DEF Store!Next
<1>2. ASSUME raw' = raw PROVE KnownRecords' = KnownRecords
  BY <1>2 DEF KnownRecords, Known
<1>3. ASSUME NEW batch, AlreadyRegistered(batch), raw' = raw, done' = done \cup {batch},
             failed' = failed
      PROVE  Store!Skip(batch)
  BY <1>2, <1>3 DEF AlreadyRegistered, Store!Skip, KnownRecords
<1>4. ASSUME NEW batch \in SUBSET {<<e, content[e]>> : e \in visible}, OtherImport(batch)
      PROVE  Store!Next
  <2>1. batch \in SUBSET Record /\ OneContentEach(batch)
    BY DEF TypeOK, Record, OneContentEach
  <2>2. done' = done \cup {batch} /\ failed' = failed
    BY <1>4 DEF OtherImport
  <2>3. CASE AlreadyRegistered(batch) /\ raw' = raw
    BY <1>1, <1>3, <2>2, <2>3
  <2>4. CASE ~Conflicting(batch) /\ raw' = Merged(batch)
    BY <1>1, <2>1, <2>2, <2>4, MergeKeeps
  <2> QED
    BY <1>4, <2>3, <2>4 DEF OtherImport
<1>5. ASSUME NEW batch, OtherImportFails(batch) PROVE Store!Next
  <2>1. Store!Fail(batch)
    BY <1>2, <1>5 DEF OtherImportFails, Store!Fail, KnownRecords
  <2> QED
    BY <1>1, <2>1
<1>6. ASSUME NEW r \in Requests, Commit(r)
      PROVE  Store!Next \/ UNCHANGED <<KnownRecords, done, failed>>
  <2> DEFINE batch == local[r].inputs
  <2>1. batch \in SUBSET Record /\ OneContentEach(batch)
    BY DEF TypeOK, Local, ReadsAreSnapshots
  <2>2. failed' = failed
    BY <1>6 DEF Commit
  <2>3. CASE batch = {}
    BY <1>2, <1>6, <2>2, <2>3 DEF Commit
  <2>4. CASE batch # {}
    <3>1. /\ AlreadyRegistered(batch) \/ ~Conflicting(batch)
          /\ raw' = Stored(batch) /\ done' = done \cup {batch}
      BY <1>6, <2>4 DEF Commit
    <3> HIDE DEF batch
    <3>2. CASE AlreadyRegistered(batch)
      BY <1>1, <1>3, <2>2, <3>1, <3>2 DEF Stored
    <3>3. CASE ~AlreadyRegistered(batch)
      BY <1>1, <2>1, <2>2, <3>1, <3>3, MergeKeeps DEF Stored
    <3> QED
      BY <3>2, <3>3
  <2> QED
    BY <2>3, <2>4
<1>7. ASSUME NEW r \in Requests, PlanWindow(r) \/ RequestStep(r) \/ Fail(r) \/ Crash(r),
             ~Commit(r)
      PROVE  UNCHANGED <<raw, done, failed>>
  BY <1>7 DEF PlanWindow, RequestStep, PlanProcessing, RejectRunning, RecoverStale,
     InsertRun, ReadPreview, ReadConfirmation, CompareKnown, CommitRefused,
     RecordFailureRead, RecordFailureWrite, Fail, Crash
<1>8. CASE Environment
  <2>1. CASE UNCHANGED <<raw, done, failed>>
    BY <1>2, <2>1
  <2> QED
    BY <1>4, <1>5, <1>8, <2>1 DEF Environment, Tick, Publish, Amend
<1>9. CASE UNCHANGED vars
  BY <1>2, <1>9 DEF vars
<1> QED
  BY <1>2, <1>6, <1>7, <1>8, <1>9 DEF Next

\* The sync with its retries and the importers beside it implement the store that takes
\* a batch whole or not at all and keeps what it has (uq_raw_import_canonical_key,
\* ImportService and its use by the sync).
THEOREM SyncImplementsStore == Spec => ImplementsStore
<1>1. Init => Store!Init
  BY DEF Init, Store!Init, Known, Record
<1> QED
  BY <1>1, StepImplementsStore, ReadsAreSnapshotsInductive, TypeCorrect, PTL
     DEF Spec, ImplementsStore, Store!Spec
=============================================================================
