----------------------------- MODULE KrakenSync -----------------------------
(***************************************************************************)
(* The incremental synchronisation of the Kraken ledger:                   *)
(* services/kraken_sync.py with the rows of table kraken_sync_runs, the    *)
(* unique keys of raw_import_records, and the part of ImportService that   *)
(* decides what a batch stores.                                            *)
(*                                                                         *)
(* Every POST /api/kraken-sync is a request with a database session of its *)
(* own.  FastAPI runs these handlers in a thread pool, so requests         *)
(* interleave between any two statements that touch the database or the    *)
(* provider: one action below is one such statement, or one transaction.   *)
(* The provider's ledger grows behind the program's back, an entry showing *)
(* up at most MaxDelay after the time it carries; the other importers of   *)
(* the application (live import, CSV upload) write to the same tables.     *)
(***************************************************************************)
EXTENDS Integers

CONSTANTS
    Requests,       \* the POST /api/kraken-sync calls
    Entries,        \* the ledger ids the provider may hand out
    Contents,       \* what a ledger entry may say
    OccurredAt,     \* the timestamp of every entry
    InitialStart,   \* settings.kraken_sync_initial_start
    Lookback,       \* settings.kraken_sync_lookback_seconds
    SettlementLag,  \* settings.kraken_sync_settlement_lag_seconds
    Stale,          \* settings.kraken_sync_stale_seconds
    MaxDelay,       \* how long the provider may hold an entry back
    MaxTime,        \* bound: the clock stops here
    MaxImports,     \* bound: batches imported by other parts of the program
    Null

ASSUME TimeAssumption ==
    /\ OccurredAt \in [Entries -> Nat]
    /\ InitialStart \in Int
    /\ Lookback \in Nat \ {0}
    /\ SettlementLag \in Nat
    /\ Stale \in Nat
    /\ MaxDelay \in Nat
    /\ MaxTime \in Nat
    /\ MaxImports \in Nat

\* An entry that shows up later than this is never asked for again.
ASSUME DelayAssumption == MaxDelay <= SettlementLag + Lookback

ASSUME NullAssumption == Null \notin Requests \cup Contents

VARIABLES
    now,        \* the clock
    visible,    \* provider: the entries /0/private/Ledgers returns
    content,    \* provider: what each entry says at the moment
    raw,        \* raw_import_records by canonical key: the stored content
    done,       \* batches (import_hash) with a COMPLETED import session
    failed,     \* batches (import_hash) with a FAILED import session
    imports,    \* number of batches imported outside the sync
    runs,       \* kraken_sync_runs: the row each request inserted
    pc,         \* where each request is
    local       \* what each request remembers

provider == <<visible, content>>
batches  == <<done, failed>>
vars     == <<now, visible, content, raw, done, failed, imports, runs, pc, local>>

Record == Entries \X Contents
Ids(batch) == {rec[1] : rec \in batch}

Statuses == {"none", "processing", "completed", "failed"}
ErrorCodes == {"none", "stale_recovered", "run_failed"}

Row == [status: Statuses, from: Int, to: Int, startedAt: Int,
        error: ErrorCodes,
        digest: BOOLEAN,        \* ledger_id_digest IS NOT NULL ...
        ids: SUBSET Entries]    \* ... and is the digest of these ids

NoRow == [status |-> "none", from |-> 0, to |-> 0, startedAt |-> 0,
          error |-> "none", digest |-> FALSE, ids |-> {}]

Local == [from: Int, to: Int, active: Requests \cup {Null},
          read: SUBSET Record, inputs: SUBSET Record]

NoLocal == [from |-> 0, to |-> 0, active |-> Null, read |-> {}, inputs |-> {}]

Steps == {"idle", "planned", "checked", "recovered", "reading", "confirming",
          "comparing", "committing", "failing", "recording", "done"}

TypeOK ==
    /\ now \in Nat
    /\ visible \subseteq Entries
    /\ content \in [Entries -> Contents]
    /\ raw \in [Entries -> Contents \cup {Null}]
    /\ done \subseteq SUBSET Record
    /\ failed \subseteq SUBSET Record
    /\ imports \in Nat
    /\ runs \in [Requests -> Row]
    /\ pc \in [Requests -> Steps]
    /\ local \in [Requests -> Local]

Init ==
    /\ now = 0
    /\ visible = {}
    /\ content \in [Entries -> Contents]
    /\ raw = [e \in Entries |-> Null]
    /\ done = {} /\ failed = {}
    /\ imports = 0
    /\ runs = [r \in Requests |-> NoRow]
    /\ pc = [r \in Requests |-> "idle"]
    /\ local = [r \in Requests |-> NoLocal]

-----------------------------------------------------------------------------
(* The provider and the clock.                                             *)

Tick ==
    /\ now < MaxTime
    /\ \A e \in Entries \ visible : now < OccurredAt[e] + MaxDelay
    /\ now' = now + 1
    /\ UNCHANGED <<provider, raw, batches, imports, runs, pc, local>>

Publish(e) ==
    /\ e \notin visible
    /\ OccurredAt[e] <= now
    /\ visible' = visible \cup {e}
    /\ UNCHANGED <<now, content, raw, batches, imports, runs, pc, local>>

\* The provider corrects an entry it has already published.
Amend(e, c) ==
    /\ e \in visible
    /\ c # content[e]
    /\ content' = [content EXCEPT ![e] = c]
    /\ UNCHANGED <<now, visible, raw, batches, imports, runs, pc, local>>

-----------------------------------------------------------------------------
(* ImportService, as far as a batch of ledger records needs it.            *)

Known(rec) == raw[rec[1]] = rec[2]
Unknown(rec) == raw[rec[1]] = Null
Conflicting(batch) == \E rec \in batch : ~Known(rec) /\ ~Unknown(rec)

\* find_by_hash: a batch counts as imported once any session carries its hash.
AlreadyRegistered(batch) == batch \in done \cup failed

\* MUTANT of Stored: an upsert that also applies to a batch seen before.
StoredByUpsert(batch) ==
    [e \in Entries |->
        IF e \in Ids(batch)
        THEN CHOOSE c \in Contents : <<e, c>> \in batch
        ELSE raw[e]]

\* The store with the records of a batch that it does not know yet ...
Merged(batch) ==
    [e \in Entries |->
        IF raw[e] = Null /\ e \in Ids(batch)
        THEN CHOOSE c \in Contents : <<e, c>> \in batch
        ELSE raw[e]]

\* ... which is what an import leaves that looks for the hash and commits in one step.
Stored(batch) == IF AlreadyRegistered(batch) THEN raw ELSE Merged(batch)

\* The records the provider returns for a half-open window.
Snapshot(from, to) ==
    {<<e, content[e]>> :
        e \in {x \in visible : from <= OccurredAt[x] /\ OccurredAt[x] < to}}

\* A confirmed live import (or a CSV upload) of some of the visible entries, with what
\* the attempts of ImportEngine come to (module RecordStore): a batch whose hash is
\* known is skipped, unless the hash was looked for before it became known.
OtherImport(batch) ==
    /\ imports < MaxImports
    /\ imports' = imports + 1
    /\ \/ AlreadyRegistered(batch) /\ UNCHANGED raw
       \/ ~Conflicting(batch) /\ raw' = Merged(batch)
    /\ done' = done \cup {batch}
    /\ UNCHANGED <<now, provider, failed, runs, pc, local>>

\* The same import failing after its hash was computed: the records are rolled
\* back, a FAILED session with the hash is what remains.
OtherImportFails(batch) ==
    /\ imports < MaxImports
    /\ imports' = imports + 1
    /\ failed' = failed \cup {batch}
    /\ UNCHANGED <<now, provider, raw, done, runs, pc, local>>

-----------------------------------------------------------------------------
(* A synchronisation request.                                              *)

Later(a, b) == IF a >= b THEN a ELSE b

\* core/incremental_sync.py: the columns each of them writes.  complete_sync
\* sets error_code to the None it already has in memory, so the UPDATE leaves
\* the column out.
fail_sync(row, code) == [row EXCEPT !.status = "failed", !.error = code]
complete_sync(row, ids) ==
    [row EXCEPT !.status = "completed", !.digest = TRUE, !.ids = ids]

\* MUTANT of Completed: a failed run moves the checkpoint, too.
CompletedOrFailed == {r \in Requests : runs[r].status \in {"completed", "failed"}}

Completed == {r \in Requests : runs[r].status = "completed"}

LatestSuccessful == {p \in Completed : \A q \in Completed : runs[q].to <= runs[p].to}

\* MUTANT of WindowStarts: the next window starts where the last one ended.
WindowStartsWithoutLookback ==
    IF Completed = {} THEN {InitialStart}
    ELSE {runs[p].to : p \in LatestSuccessful}

WindowStarts ==
    IF Completed = {} THEN {InitialStart}
    ELSE {Later(InitialStart, runs[p].to - Lookback) : p \in LatestSuccessful}

Finish(r) ==
    /\ pc' = [pc EXCEPT ![r] = "done"]
    /\ local' = [local EXCEPT ![r] = NoLocal]

GoTo(r, step) == pc' = [pc EXCEPT ![r] = step]

\* plan_sync up to its first query: the window of this request.
PlanWindow(r) ==
    /\ pc[r] = "idle"
    /\ \E from \in WindowStarts :
          local' = [local EXCEPT ![r] = [@ EXCEPT !.from = from,
                                                  !.to = now - SettlementLag]]
    /\ GoTo(r, "planned")
    /\ UNCHANGED <<now, provider, raw, batches, imports, runs>>

\* plan_sync's second query, then the test for an empty window.
PlanProcessing(r) ==
    /\ pc[r] = "planned"
    /\ IF local[r].to <= local[r].from
       THEN Finish(r)
       ELSE /\ \/ \E a \in Requests : /\ runs[a].status = "processing"
                                      /\ local' = [local EXCEPT ![r].active = a]
               \/ /\ \A a \in Requests : runs[a].status # "processing"
                  /\ UNCHANGED local
            /\ GoTo(r, "checked")
    /\ UNCHANGED <<now, provider, raw, batches, imports, runs>>

IsStale(a) == now - runs[a].startedAt > Stale

\* A run younger than the limit turns the request away.
RejectRunning(r) ==
    /\ pc[r] = "checked"
    /\ local[r].active # Null
    /\ ~IsStale(local[r].active)
    /\ Finish(r)
    /\ UNCHANGED <<now, provider, raw, batches, imports, runs>>

\* fail_sync on the run as plan_sync loaded it: the entity in memory is
\* PROCESSING, whatever the row has become, and the UPDATE names only its id.
RecoverStale(r) ==
    /\ pc[r] = "checked"
    /\ local[r].active # Null
    /\ IsStale(local[r].active)
    /\ runs' = [runs EXCEPT ![local[r].active] = fail_sync(@, "stale_recovered")]
    /\ GoTo(r, "recovered")
    /\ UNCHANGED <<now, provider, raw, batches, imports, local>>

\* The INSERT of the run; uq_kraken_sync_active admits one PROCESSING row.
InsertRun(r) ==
    /\ pc[r] = "recovered" \/ (pc[r] = "checked" /\ local[r].active = Null)
    /\ IF \E a \in Requests : runs[a].status = "processing"
       THEN Finish(r) /\ UNCHANGED runs
       ELSE /\ runs' = [runs EXCEPT ![r] =
                          [status |-> "processing", from |-> local[r].from,
                           to |-> local[r].to, startedAt |-> now,
                           error |-> "none", digest |-> FALSE, ids |-> {}]]
            /\ GoTo(r, "reading")
            /\ UNCHANGED local
    /\ UNCHANGED <<now, provider, raw, batches, imports>>

\* The first complete read of the window (its pages: module LedgerPagination).
ReadPreview(r) ==
    /\ pc[r] = "reading"
    /\ local' = [local EXCEPT ![r].read = Snapshot(local[r].from, local[r].to)]
    /\ GoTo(r, "confirming")
    /\ UNCHANGED <<now, provider, raw, batches, imports, runs>>

\* The second read has to return the same ids with the same fingerprints.
ReadConfirmation(r) ==
    /\ pc[r] = "confirming"
    /\ GoTo(r, IF Snapshot(local[r].from, local[r].to) = local[r].read
               THEN "comparing" ELSE "failing")
    /\ UNCHANGED <<now, provider, raw, batches, imports, runs, local>>

\* The queries at the head of _persist: known entries must not have changed,
\* the unknown ones become the batch to import.
CompareKnown(r) ==
    /\ pc[r] = "comparing"
    /\ IF Conflicting(local[r].read)
       THEN GoTo(r, "failing") /\ UNCHANGED local
       ELSE /\ local' = [local EXCEPT ![r].inputs = {rec \in local[r].read : Unknown(rec)}]
            /\ GoTo(r, "committing")
    /\ UNCHANGED <<now, provider, raw, batches, imports, runs>>

\* MUTANT of MayComplete: the constraint is missing.
MayCompleteAlways(row) == TRUE

\* ck_kraken_sync_status: a COMPLETED row carries no error code.
MayComplete(row) == row.error = "none"

\* Import, transformation and complete_sync in one transaction.
Commit(r) ==
    /\ pc[r] = "committing"
    /\ MayComplete(runs[r])
    /\ LET batch == local[r].inputs IN
       IF batch = {}
       THEN UNCHANGED <<raw, done>>
       ELSE /\ AlreadyRegistered(batch) \/ ~Conflicting(batch)
            /\ raw' = Stored(batch)
            /\ done' = done \cup {batch}
    /\ runs' = [runs EXCEPT ![r] = complete_sync(@, Ids(local[r].read))]
    /\ Finish(r)
    /\ UNCHANGED <<now, provider, failed, imports>>

\* The commit's exceptions: a content conflict found by the import, or the
\* constraint on the row of a run that was declared stale meanwhile.
CommitRefused(r) ==
    /\ pc[r] = "committing"
    /\ \/ ~MayComplete(runs[r])
       \/ /\ Conflicting(local[r].inputs)
          /\ ~AlreadyRegistered(local[r].inputs)
    /\ GoTo(r, "failing")
    /\ UNCHANGED <<now, provider, raw, batches, imports, runs, local>>

\* Any other exception between the INSERT and the commit: the provider's
\* answer, a preview that is not ready, the database, the transformation.
Fail(r) ==
    /\ pc[r] \in {"reading", "confirming", "comparing", "committing"}
    /\ GoTo(r, "failing")
    /\ UNCHANGED <<now, provider, raw, batches, imports, runs, local>>

\* MUTANT of RecordFailureRead: no answer when the row is no longer PROCESSING.
RecordFailureReadOnly(r) ==
    /\ pc[r] = "failing"
    /\ runs[r].status = "processing"
    /\ GoTo(r, "recording")
    /\ UNCHANGED <<now, provider, raw, batches, imports, runs, local>>

\* _record_failure: roll back and read the row again ...
RecordFailureRead(r) ==
    /\ pc[r] = "failing"
    /\ IF runs[r].status = "processing"
       THEN GoTo(r, "recording") /\ UNCHANGED local
       ELSE Finish(r)
    /\ UNCHANGED <<now, provider, raw, batches, imports, runs>>

\* ... and fail it if it was still PROCESSING.
RecordFailureWrite(r) ==
    /\ pc[r] = "recording"
    /\ runs' = [runs EXCEPT ![r] = fail_sync(@, "run_failed")]
    /\ Finish(r)
    /\ UNCHANGED <<now, provider, raw, batches, imports>>

\* The process ends: the open transaction is lost, the row stays as it is.
Crash(r) ==
    /\ pc[r] \notin {"idle", "done"}
    /\ Finish(r)
    /\ UNCHANGED <<now, provider, raw, batches, imports, runs>>

-----------------------------------------------------------------------------
RequestStep(r) ==
    \/ PlanProcessing(r) \/ RejectRunning(r) \/ RecoverStale(r) \/ InsertRun(r)
    \/ ReadPreview(r) \/ ReadConfirmation(r) \/ CompareKnown(r)
    \/ Commit(r) \/ CommitRefused(r)
    \/ RecordFailureRead(r) \/ RecordFailureWrite(r)

Environment ==
    \/ Tick
    \/ \E e \in Entries : Publish(e)
    \/ \E e \in Entries, c \in Contents : Amend(e, c)
    \/ \E batch \in (SUBSET {<<e, content[e]>> : e \in visible}) \ {{}} :
          OtherImport(batch) \/ OtherImportFails(batch)

Next ==
    \/ Environment
    \/ \E r \in Requests : PlanWindow(r) \/ RequestStep(r) \/ Fail(r) \/ Crash(r)

Spec == Init /\ [][Next]_vars

\* A request that has been accepted is worked on until it is answered: its
\* thread is never suspended for good, and the HTTP client has timeouts and a
\* bounded number of retries.  Nothing obliges a client to send a request, or
\* anything to fail.
FairSpec == Spec /\ \A r \in Requests : WF_vars(RequestStep(r))

-----------------------------------------------------------------------------
(* What the synchronisation promises.                                      *)

\* An entry is accounted for: stored, or part of a batch that was registered
\* as a failed import, which the import engine does not repeat.
Held(e) == raw[e] # Null \/ \E batch \in failed : e \in Ids(batch)

\* The checkpoint leaves no gap behind it.  A completed run makes later runs
\* start Lookback before its end, so everything older than that must have been
\* taken in: by this run, by an earlier one, or by another importer.
NoGapBehindCheckpoint ==
    \A r \in Requests : runs[r].status = "completed" =>
        \A e \in Entries :
            InitialStart <= OccurredAt[e] /\ OccurredAt[e] < runs[r].to - Lookback
                => Held(e)

\* The same promise as a refinement: the entries held and the windows completed
\* behave like LedgerCheckpoint.  A run completed once stays a checkpoint there
\* even when its row is overwritten later (see CompletedRunsImmutable).
Checkpoint == INSTANCE LedgerCheckpoint WITH
    held        <- {e \in Entries : Held(e)},
    checkpoints <- {runs[r].to : r \in {q \in Requests : runs[q].digest}}

ImplementsCheckpoint == Checkpoint!Spec

\* What a completed run says it has read has indeed been taken in.
CompletedWindowHeld ==
    \A r \in Requests : runs[r].status = "completed" =>
        runs[r].digest /\ \A e \in runs[r].ids : Held(e)

\* uq_kraken_sync_active: of all requests racing past the check for an active
\* run, one gets its row.
OneProcessingRun ==
    \A r, s \in Requests :
        runs[r].status = "processing" /\ runs[s].status = "processing" => r = s

\* A known ledger id is never overwritten, whatever the provider says later.
KnownEntriesNeverOverwritten ==
    [][\A e \in Entries : raw[e] # Null => raw'[e] = raw[e]]_vars

EntryOf(rec) == rec[1]
RecordsOf(batch) == batch

\* What the sync and the importers beside it leave in the raw records and in the import
\* sessions behaves like RecordStore: an entry once stored is never overwritten,
\* whatever the provider says later.
Store == INSTANCE RecordStore WITH
    KeyOf <- EntryOf, RecordsOf <- RecordsOf,
    kept <- {rec \in Record : Known(rec)}, done <- done, failed <- failed
ImplementsStore == Store!Spec

\* A run declared dead by a later request stays FAILED even though its thread
\* is still alive and may go on to commit.
RecoveredRunStaysFailed ==
    [][\A r \in Requests : runs[r].status = "failed" => runs'[r].status = "failed"]_vars

\* Every request that has entered run_sync is answered.
EveryRequestReturns ==
    \A r \in Requests : pc[r] # "idle" ~> pc[r] = "done"

\* mappings.py: "Completed Kraken sync runs are immutable."
CompletedRunsImmutable ==
    [][\A r \in Requests : runs[r].status = "completed" => runs'[r] = runs[r]]_vars

-----------------------------------------------------------------------------
(* Why NoGapBehindCheckpoint holds: the inductive invariant.               *)

Planned    == {"planned", "checked", "recovered", "reading", "confirming",
               "comparing", "committing"}
Working    == {"reading", "confirming", "comparing", "committing"}
HasRead    == {"confirming", "comparing", "committing"}
NotStarted == {"idle", "planned", "checked", "recovered"}

CoveredBefore(t) ==
    \A e \in Entries : InitialStart <= OccurredAt[e] /\ OccurredAt[e] < t => Held(e)

\* The provider does not hold an entry back longer than MaxDelay.
UnpublishedIsRecent ==
    \A e \in Entries \ visible : now <= OccurredAt[e] + MaxDelay

\* A batch that counts as imported is held, so skipping it loses nothing held.
RegisteredBatchesHeld == \A batch \in done : \A e \in Ids(batch) : Held(e)

\* Before its start, a window has nothing left to take in; it ends far enough
\* in the past.
WindowAdjoins(r) ==
    pc[r] \in Planned =>
        /\ InitialStart <= local[r].from
        /\ CoveredBefore(local[r].from)
        /\ local[r].to <= now - SettlementLag

\* The row and the request agree on the window until the run is over.
RowMatchesWindow(r) ==
    /\ pc[r] \in Working => runs[r].to = local[r].to
    /\ pc[r] # "done" => ~runs[r].digest

\* A read window contains all of it that will not be read again.
ReadIsComplete(r) ==
    pc[r] \in HasRead =>
        \A e \in Entries :
            local[r].from <= OccurredAt[e] /\ OccurredAt[e] < local[r].to - Lookback
                => e \in Ids(local[r].read)

\* Every record read is held already or in the batch about to be stored.
InputsAreComplete(r) ==
    pc[r] = "committing" =>
        \A rec \in local[r].read : rec \in local[r].inputs \/ Held(rec[1])

CompletedRunCovers(r) ==
    /\ runs[r].status = "completed" => runs[r].digest
    /\ runs[r].digest => /\ CoveredBefore(runs[r].to - Lookback)
                         /\ \A e \in runs[r].ids : Held(e)

RequestInv(r) ==
    /\ WindowAdjoins(r)
    /\ RowMatchesWindow(r)
    /\ ReadIsComplete(r)
    /\ InputsAreComplete(r)
    /\ CompletedRunCovers(r)

CheckpointInv ==
    /\ UnpublishedIsRecent
    /\ RegisteredBatchesHeld
    /\ \A r \in Requests : RequestInv(r)

\* A terminal row is only ever touched to fail it again.
TerminalRowsInv ==
    \A r \in Requests :
        /\ pc[r] \in NotStarted => runs[r].status = "none"
        /\ runs[r].status = "failed" => runs[r].error # "none"
        /\ local[r].active # Null => runs[local[r].active].status # "none"
=============================================================================
