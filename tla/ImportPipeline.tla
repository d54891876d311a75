--------------------------- MODULE ImportPipeline ---------------------------
(***************************************************************************)
(* From a read of the account to booked facts: the CSV upload and          *)
(* POST /transformations of api/workflows.py, the live import of           *)
(* api/kraken_live.py and the sync of services/kraken_sync.py, each over   *)
(* ImportEngine and KrakenTransformation.                                  *)
(*                                                                         *)
(* Upload and live import commit the import first and transform in a       *)
(* second transaction, the sync does both in one.  A transformation looks  *)
(* facts up and inserts what is missing.  A fact is never changed or       *)
(* removed and its key is unique, so a run that commits has found what it  *)
(* would find at its commit: one that is overtaken by another insert ends  *)
(* in the unique key.  Only the check of an exchange's payload looks for   *)
(* facts that it does not insert, and is a step of its own.                *)
(***************************************************************************)
EXTENDS ImportEngine, KrakenTransformation

\* An account is a finite set of records, and one batch is one CSV export or one
\* read of the ledger.
ASSUME AccountAssumption ==
    /\ IsFiniteSet(Requests) /\ Null \notin Requests
    /\ \A account \in Accounts :
        /\ IsFiniteSet(UNION account)
        /\ \A batch \in account : \A x, y \in batch : Raw[x].source = Raw[y].source

\* The canonical key is the source and the id that the source gave the record.
ASSUME KeyAssumption ==
    \A account \in Accounts : \A x, y \in UNION account :
        Raw[x].source = Raw[y].source /\ Raw[x].key = Raw[y].key
            => CanonicalKey[x] = CanonicalKey[y]

VARIABLES
    runs,       \* transformation_runs that completed, by the request
    facts       \* acquisition_lots, disposal_events, fee_events, trade_executions

vars == <<ivars, runs, facts>>

NoRun == [completed |-> FALSE, sessions |-> {}, selected |-> {}, context |-> {},
          decisions |-> {}]

Init ==
    /\ ImportInit
    /\ runs = [q \in Requests |-> NoRun]
    /\ facts = {}

-----------------------------------------------------------------------------
(* Which sessions a request transforms.                                    *)

\* The API calls read ledger entries, trades come in CSV exports only.
LedgerBatch(batch) == \A r \in batch : IsLedger(r)

\* reusable_transformation_run: a completed run that is linked to the session.
Reusable(session) == {k \in Requests : session \in runs[k].sessions}

\* duplicate_of_session_id or session_id
CanonicalSession(q) ==
    IF local[q].duplicateOf = Null THEN q ELSE local[q].duplicateOf

ChosenSessions(q) ==
    IF local[q].kind = "csv" THEN {CanonicalSession(q)}
    ELSE local[q].reused \cup (IF local[q].stored THEN {q} ELSE {})

AnswerImport(q) ==
    /\ pc[q] = "imported"
    /\ \/ ~local[q].transform
       \/ local[q].kind = "csv" /\ Reusable(CanonicalSession(q)) # {}
    /\ Answer(q)
    /\ UNCHANGED <<offered, home, sessions, runs, facts>>

ContinueImport(q) ==
    /\ pc[q] = "imported"
    /\ local[q].transform
    /\ local[q].kind = "csv" => Reusable(CanonicalSession(q)) = {}
    /\ local' = [local EXCEPT ![q].chosen = ChosenSessions(q)]
    /\ Goto(q, "transforming")
    /\ UNCHANGED <<offered, home, sessions, runs, facts>>

\* POST /transformations with any sessions, complete or not.
PostTransformation(q, S) ==
    /\ MayStart(q)
    /\ S # {} /\ \A s \in S : sessions[s].status # "none"
    /\ local' = [local EXCEPT ![q].chosen = S]
    /\ Goto(q, "transforming")
    /\ UNCHANGED <<offered, home, sessions, runs, facts>>

-----------------------------------------------------------------------------
(* KrakenTransformationService.transform                                   *)

\* The sessions whose records a sync looks at besides its own.
\* MUTANT of SyncContext: every session there is.
AllSessions(q) == {s \in Requests \ {q} : sessions[s].status # "none"}

SyncContext(q) == local[q].context

\* The records of the selected sessions, and of those around them.  A session that
\* is committed gains no records, so it does not matter when they are read; a sync
\* selects what it has flushed itself.
Selected(q) == IF pc[q] = "projecting" THEN Pending(q) ELSE OfSessions(local[q].chosen)
Context(q)  == IF pc[q] = "projecting" THEN OfSessions(SyncContext(q)) ELSE {}

\* The receives whose exchange the run books, unless the check finds a conflict.
ExchangesOf(q) == {r \in Selected(q) : Exchanged(r, Selected(q) \cup Context(q))}

\* existing_acquisition and existing_disposal of one exchange, before its first flush.
CheckPayload(q, r) ==
    /\ pc[q] \in {"transforming", "projecting"}
    /\ r \in ExchangesOf(q) \ local[q].looked
    /\ local' = [local EXCEPT
            ![q].looked = @ \cup {r},
            ![q].seen = @ \cup FoundFor(r, Selected(q) \cup Context(q), facts)]
    /\ UNCHANGED <<offered, home, sessions, pc, runs, facts>>

CompletedRun(S, selected, context, decisions) ==
    [completed |-> TRUE, sessions |-> S, selected |-> selected, context |-> context,
     decisions |-> decisions]

\* What the run comes to when it has seen these facts in its checks.
OutcomeOf(q, seen) ==
    Outcome(Selected(q), Context(q), Stored \cup Selected(q), seen, facts)

\* Decisions and facts of one run, in one commit.
Project(q, S) ==
    /\ ExchangesOf(q) \subseteq local[q].looked
    /\ \E outcome \in {OutcomeOf(q, local[q].seen)} :
        /\ Consistent(outcome, facts)
        /\ runs' = [runs EXCEPT ![q] =
                        CompletedRun(S, Selected(q), Context(q), outcome.decisions)]
        /\ facts' = facts \cup outcome.facts

Transform(q) ==
    /\ pc[q] = "transforming"
    /\ Project(q, local[q].chosen)
    /\ Answer(q)
    /\ UNCHANGED <<offered, home, sessions>>

-----------------------------------------------------------------------------
(* KrakenSyncService._persist: known entries are sorted out, the rest is   *)
(* imported and transformed with the sessions of the known ones around it. *)

SyncCompare(q, batch) ==
    /\ MayStart(q)
    /\ batch \in offered /\ LedgerBatch(batch)
    /\ LET known == WithKeyOf(batch)
           new   == {r \in batch : \A x \in known : CanonicalKey[x] # CanonicalKey[r]}
       IN  IF Contradicted(batch) \/ new = {}
           THEN Answer(q)
           ELSE /\ local' = [local EXCEPT ![q].kind = "sync", ![q].batch = new,
                                 ![q].context = Homes(known), ![q].started = Started]
                /\ Goto(q, "syncing")
    /\ UNCHANGED <<offered, home, sessions, runs, facts>>

\* Within the transaction the import looks the records up once more and flushes the
\* rest; a registered batch is left where it is.
SyncImport(q) ==
    /\ pc[q] = "syncing"
    /\ Registering(q) = {} => ~Contradicted(local[q].batch)
    /\ local' = [local EXCEPT ![q].known =
                    IF Registering(q) = {} THEN WithKeyOf(local[q].batch) ELSE local[q].batch]
    /\ Goto(q, "projecting")
    /\ UNCHANGED <<offered, home, sessions, runs, facts>>

SyncCommit(q) ==
    /\ pc[q] = "projecting"
    /\ KeysFree(Pending(q))
    /\ home' = [r \in Records |-> IF r \in Pending(q) THEN q ELSE home[r]]
    /\ sessions' = [sessions EXCEPT ![q] = Row(q, "completed")]
    /\ Project(q, SyncContext(q) \cup {q})
    /\ Answer(q)
    /\ UNCHANGED offered

\* An exception, or the end of the process: what is not committed is gone.  The
\* FAILED row that a failed run may leave is linked to no session.
Abandon(q) ==
    /\ pc[q] \in {"imported", "transforming", "syncing", "projecting"}
    /\ Answer(q)
    /\ UNCHANGED <<offered, home, sessions, runs, facts>>

-----------------------------------------------------------------------------
Import(q) ==
    /\ \/ \E kind \in {"csv", "live"}, batch \in offered, transform \in BOOLEAN :
            /\ kind = "live" => LedgerBatch(batch)
            /\ Receive(q, kind, batch, transform)
       \/ SkipBatch(q)
       \/ FindNoBatch(q)
       \/ SortRecords(q)
       \/ StoreRecords(q)
       \/ ImportFails(q)
       \/ RecordFailure(q)
    /\ UNCHANGED <<runs, facts>>

Next ==
    \E q \in Requests :
        \/ Import(q)
        \/ AnswerImport(q)
        \/ ContinueImport(q)
        \/ \E S \in SUBSET Requests : PostTransformation(q, S)
        \/ \E r \in Records : CheckPayload(q, r)
        \/ Transform(q)
        \/ \E batch \in offered : SyncCompare(q, batch)
        \/ SyncImport(q)
        \/ SyncCommit(q)
        \/ Abandon(q)

Spec == Init /\ [][Next]_vars

-----------------------------------------------------------------------------
(* Properties.                                                             *)

Steps == {"idle", "checking", "sorting", "storing", "failing", "imported",
          "transforming", "syncing", "projecting", "done"}

Local == [kind : {"csv", "live", "sync", Null}, batch : SUBSET Records,
          transform : BOOLEAN, started : Nat, known : SUBSET Records,
          reused : SUBSET Requests, stored : BOOLEAN,
          duplicateOf : Requests \cup {Null}, chosen : SUBSET Requests,
          context : SUBSET Requests, looked : SUBSET Records, seen : SUBSET facts]

Session == [status : {"none", "completed", "failed"},
            hash : [form : Forms, batch : SUBSET Records] \cup {Null}, started : Nat]

\* Type correctness: a record is kept by a request whose session has completed,
\* and facts and runs are about records that are kept.
TypeOK ==
    /\ offered \in Accounts
    /\ home \in [Records -> Requests \cup {Null}]
    /\ sessions \in [Requests -> Session]
    /\ pc \in [Requests -> Steps]
    /\ local \in [Requests -> Local]
    /\ \A r \in Stored : sessions[home[r]].status = "completed"
    /\ \A q \in Requests : runs[q].selected \cup runs[q].context \subseteq Stored
    /\ \A f \in facts : f.basis \subseteq Stored

\* An import that succeeds, also as a duplicate, leaves every record of its batch
\* stored with the contents it was delivered with.  The exception is a batch
\* registered by a failed attempt, which ADR 0008 wants skipped.
AnsweredBatchStored ==
    \A q \in Requests :
        pc[q] = "imported" =>
            \/ local[q].batch \subseteq Stored
            \/ \E s \in Requests : sessions[s].status = "failed" /\ sessions[s].hash = Hash(q)

\* The hashes of the sessions with a status, what such a hash stands for, and the key.
Hashes(status) ==
    {sessions[q].hash : q \in {p \in Requests : sessions[p].status = status}}

HashOf(hash) == hash.batch
Key(r) == CanonicalKey[r]

\* Whatever calls race, fail or are repeated: the raw records and the rows of the
\* sessions behave like RecordStore, each call as if it were one step.
Store == INSTANCE RecordStore WITH
    KeyOf <- Key, RecordsOf <- HashOf,
    kept <- Stored, done <- Hashes("completed"), failed <- Hashes("failed")
ImplementsStore == Store!Spec

\* A stored record stays where it is, and no other record with its key is ever
\* stored: neither a race of two imports nor a correction at Kraken replaces what a
\* projection may rest on.
StoredRecordsStay ==
    [][\A r \in Stored :
        /\ home'[r] = home[r]
        /\ \A x \in Records : home'[x] # Null /\ CanonicalKey[x] = CanonicalKey[r] => x = r]_vars

\* What a run is about to write never breaks a unique key by itself: with the records
\* and the books as they are, it decides no record twice and books no fact that is
\* there.  Only a race makes a run fail.
ProjectionNeverCollides ==
    \A q \in Requests :
        (pc[q] = "transforming" \/ (pc[q] = "projecting" /\ KeysFree(Pending(q))))
            => Consistent(OutcomeOf(q, facts), facts)

\* The spend of an exchange whose receive was not selected with it, or is in conflict.
LeftToItsReceive(r, run) ==
    LET group == LedgerGroup(r, run.selected \cup run.context) IN
    /\ IsPair(group) /\ r = SpendOf(group)
    /\ \/ ReceiveOf(group) \notin run.selected
       \/ \E d \in run.decisions : d.record = ReceiveOf(group) /\ d.verdict = "conflict"

\* A completed run decides every record it selected exactly once.  The one record
\* it may pass over is a spend that is left to its receive.
SelectedRecordsDecided ==
    \A q \in Requests : \A r \in runs[q].selected :
        \/ \E d \in runs[q].decisions : \A e \in runs[q].decisions : e.record = r <=> e = d
        \/ LeftToItsReceive(r, runs[q])

BookedWhole(spend, receive, books) ==
    /\ ExchangeLegs(spend, receive) \subseteq books
    /\ \A g \in ExchangeFees(spend, receive) : Existing(g, books) # {}

LegRoles == {"ledger-acquisition", "ledger-disposal"}

\* An exchange is booked whole: what was given, what was received and the fees of
\* both rest on the same two records.  NOT an invariant: of two runs that join one
\* receive with different spends, the second may find the receive booked after its
\* check, and then books the disposal of its spend alone.
ExchangesBookedWhole ==
    \A f \in facts :
        f.role \in LegRoles => BookedWhole(SpendOf(f.basis), ReceiveOf(f.basis), facts)

\* Another run has booked a leg of the exchange on other evidence, which was not there
\* when the payload was checked.
Overtaken(q, spend, receive) ==
    /\ receive \in local[q].looked
    /\ \E f \in ExchangeLegs(spend, receive) :
        Existing(f, local[q].seen) = {} /\ Persisted(f, facts) = "conflict"

\* A run books an exchange whole, both legs and the fees of both, in whatever sessions
\* and runs its two records came.  Only a run that was overtaken between the check
\* and the booking may leave it with one leg.
UndisturbedExchangesBookedWhole ==
    [][\A q \in Requests : runs'[q] # runs[q] =>
        \A f \in facts' \ facts : f.role \in LegRoles =>
            LET spend == SpendOf(f.basis) receive == ReceiveOf(f.basis) IN
            Overtaken(q, spend, receive) \/ BookedWhole(spend, receive, facts')]_vars

\* A ledger entry is put aside as part of a trade only by a run that also decides
\* the trade: its value is never left out of the books unnoticed.
TradeLegsExplained ==
    \A q \in Requests : \A d \in runs[q].decisions :
        d.verdict = "duplicate" =>
            \E t \in TradesOf(d.record, runs[q].selected \cup runs[q].context) :
                \E e \in runs[q].decisions : e.record = t

\* Once a run has completed, transforming the same records again books nothing,
\* whatever was imported and transformed in between.
RepeatedRunBooksNothing ==
    \A q \in Requests :
        Outcome(runs[q].selected, runs[q].context, Stored, facts, facts).facts = {}
=============================================================================
