---------------------------- MODULE ImportEngine ----------------------------
(***************************************************************************)
(* imports/service.py: ImportService.import_records as the CSV upload and  *)
(* the live import call it.  Every request has a session row of its own    *)
(* and a unit of work per attempt; the queries of one request see what     *)
(* others have committed by then, and only uq_raw_import_canonical_key     *)
(* keeps two of them from storing one record twice.                        *)
(*                                                                         *)
(* A batch is a set of records of one source.  The CSV export and the API  *)
(* spell the same record differently, so the import hash depends on the    *)
(* form while the canonical key and the fingerprint do not.                *)
(***************************************************************************)
EXTENDS Integers, FiniteSets

CONSTANTS
    Requests,   \* the calls that import or transform something
    CanonicalKey,   \* raw record -> canonical_key
    Accounts,   \* for each account looked at: the batches it can be read in
    MaxActive,  \* bound for each account: requests at work at one time
    Null

VARIABLES
    offered,    \* the batches of the account at hand
    home,       \* raw_import_records: record -> the request that stored it
    sessions,   \* import_sessions: what is committed of each request's row
    pc,         \* where each request is
    local       \* what each request remembers

ivars == <<offered, home, sessions, pc, local>>

\* Everything the account at hand can be read as.
Records == UNION offered
Forms == {"csv", "api"}
ImportHash(form, batch) == [form |-> form, batch |-> batch]

NoSession == [status |-> "none", hash |-> Null, started |-> 0]

NoLocal == [kind |-> Null, batch |-> {}, transform |-> FALSE, started |-> 0,
            known |-> {}, reused |-> {}, stored |-> FALSE, duplicateOf |-> Null,
            chosen |-> {}, context |-> {}, looked |-> {}, seen |-> {}]

ImportInit ==
    /\ offered \in Accounts
    /\ home = [r \in Records |-> Null]
    /\ sessions = [q \in Requests |-> NoSession]
    /\ pc = [q \in Requests |-> "idle"]
    /\ local = [q \in Requests |-> NoLocal]

Goto(q, step) == pc' = [pc EXCEPT ![q] = step]

\* A request that has answered keeps nothing.
Answer(q) ==
    /\ Goto(q, "done")
    /\ local' = [local EXCEPT ![q] = NoLocal]

\* The raw records a query sees: those whose transaction has committed.
Stored == {r \in Records : home[r] # Null}
OfSessions(S) == {r \in Records : home[r] \in S}
WithKeyOf(batch) == {x \in Stored : \E r \in batch : CanonicalKey[x] = CanonicalKey[r]}
Homes(records) == {home[r] : r \in records}

Form(q) == IF local[q].kind = "csv" THEN "csv" ELSE "api"
Hash(q) == ImportHash(Form(q), local[q].batch)

-----------------------------------------------------------------------------

Started == 1 + Cardinality({q \in Requests : pc[q] # "idle"})

MayStart(q) ==
    /\ pc[q] = "idle"
    /\ Cardinality({p \in Requests : pc[p] \notin {"idle", "done"}}) < MaxActive[offered]

\* POST /imports/kraken with a parsed file, or POST /kraken-live/ledgers/import
\* with records read twice.  The session begins its life in this moment.
Receive(q, kind, batch, transform) ==
    /\ MayStart(q)
    /\ batch \in offered
    /\ local' = [local EXCEPT ![q].kind = kind, ![q].batch = batch,
                              ![q].transform = transform, ![q].started = Started]
    /\ Goto(q, "checking")
    /\ UNCHANGED <<offered, home, sessions>>

Row(q, status) == [status |-> status, hash |-> Hash(q), started |-> local[q].started]

\* find_by_hash: the latest session with the hash.  Completed or failed, it
\* registers the batch: no caller passes retry_failed.
Registering(q) ==
    {s \in Requests \ {q} : sessions[s].status # "none" /\ sessions[s].hash = Hash(q)}
Latest(q) ==
    {s \in Registering(q) :
        \A t \in Registering(q) : sessions[t].started <= sessions[s].started}

\* A registered batch is skipped; a session of its own says so.
SkipBatch(q) ==
    /\ pc[q] = "checking"
    /\ \E s \in Latest(q) :
        LET homes == Homes(WithKeyOf(local[q].batch)) IN
        local' = [local EXCEPT ![q].duplicateOf = s,
                               ![q].reused = IF homes = {} THEN {s} ELSE homes]
    /\ sessions' = [sessions EXCEPT ![q] = Row(q, "completed")]
    /\ Goto(q, "imported")
    /\ UNCHANGED <<offered, home>>

FindNoBatch(q) ==
    /\ pc[q] = "checking"
    /\ Registering(q) = {}
    /\ Goto(q, "sorting")
    /\ UNCHANGED <<offered, home, sessions, local>>

\* MUTANT of Contradicted: only the canonical key is looked at.
NotContradicted(batch) == FALSE

\* A record of the batch says something else than a stored one, or another of the
\* batch, with its key.
Contradicted(batch) ==
    \E x \in WithKeyOf(batch) \cup batch, y \in batch :
        x # y /\ CanonicalKey[x] = CanonicalKey[y]

\* Known records are left where they are, unless they say something else.
SortRecords(q) ==
    /\ pc[q] = "sorting"
    /\ LET known == WithKeyOf(local[q].batch) IN
       IF Contradicted(local[q].batch)
       THEN Goto(q, "failing") /\ UNCHANGED local
       ELSE /\ Goto(q, "storing")
            /\ local' = [local EXCEPT ![q].known = known, ![q].reused = Homes(known)]
    /\ UNCHANGED <<offered, home, sessions>>

Pending(q) == {r \in local[q].batch : \A x \in local[q].known : CanonicalKey[x] # CanonicalKey[r]}

\* MUTANT of KeysFree: there is no constraint.
AnyKeys(records) == TRUE

\* uq_raw_import_canonical_key
KeysFree(records) == WithKeyOf(records) = {}

StoreRecords(q) ==
    /\ pc[q] = "storing"
    /\ KeysFree(Pending(q))
    /\ home' = [r \in Records |-> IF r \in Pending(q) THEN q ELSE home[r]]
    /\ sessions' = [sessions EXCEPT ![q] = Row(q, "completed")]
    /\ local' = [local EXCEPT ![q].stored = (Pending(q) # {})]
    /\ Goto(q, "imported")
    /\ UNCHANGED offered

\* The unique key, or the database, ends the attempt before it is complete (what
\* fails while records are sorted might as well fail when they are stored) ...
ImportFails(q) ==
    /\ pc[q] \in {"checking", "storing"}
    /\ Goto(q, "failing")
    /\ UNCHANGED <<offered, home, sessions, local>>

\* ... and _record_failure keeps the session as evidence, if it can: a failed
\* commit finds the session COMPLETED, which cannot become FAILED, and the
\* process may have ended.
RecordFailure(q) ==
    /\ pc[q] = "failing"
    /\ sessions' \in {sessions, [sessions EXCEPT ![q] = Row(q, "failed")]}
    /\ Answer(q)
    /\ UNCHANGED <<offered, home>>
=============================================================================
