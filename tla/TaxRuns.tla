------------------------------ MODULE TaxRuns ------------------------------
(***************************************************************************)
(* api/tax.py: the calculation runs of one tax year and the decisions on   *)
(* the review cases they raise, with the tables tax_calculation_runs,      *)
(* tax_review_cases and tax_review_decisions.                              *)
(*                                                                         *)
(* Handlers run in threads of their own and read with one query after      *)
(* another; each query sees what is committed by then, and everything a    *)
(* request writes is committed at its end.  One action is one query or one *)
(* commit.  What a run computes is in module Fifo; here it is known by its *)
(* snapshot and its rules.  A year is independent of the others except for *)
(* the evidence they share, so one year is modelled.                       *)
(***************************************************************************)
EXTENDS Integers

CONSTANTS
    Calculations,   \* the POST /api/tax-calculations calls, for one year
    Reviewers,      \* the POST /api/tax-review-decisions calls, single or bulk
    Objects,        \* the year's staking rewards, each with a platform fee
    Rules,          \* rules fingerprints: the rule versions a client may name
    MaxValuations,  \* bound: valuation decisions per object
    None

ASSUME TaxAssumption ==
    /\ MaxValuations \in Nat
    /\ None \notin Calculations \cup Reviewers

VARIABLES
    valuation,   \* version of each object's newest valuation decision, 0: none
    unresolved,  \* the objects whose newest decision is not RESOLVED
    runs,        \* tax_calculation_runs: the row each calculation inserted
    cases,       \* tax_review_cases: open decisions a run has pointed out
    decisions,   \* tax_review_decisions
    clock,       \* started_at: instants at which a run was started
    pc,          \* where each calculation is
    rpc,         \* where each reviewer's request is
    calc,        \* what each calculation remembers
    answer,      \* the run its response names
    review       \* what each reviewer remembers

vars == <<valuation, unresolved, runs, cases, decisions, clock, pc, calc, answer, rpc, review>>

\* Part of a snapshot: the valuation an object enters with and the effective
\* decision on it, by version; 0 stands for one that is missing.
Evidence == [valuation : Nat, review : Nat]
Snapshot == [Objects -> Evidence]

Run == [status : {"none", "current", "superseded"}, snapshot : Snapshot,
        rules : Rules \cup {None}, startedAt : Nat, supersedes : Calculations \cup {None}]

Case == [run : Calculations, object : Objects, valuation : Nat]

\* A row's id is who wrote it and for which valuation; supersedes_id is then
\* given by the writer of the preceding row.
Decision == [by : Reviewers, object : Objects, valuation : Nat, version : Nat,
             supersedes : Reviewers \cup {None}]

Calc == [rules : Rules \cup {None}, asked : Snapshot, snapshot : Snapshot,
         startedAt : Nat, previous : Calculations \cup {None}]
Review == [targets : SUBSET Case, drafts : SUBSET Decision]

Nothing == [o \in Objects |-> [valuation |-> 0, review |-> 0]]
NoRun == [status |-> "none", snapshot |-> Nothing, rules |-> None,
          startedAt |-> 0, supersedes |-> None]
NoCalc == [rules |-> None, asked |-> Nothing, snapshot |-> Nothing,
           startedAt |-> 0, previous |-> None]
NoReview == [targets |-> {}, drafts |-> {}]

CalcSteps == {"idle", "reviews", "finding", "choosing", "committing", "done"}
ReviewSteps == {"idle", "effective", "committing", "done"}

TypeOK ==
    /\ valuation \in [Objects -> Nat]
    /\ unresolved \subseteq Objects
    /\ runs \in [Calculations -> Run]
    /\ cases \subseteq Case
    /\ decisions \subseteq Decision
    /\ clock \in Nat
    /\ pc \in [Calculations -> CalcSteps]
    /\ rpc \in [Reviewers -> ReviewSteps]
    /\ calc \in [Calculations -> Calc]
    /\ answer \in [Calculations -> Calculations \cup {None}]
    /\ review \in [Reviewers -> Review]

Init ==
    /\ valuation \in [Objects -> {0, 1}]
    /\ unresolved = {}
    /\ runs = [c \in Calculations |-> NoRun]
    /\ cases = {} /\ decisions = {}
    /\ clock = 0
    /\ pc = [c \in Calculations |-> "idle"]
    /\ rpc = [r \in Reviewers |-> "idle"]
    /\ calc = [c \in Calculations |-> NoCalc]
    /\ answer = [c \in Calculations |-> None]
    /\ review = [r \in Reviewers |-> NoReview]

-----------------------------------------------------------------------------
(* Review decisions and which of them is effective.                        *)

Of(o, v) == {d \in decisions : d.object = o /\ d.valuation = v}

\* What effective_tax_review_decisions insists on: versions without gap or
\* repetition, each superseding the one before it.
ConsistentHistory ==
    \A d \in decisions :
        /\ \A e \in Of(d.object, d.valuation) : e.version = d.version => e = d
        /\ IF d.version = 1 THEN d.supersedes = None
           ELSE \E e \in Of(d.object, d.valuation) :
                    e.version = d.version - 1 /\ e.by = d.supersedes

\* The decision with the highest version, if there is one.
Latest(o, v) == {d \in Of(o, v) : \A e \in Of(o, v) : e.version <= d.version}

EffectiveVersion(o, v) ==
    IF Of(o, v) = {} THEN 0 ELSE (CHOOSE d \in Latest(o, v) : TRUE).version

\* _latest_decisions: the newest decision of an object, if it is resolved.
Valued(o) == IF o \in unresolved THEN 0 ELSE valuation[o]

CurrentEvidence ==
    [o \in Objects |-> [valuation |-> Valued(o), review |-> EffectiveVersion(o, Valued(o))]]

-----------------------------------------------------------------------------
(* Other parts of the program: an object is valued, or valued again.       *)

Revalue(o) ==
    /\ valuation[o] < MaxValuations
    /\ valuation' = [valuation EXCEPT ![o] = @ + 1]
    /\ unresolved' \in {unresolved \ {o}, unresolved \cup {o}}
    /\ UNCHANGED <<runs, cases, decisions, clock, pc, calc, answer, rpc, review>>

-----------------------------------------------------------------------------
(* A calculation.                                                          *)

CalcTo(c, step) == pc' = [pc EXCEPT ![c] = step]

\* The response, with the run it names, or an error.
Respond(c, run) ==
    /\ CalcTo(c, "done")
    /\ answer' = [answer EXCEPT ![c] = run]
    /\ calc' = [calc EXCEPT ![c] = IF run = None THEN NoCalc
                                   ELSE [@ EXCEPT !.startedAt = 0, !.previous = None]]

\* tax_inputs, first query: the resolved valuation decisions.  "asked" keeps
\* what was decided when the request came.
ReadValuations(c, rules) ==
    /\ pc[c] = "idle"
    /\ calc' = [calc EXCEPT
           ![c].rules = rules,
           ![c].asked = CurrentEvidence,
           ![c].snapshot = [o \in Objects |-> [valuation |-> Valued(o), review |-> 0]]]
    /\ CalcTo(c, "reviews")
    /\ UNCHANGED <<valuation, unresolved, runs, cases, decisions, clock, answer, rpc, review>>

\* tax_inputs, second query: the effective decisions on these valuations; an
\* inconsistent history is answered with an error.
ReadReviews(c) ==
    /\ pc[c] = "reviews"
    /\ IF ConsistentHistory
       THEN /\ calc' = [calc EXCEPT ![c].snapshot = [o \in Objects |->
                   LET v == calc[c].snapshot[o].valuation
                   IN  [valuation |-> v, review |-> EffectiveVersion(o, v)]]]
            /\ CalcTo(c, "finding")
            /\ UNCHANGED answer
       ELSE Respond(c, None)
    /\ UNCHANGED <<valuation, unresolved, runs, cases, decisions, clock, rpc, review>>

Current == {r \in Calculations : runs[r].status = "current"}

\* MUTANT of Identical: the snapshot is not compared.
SameRules(r, c) == runs[r].rules = calc[c].rules

\* A run of the same year with the same snapshot and the same rules.
Identical(r, c) ==
    runs[r].snapshot = calc[c].snapshot /\ runs[r].rules = calc[c].rules

\* A current run with the identity of this request is the answer.
FindIdentical(c) ==
    /\ pc[c] = "finding"
    /\ \/ \E r \in Current : Identical(r, c) /\ Respond(c, r)
       \/ /\ \A r \in Current : ~Identical(r, c)
          /\ CalcTo(c, "choosing")
          /\ UNCHANGED <<calc, answer>>
    /\ UNCHANGED <<valuation, unresolved, runs, cases, decisions, clock, rpc, review>>

\* _latest_run's order; no two runs start at the same instant.
LatestOf(S) == {r \in S : \A q \in S : runs[q].startedAt <= runs[r].startedAt}

\* MUTANT of ChoosePrevious: the predecessor is superseded at once.
SupersedePrevious(c) ==
    /\ pc[c] = "choosing"
    /\ \/ \E p \in LatestOf(Current) :
              /\ calc' = [calc EXCEPT ![c].previous = p, ![c].startedAt = clock]
              /\ runs' = [runs EXCEPT ![p].status = "superseded"]
       \/ /\ Current = {}
          /\ calc' = [calc EXCEPT ![c].startedAt = clock]
          /\ UNCHANGED runs
    /\ clock' = clock + 1
    /\ CalcTo(c, "committing")
    /\ UNCHANGED <<valuation, unresolved, cases, decisions, answer, rpc, review>>

\* The run to supersede, and the instant at which this one starts.
ChoosePrevious(c) ==
    /\ pc[c] = "choosing"
    /\ \/ \E p \in LatestOf(Current) :
              calc' = [calc EXCEPT ![c].previous = p, ![c].startedAt = clock]
       \/ /\ Current = {}
          /\ calc' = [calc EXCEPT ![c].startedAt = clock]
    /\ clock' = clock + 1
    /\ CalcTo(c, "committing")
    /\ UNCHANGED <<valuation, unresolved, runs, cases, decisions, answer, rpc, review>>

\* Rows of the table, whatever their status.
Inserted == {r \in Calculations : runs[r].status # "none"}

\* Review cases for the rewards whose platform fee nobody has decided on.
OpenCases(c) ==
    {[run |-> c, object |-> o, valuation |-> calc[c].snapshot[o].valuation] :
        o \in {x \in Objects : /\ calc[c].snapshot[x].valuation > 0
                               /\ calc[c].snapshot[x].review = 0}}

NewRun(c) == [status |-> "current", snapshot |-> calc[c].snapshot, rules |-> calc[c].rules,
              startedAt |-> calc[c].startedAt, supersedes |-> calc[c].previous]

\* MUTANT of Superseded: the predecessor keeps its status.
StillCurrent(row) == row

Superseded(row) == [row EXCEPT !.status = "superseded"]

\* uq_tax_run_identity
IdentityTaken(c) == \E r \in Inserted : Identical(r, c)

\* The run, its cases and the status of its predecessor in one transaction.
CommitRun(c) ==
    /\ pc[c] = "committing"
    /\ ~IdentityTaken(c)
    /\ runs' = [r \in Calculations |->
           IF r = c THEN NewRun(c)
           ELSE IF r = calc[c].previous THEN Superseded(runs[r])
           ELSE runs[r]]
    /\ cases' = cases \cup OpenCases(c)
    /\ Respond(c, c)
    /\ UNCHANGED <<valuation, unresolved, decisions, clock, rpc, review>>

\* The unique constraint refuses the row: an internal error, nothing is kept.
RunRefused(c) ==
    /\ pc[c] = "committing"
    /\ IdentityTaken(c)
    /\ Respond(c, None)
    /\ UNCHANGED <<valuation, unresolved, runs, cases, decisions, clock, rpc, review>>

\* Any other exception, or the end of the process, before the commit.
CalculationFails(c) ==
    /\ pc[c] \notin {"idle", "done"}
    /\ Respond(c, None)
    /\ UNCHANGED <<valuation, unresolved, runs, cases, decisions, clock, rpc, review>>

-----------------------------------------------------------------------------
(* Decisions of a reviewer on one case or on several at once.              *)

ReviewTo(r, step) == rpc' = [rpc EXCEPT ![r] = step]

ReviewEnds(r) ==
    /\ ReviewTo(r, "done")
    /\ review' = [review EXCEPT ![r] = NoReview]

Decidable(targets) ==
    /\ \A t \in targets : Valued(t.object) = t.valuation
    /\ \A t, u \in targets : t.object = u.object => t = u

\* All cases must belong to current valuations, and to different ones.
ValidateCases(r, targets) ==
    /\ rpc[r] = "idle"
    /\ IF Decidable(targets)
       THEN /\ review' = [review EXCEPT ![r].targets = targets]
            /\ ReviewTo(r, "effective")
       ELSE ReviewEnds(r)
    /\ UNCHANGED <<valuation, unresolved, runs, cases, decisions, clock, pc, calc, answer>>

Draft(r, t) ==
    [by |-> r, object |-> t.object, valuation |-> t.valuation,
     version |-> EffectiveVersion(t.object, t.valuation) + 1,
     supersedes |-> IF Of(t.object, t.valuation) = {} THEN None
                    ELSE (CHOOSE d \in Latest(t.object, t.valuation) : TRUE).by]

\* The next version of each decision, from the effective one.
ReadEffective(r) ==
    /\ rpc[r] = "effective"
    /\ IF ConsistentHistory
       THEN /\ review' = [review EXCEPT ![r].drafts = {Draft(r, t) : t \in review[r].targets}]
            /\ ReviewTo(r, "committing")
       ELSE ReviewEnds(r)
    /\ UNCHANGED <<valuation, unresolved, runs, cases, decisions, clock, pc, calc, answer>>

\* MUTANT of VersionTaken: without uq_tax_review_decision_version.
NeverTaken(d) == FALSE

\* uq_tax_review_decision_version
VersionTaken(d) == \E e \in Of(d.object, d.valuation) : e.version = d.version

\* All decisions of the request or none.
CommitDecisions(r) ==
    /\ rpc[r] = "committing"
    /\ \A d \in review[r].drafts : ~VersionTaken(d)
    /\ decisions' = decisions \cup review[r].drafts
    /\ ReviewEnds(r)
    /\ UNCHANGED <<valuation, unresolved, runs, cases, clock, pc, calc, answer>>

\* The unique constraint refuses one of them.
DecisionsRefused(r) ==
    /\ rpc[r] = "committing"
    /\ \E d \in review[r].drafts : VersionTaken(d)
    /\ ReviewEnds(r)
    /\ UNCHANGED <<valuation, unresolved, runs, cases, decisions, clock, pc, calc, answer>>

\* Any other exception, or the end of the process, before the commit.
ReviewFails(r) ==
    /\ rpc[r] \in {"effective", "committing"}
    /\ ReviewEnds(r)
    /\ UNCHANGED <<valuation, unresolved, runs, cases, decisions, clock, pc, calc, answer>>

-----------------------------------------------------------------------------
Calculate(c) ==
    \/ \E rules \in Rules : ReadValuations(c, rules)
    \/ ReadReviews(c) \/ FindIdentical(c) \/ ChoosePrevious(c)
    \/ CommitRun(c) \/ RunRefused(c) \/ CalculationFails(c)

Decide(r) ==
    \/ \E targets \in SUBSET cases \ {{}} : ValidateCases(r, targets)
    \/ ReadEffective(r) \/ CommitDecisions(r) \/ DecisionsRefused(r) \/ ReviewFails(r)

Next ==
    \/ \E o \in Objects : Revalue(o)
    \/ \E c \in Calculations : Calculate(c)
    \/ \E r \in Reviewers : Decide(r)

Spec == Init /\ [][Next]_vars

-----------------------------------------------------------------------------
\* However reviewers race for the same cases, the history of every valuation
\* stays one chain: effective_tax_review_decisions never rejects it, so neither
\* a calculation nor a review is locked out by "history inconsistent".
ReviewHistoryIsAChain ==
    /\ ConsistentHistory
    /\ \A c \in Calculations : calc[c].rules # None =>
           \A o \in Objects : calc[c].snapshot[o].review <=
                EffectiveVersion(o, calc[c].snapshot[o].valuation)

\* A run is superseded exactly if another run names it as its predecessor, and
\* that run started later.
SupersededBySuccessor ==
    /\ \A p \in Calculations :
           runs[p].status = "superseded" <=> \E s \in Inserted : runs[s].supersedes = p
    /\ \A s \in Inserted : runs[s].supersedes # None =>
           runs[runs[s].supersedes].startedAt < runs[s].startedAt

\* Whatever runs supersede each other meanwhile, a year that was calculated
\* once always has a current run to report from.
CurrentRunExists == Inserted # {} => Current # {}

\* The run that answers a request rests on the valuations of the moment it came
\* and on every review decision committed by then, although the inputs are read
\* one after the other and the answer may be the run of another request.
AnswerReflectsDecisions ==
    \A c \in Calculations : answer[c] # None =>
        \A o \in Objects :
            /\ runs[answer[c]].snapshot[o].valuation = calc[c].asked[o].valuation
            /\ runs[answer[c]].snapshot[o].review >= calc[c].asked[o].review

\* docs/fifo.md:59-60, the idempotence key: a request whose identity belongs to
\* a run of the table is not taken for a new one.
RepeatFindsItsRun ==
    [][\A c \in Calculations :
          pc[c] = "finding" /\ (\E r \in Inserted : Identical(r, c))
              => pc'[c] # "choosing"]_vars
=============================================================================
