----------------------------- MODULE ReviewList -----------------------------
(***************************************************************************)
(* core/transformation.py, active_transformation_issues: which of the      *)
(* issues that transformation runs and historical transfers have written   *)
(* are still to be reviewed.  Issues and decisions are history, written    *)
(* once by each run; the list is computed from them on every read.         *)
(*                                                                         *)
(* A transformation run reads the transfers at its start and commits its   *)
(* decisions later, so that runs may commit in another order than they     *)
(* began.  Of a run, over all imports, this keeps what it decides about    *)
(* deposits, withdrawals and transfers that have no counterpart;           *)
(* KrakenTransformation models the rest.                                   *)
(***************************************************************************)
EXTENDS HistoricalTransfer

CONSTANTS
    Ledger,        \* the Kraken ledger records, by their ids
    Runs,          \* the transformation runs
    Fiat           \* FIAT_ASSETS

ASSUME LedgerAssumption ==
    /\ DOMAIN Ledger \cap DOMAIN Row = {}
    /\ \A r \in DOMAIN Ledger : /\ Ledger[r].type \in {"deposit", "withdrawal", "transfer"}
                               /\ Ledger[r].amount \in Int /\ Ledger[r].fee \in Int

\* Whatever is referred to is an imported record, and every issue has a code.
Records == DOMAIN Ledger \cup DOMAIN Row
Codes == {"deposit", "withdrawal", "transfer", Gap}
ASSUME StoredAssumption ==
    /\ None \notin Records /\ None \notin Codes
    /\ \A x \in TransferAsk : {x.target, x.feeFrom} \subseteq Records \cup {None}
    /\ \A s \in Situations : s.fees \subseteq Records /\ s.reviewed \subseteq Records \X Codes

VARIABLES
    decisions,     \* transformation_decisions
    runs           \* each transformation run

listVars == <<decisions, runs>>
history == <<issues, clock, situation>>

\* Stands for ledger_<type>_requires_review.
ReviewCode(r) == Ledger[r].type

\* What a run says of a record; the code is None unless it is to be reviewed.
Decision(run, raw, code) == [run |-> run, raw |-> raw, code |-> code]

ListInit ==
    /\ TransferInit
    /\ decisions = {Decision(1, p[1], p[2]) : p \in situation.reviewed}
    /\ runs = [t \in Runs |-> [step |-> IF t \in situation.calls THEN "idle" ELSE "done",
                               started |-> 0, settled |-> {}]]

-----------------------------------------------------------------------------
(* The active issues.                                                      *)

Representative(i) ==
    \A j \in issues : j.raw = i.raw /\ j.code = i.code => j.run <= i.run

DecisionsOn(raw) == {d \in decisions : d.raw = raw}
Latest(raw) == {d \in DecisionsOn(raw) : \A e \in DecisionsOn(raw) : e.run <= d.run}

\* MUTANT of Upheld: by any decision.
UpheldOnce(i) == \E d \in DecisionsOn(i.raw) : d.code = i.code

Upheld(i) == \E d \in Latest(i.raw) : d.code = i.code

\* MUTANT of ActiveIssues: later decisions end issues about the cost basis as well.
IssuesUpheld ==
    {i \in issues : Representative(i) /\ (DecisionsOn(i.raw) = {} \/ Upheld(i))}

\* Issues about the cost basis outlast any decision on the record.
ActiveIssues ==
    {i \in issues : /\ Representative(i)
                    /\ i.code = Gap \/ DecisionsOn(i.raw) = {} \/ Upheld(i)}

-----------------------------------------------------------------------------
(* A transformation run.                                                   *)

\* Links whose target is exactly the deposit that was imported.
LinksTo(raw) ==
    {l \in links : l.target = raw /\ l.exact /\ Ledger[raw].type = "deposit"}

\* If there are several, the query returns them in any order, and the last counts.
Counted == {r \in DOMAIN Ledger : LinksTo(r) # {}}
SettlesDeposit(l) ==
    l.own /\ \E t \in transfers : t.link = l /\ t.coverage \in {"complete", "partial"}

BeginRun(t) ==
    /\ runs[t].step = "idle"
    /\ clock' = clock + 1
    /\ \E last \in [Counted -> links] :
          /\ \A r \in Counted : last[r] \in LinksTo(r)
          /\ runs' = [runs EXCEPT ![t] =
                [step |-> "begun", started |-> clock + 1,
                 settled |-> {r \in Counted : SettlesDeposit(last[r])}]]
    /\ UNCHANGED <<situation, issues, transferVars, decisions>>

\* Fiat that moves in or out is no event of its own.
Funding(r) ==
    /\ Ledger[r].asset \in Fiat /\ Ledger[r].fee >= 0
    /\ \/ Ledger[r].type = "deposit" /\ Ledger[r].amount > 0
       \/ Ledger[r].type = "withdrawal" /\ Ledger[r].amount < 0

Reviewed(settled) == {r \in DOMAIN Ledger : r \notin settled /\ ~Funding(r)}

CommitRun(t) ==
    /\ runs[t].step = "begun"
    /\ \E started \in {runs[t].started} : \E reviewed \in {Reviewed(runs[t].settled)} :
          /\ decisions' = decisions \cup
                {Decision(started, r, IF r \in reviewed THEN ReviewCode(r) ELSE None) :
                    r \in DOMAIN Ledger}
          /\ issues' = issues \cup {Issue(started, r, ReviewCode(r)) : r \in reviewed}
    /\ runs' = [runs EXCEPT ![t].step = "done"]
    /\ UNCHANGED <<situation, clock, transferVars>>

ListNext == \E t \in Runs : BeginRun(t) \/ CommitRun(t)

-----------------------------------------------------------------------------
(* Properties.                                                             *)

\* Whether all that is linked to a deposit settles it.
Settled(raw) == LinksTo(raw) # {} /\ \A l \in LinksTo(raw) : SettlesDeposit(l)

SettledSince(raw) == Max({t.since : t \in {u \in transfers : u.link \in LinksTo(raw)}})

\* Once a run that began after a deposit was settled has committed, the deposit is
\* not to be reviewed: not because of its old issues, and not because of a run that
\* began earlier and commits only now.
SettledDepositNotReviewed ==
    \A raw \in {r \in DOMAIN Ledger : Settled(r)} :
        (\E d \in DecisionsOn(raw) : d.run > SettledSince(raw)) =>
            \A i \in ActiveIssues : i.raw = raw => i.code = Gap

\* "No zero-cost lot", and no basis taken for granted: what the acquisitions behind a
\* transfer do not cover stays on the list of reviews, whatever later runs decide on
\* the deposit.
BasisCoveredOrListed ==
    \A t \in transfers :
        \/ Acquired(t.link) = {}
        \/ /\ Acquired(t.link) \subseteq lots
           /\ MapThenSumSet(LAMBDA r : Row[r].quantity, Acquired(t.link)) >= t.link.source
        \/ \E i \in ActiveIssues : /\ i.code = Gap
                                   /\ i.raw \in t.link.sources \cup {GapRecord(t.link)}
=============================================================================
