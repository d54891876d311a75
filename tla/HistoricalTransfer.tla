------------------------- MODULE HistoricalTransfer -------------------------
(***************************************************************************)
(* services/historical_transfer.py, HistoricalTransferService.resolve: a   *)
(* transfer into Kraken is linked to the external records it came from,    *)
(* and what these document is projected: lots, fees, the valuations both   *)
(* need, and an issue wherever the cost basis has a gap.                   *)
(*                                                                         *)
(* A call is one transaction.  It looks up its link, then what is projected *)
(* already, and commits; calls overlap, and only unique keys keep them     *)
(* apart.  The session does not flush before it reads, so that a call does *)
(* not find what it has itself added.  A call that stops halfway leaves    *)
(* nothing behind: it then just takes no further step.                     *)
(***************************************************************************)
EXTENDS Integers, FiniteSets, FiniteSetsExt

CONSTANTS
    Resolvers,     \* the calls of resolve
    Transfers,     \* what the calls of a situation ask for
    Row,           \* the imported external records
    Situations,    \* what is stored at first, and which calls come
    None

ASSUME RowAssumption ==
    /\ DOMAIN Row \subseteq Nat
    /\ \A r \in DOMAIN Row : /\ Row[r].kind \in {"acquisition", "fee", "other"}
                             /\ Row[r].quantity \in Nat /\ Row[r].fee \in Nat
                             /\ {Row[r].complete, Row[r].cost} \subseteq BOOLEAN

\* A transfer names finitely many records, and its quantities are not negative.
TransferAsk == UNION {Transfers[s.transfers] : s \in Situations}
ASSUME TransferAssumption ==
    \A x \in TransferAsk : /\ x.sources \subseteq DOMAIN Row /\ IsFiniteSet(x.sources)
                           /\ {x.source, x.quantity, x.fee} \subseteq Nat

VARIABLES
    situation,     \* the member of Situations this is
    clock,         \* how many transformation runs have begun: a run's started_at
    issues,        \* transformation_issues
    links,         \* historical_transfer_links
    transfers,     \* historical_transfer_resolutions
    lots,          \* acquisition_lots, by their stable key
    fees,          \* fee_events, by their stable key
    requirements,  \* valuation_requirements of both
    resolving      \* each call of resolve

projected == <<lots, fees, requirements>>
transferVars == <<links, transfers, lots, fees, requirements, resolving>>

Issue(run, raw, code) == [run |-> run, raw |-> raw, code |-> code]
Gap == "historical_cost_basis_gap"

\* An issue of an earlier release for each record the situation names; that release
\* also stored fees without a valuation requirement.
TransferInit ==
    /\ situation \in Situations
    /\ clock = 1
    /\ issues = {Issue(1, p[1], p[2]) : p \in situation.reviewed}
    /\ links = {} /\ transfers = {} /\ lots = {} /\ requirements = {}
    /\ fees = situation.fees
    /\ resolving = [c \in Resolvers |->
                      [step |-> IF c \in situation.calls THEN "idle" ELSE "done",
                       ask |-> None, started |-> 0, known |-> FALSE,
                       lots |-> {}, fees |-> {}, requirements |-> {}, gaps |-> {}]]

-----------------------------------------------------------------------------
(* What a transfer is identified by, and what its records document.        *)

\* Coverage and explanation are no part of it.
Identity(x) ==
    [sources |-> x.sources, target |-> x.target, exact |-> x.exact, source |-> x.source,
     quantity |-> x.quantity, own |-> x.own, fee |-> x.fee, feeFrom |-> x.feeFrom]

\* What is settled about a link; since is how many runs had begun by then.
Settlement(x, since) ==
    [link |-> Identity(x), coverage |-> x.coverage, text |-> x.text, since |-> since]

SettledAs(x) == {t \in transfers : /\ t.link = Identity(x)
                                  /\ t.coverage = x.coverage /\ t.text = x.text}

Acquired(x) == {r \in x.sources : Row[r].kind = "acquisition"}
Documented(x) == {r \in Acquired(x) : Row[r].complete /\ Row[r].quantity > 0}
DocumentedQuantity(x) == MapThenSumSet(LAMBDA r : Row[r].quantity, Documented(x))

\* Where a gap of the whole transfer is noted: at the target, else at a source.
GapRecord(x) == IF x.target # None THEN x.target ELSE Min(x.sources)

Gaps(x) ==
    (Acquired(x) \ Documented(x))
      \cup (IF DocumentedQuantity(x) \in 1 .. x.source - 1 THEN {GapRecord(x)} ELSE {})

\* The records whose own fee is projected, and the record of the transfer's fee.
OwnFees(x) ==
    {r \in x.sources : /\ Row[r].fee > 0 /\ Row[r].complete
                       /\ Row[r].kind = "fee" \/ r \in Documented(x)}
TransferFee(x) == IF x.fee > 0 THEN {x.feeFrom} \ {None} ELSE {}
FeesOf(x) == OwnFees(x) \cup TransferFee(x)

\* What needs a value in EUR.
Lot(r) == <<"lot", r>>
Fee(r) == <<"fee", r>>
\* MUTANT of Valued: a fee found stored is taken to have its requirement.
ValuedIfNew(new, x) ==
    {Lot(r) : r \in {n \in new : ~Row[n].cost}} \cup {Fee(r) : r \in FeesOf(x) \ fees}

Valued(new, x) ==
    {Lot(r) : r \in {n \in new : ~Row[n].cost}}
      \cup {Fee(r) : r \in {f \in FeesOf(x) : Fee(f) \notin requirements}}

-----------------------------------------------------------------------------
(* A call.                                                                 *)

\* More documented at the target than at the source is refused.
FindLink(c) ==
    /\ resolving[c].step = "idle"
    /\ clock' = clock + 1
    /\ \E x \in Transfers[situation.transfers] :
          resolving' = [resolving EXCEPT ![c] =
              [@ EXCEPT !.step = IF x.source < x.quantity THEN "done" ELSE "linked",
                        !.ask = x, !.started = clock + 1,
                        !.known = Identity(x) \in links]]
    /\ UNCHANGED <<situation, issues, links, transfers, projected>>

\* A settlement that is known already is answered as it is.
FindSettlement(c) ==
    /\ resolving[c].step = "linked"
    /\ SettledAs(resolving[c].ask) # {}
    /\ resolving' = [resolving EXCEPT ![c].step = "done"]
    /\ UNCHANGED <<situation, clock, issues, links, transfers, projected>>

Project(c) ==
    /\ resolving[c].step = "linked"
    /\ SettledAs(resolving[c].ask) = {}
    /\ \E x \in {resolving[c].ask} : \E new \in {Documented(x) \ lots} :
          resolving' = [resolving EXCEPT ![c] =
              [@ EXCEPT !.step = "projected",
                        !.lots = new, !.fees = FeesOf(x) \ fees,
                        !.requirements = Valued(new, x), !.gaps = Gaps(x)]]
    /\ UNCHANGED <<situation, clock, issues, links, transfers, projected>>

\* A fee that is both a record's own and the transfer's is added twice, or, if it had
\* been stored before, its requirement is.
AddedTwice(call) ==
    {r \in OwnFees(call.ask) \cap TransferFee(call.ask) : Fee(r) \in call.requirements}

\* The unique keys of links, settlements (one for each link) and projections.
KeysFree(call) ==
    /\ call.known \/ Identity(call.ask) \notin links
    /\ \A t \in transfers : t.link # Identity(call.ask)
    /\ call.lots \cap lots = {} /\ call.fees \cap fees = {}
    /\ call.requirements \cap requirements = {}
    /\ AddedTwice(call) = {}

CommitTransfer(c) ==
    /\ resolving[c].step = "projected"
    /\ KeysFree(resolving[c])
    /\ \E call \in {resolving[c]} :
          /\ links' = links \cup {Identity(call.ask)}
          /\ transfers' = transfers \cup {Settlement(call.ask, clock)}
          /\ lots' = lots \cup call.lots
          /\ fees' = fees \cup call.fees
          /\ requirements' = requirements \cup call.requirements
          /\ issues' = issues \cup {Issue(call.started, raw, Gap) : raw \in call.gaps}
    /\ resolving' = [resolving EXCEPT ![c].step = "done"]
    /\ UNCHANGED <<situation, clock>>

\* All of the call is rolled back.
RollBackTransfer(c) ==
    /\ resolving[c].step = "projected"
    /\ ~KeysFree(resolving[c])
    /\ resolving' = [resolving EXCEPT ![c].step = "done"]
    /\ UNCHANGED <<situation, clock, issues, links, transfers, projected>>

TransferNext ==
    \E c \in Resolvers : \/ FindLink(c) \/ FindSettlement(c) \/ Project(c)
                         \/ CommitTransfer(c) \/ RollBackTransfer(c)

-----------------------------------------------------------------------------
(* Properties.                                                             *)

\* docs/DEVELOPMENT_STATE.md: a fee of a record or of the transfer itself, found
\* stored or new, "receives exactly one" valuation requirement.
FeesValued ==
    \A t \in transfers : \A r \in FeesOf(t.link) : r \in fees /\ Fee(r) \in requirements
=============================================================================
