------------------------ MODULE KrakenTransformation ------------------------
(***************************************************************************)
(* adapters/kraken/transformation.py: what one transformation run decides  *)
(* about raw records and which facts it books.  A run visits every         *)
(* selected record; records of context sessions only help to recognise     *)
(* exchanges, pairs and trades that spread over several sessions.          *)
(*                                                                         *)
(* Raw[r] is what the raw record r says.  A ledger entry has the fields    *)
(* key, source, type, subtype, api, ref, asset, amount, fee and at; a      *)
(* trade has key, source, base, quote, side, volume, cost, consistent,     *)
(* fee, ledgers and at.  Amounts and times are integers.                   *)
(***************************************************************************)
EXTENDS Integers, FiniteSets

CONSTANTS
    Raw,                \* raw record -> its external id and its fields
    Canonical,          \* raw asset code -> canonical code, or Absent if unknown
    Variant,            \* raw asset code -> product variant, or Absent
    Fiat,               \* FIAT_ASSETS
    QuoteTolerance,     \* MAX_QUOTE_ROUNDING_TOLERANCE
    FallbackDistance,   \* MAX_FALLBACK_TIME_DISTANCE
    MigrationWindow,    \* the times of the Shapella migration
    MigrationDistance,  \* ETH2_SHAPELLA_MIGRATION_MAX_DISTANCE
    SelfTransfers,      \* deposits with a resolved historical self transfer
    Absent              \* what a record or an asset does not have

IsLedger(r) == Raw[r].source = "kraken-ledgers"
IsTrade(r)  == Raw[r].source = "kraken-trades"
Code(r)     == Canonical[Raw[r].asset]
IsFiat(r)   == Code(r) \in Fiat

InternalSubtypes == {"allocation", "autoallocate", "deallocation", "migration",
    "spottostaking", "stakingfromspot", "stakingtospot", "spotfromstaking"}

ReviewedTypes == {"adjustment", "credit", "deposit", "dividend", "margin",
    "nft_rebate", "rollover", "sale", "settled", "trade", "transfer", "withdrawal"}

Near(m, n, distance) == m - n <= distance /\ n - m <= distance

-----------------------------------------------------------------------------
(* Facts.  The stable key of a fact is the record it stems from with the   *)
(* fact's role, its payload hash stands for the records it rests on.       *)

Fact(role, r, basis, code, quantity) ==
    [role |-> role, of |-> Raw[r].key, basis |-> basis, asset |-> code, quantity |-> quantity]

SameKey(f, g) == f.of = g.of /\ f.role = g.role
\* MUTANT of Existing: the stable key holds the run, so nothing is ever found.
ExistingInRun(f, facts) == {}

Existing(f, facts) == {g \in facts : SameKey(f, g)}

\* _persist_projection: a known key is reused or, with other evidence, a conflict.
Persisted(f, facts) ==
    IF Existing(f, facts) = {} THEN "created"
    ELSE IF \E g \in Existing(f, facts) : g.basis = f.basis THEN "reused"
    ELSE "conflict"

New(wanted, facts) == {f \in wanted : Persisted(f, facts) = "created"}

\* A decision about a record, on account of a fact or of the record itself.
Decision(r, verdict, about) == [record |-> r, verdict |-> verdict, about |-> about]

\* What a run does because it visits a record.
Effect(decisions, facts) == [decisions |-> decisions, facts |-> facts]
Only(r, verdict) == Effect({Decision(r, verdict, "record")}, {})

-----------------------------------------------------------------------------
(* Instant exchanges: a spend and a receive with one reference.            *)

LedgerGroup(r, all) ==
    IF IsLedger(r) /\ Raw[r].type \in {"spend", "receive"} /\ Raw[r].ref # Absent
    THEN {x \in all : IsLedger(x) /\ Raw[x].type \in {"spend", "receive"} /\ Raw[x].ref = Raw[r].ref}
    ELSE {}

IsPair(group) ==
    /\ Cardinality(group) = 2
    /\ {Raw[x].type : x \in group} = {"spend", "receive"}

SpendOf(group)   == CHOOSE x \in group : Raw[x].type = "spend"
ReceiveOf(group) == CHOOSE x \in group : Raw[x].type = "receive"

ValidExchange(spend, receive) ==
    /\ Raw[spend].amount < 0 /\ Raw[receive].amount > 0
    /\ Raw[spend].fee >= 0 /\ Raw[receive].fee >= 0
    /\ Code(spend) # Absent /\ Code(receive) # Absent
    /\ ~(IsFiat(spend) /\ IsFiat(receive))

ExchangeAcquisition(spend, receive) ==
    IF IsFiat(receive) THEN {}
    ELSE {Fact("ledger-acquisition", receive, {spend, receive}, Code(receive), Raw[receive].amount)}

ExchangeDisposal(spend, receive) ==
    IF IsFiat(spend) THEN {}
    ELSE {Fact("ledger-disposal", spend, {spend, receive}, Code(spend), -Raw[spend].amount)}

ExchangeFee(r, spend, receive) ==
    IF Raw[r].fee = 0 THEN {}
    ELSE {Fact("ledger-fee", r, {spend, receive}, Code(r), Raw[r].fee)}

ExchangeLegs(spend, receive) ==
    ExchangeAcquisition(spend, receive) \cup ExchangeDisposal(spend, receive)

ExchangeFees(spend, receive) ==
    ExchangeFee(spend, spend, receive) \cup ExchangeFee(receive, spend, receive)

\* MUTANT of ExchangeDecisions: the branch for a record without a fact is lost.
ExchangeDecisionsOfFacts(r, leg, fee, facts) ==
    {Decision(r, Persisted(f, facts), f.role) : f \in leg}
      \cup {Decision(r, Persisted(f, facts), f.role) :
                f \in {g \in fee : leg = {} \/ Persisted(g, facts) = "conflict"}}

\* The decision on one of the two: about its own leg, else about its fee, else
\* that it is linked.  A fee with other evidence is a conflict in any case.
ExchangeDecisions(r, leg, fee, facts) ==
    {Decision(r, Persisted(f, facts), f.role) : f \in leg}
      \cup {Decision(r, Persisted(f, facts), f.role) :
                f \in {g \in fee : leg = {} \/ Persisted(g, facts) = "conflict"}}
      \cup (IF leg \cup fee = {} THEN {Decision(r, "created", "record")} ELSE {})

\* MUTANT of LegConflict: each leg is left to _persist_projection.
NoLegConflict(spend, receive, seen) == FALSE

\* external_id_payload_conflict, by the facts that were seen before anything of the
\* exchange is booked.
LegConflict(spend, receive, seen) ==
    \E f \in ExchangeLegs(spend, receive) : Persisted(f, seen) = "conflict"

BookExchange(spend, receive, facts) ==
    Effect(ExchangeDecisions(spend, ExchangeDisposal(spend, receive),
                             ExchangeFee(spend, spend, receive), facts)
             \cup ExchangeDecisions(receive, ExchangeAcquisition(spend, receive),
                             ExchangeFee(receive, spend, receive), facts),
           New(ExchangeLegs(spend, receive) \cup ExchangeFees(spend, receive), facts))

\* MUTANT of VisitGroupMember: the spend is not passed over.
VisitEveryMember(r, group, seen, facts) ==
    LET spend == SpendOf(group) receive == ReceiveOf(group) IN
    IF ~IsPair(group) THEN Only(r, "conflict")
    ELSE IF ~ValidExchange(spend, receive) THEN Only(r, "review")
    ELSE IF LegConflict(spend, receive, seen) THEN Only(r, "conflict")
    ELSE IF r = receive THEN BookExchange(spend, receive, facts)
    ELSE Only(r, "linked")

\* Both records of an exchange are decided when the receive is visited.  What the
\* check of its payload has seen may be old when the exchange is booked.
VisitGroupMember(r, group, seen, facts) ==
    LET spend == SpendOf(group) receive == ReceiveOf(group) IN
    IF ~IsPair(group) THEN Only(r, "conflict")
    ELSE IF ~ValidExchange(spend, receive) THEN Only(r, "review")
    ELSE IF r # receive THEN Effect({}, {})
    ELSE IF LegConflict(spend, receive, seen) THEN Only(r, "conflict")
    ELSE BookExchange(spend, receive, facts)

\* A receive that comes to this check.
Exchanged(r, all) ==
    LET group == LedgerGroup(r, all) IN
    /\ IsPair(group) /\ ValidExchange(SpendOf(group), ReceiveOf(group))
    /\ r = ReceiveOf(group)

\* Of the facts, those that are found for the legs of its exchange.
FoundFor(r, all, facts) ==
    UNION {Existing(f, facts) : f \in ExchangeLegs(SpendOf(LedgerGroup(r, all)), r)}

-----------------------------------------------------------------------------
(* Movements between the user's own balances.                              *)

Autoallocations(r, all) ==
    {x \in all : /\ IsLedger(x) /\ Raw[x].type = "transfer" /\ Raw[x].subtype = "autoallocation"
                 /\ Raw[x].ref # Absent /\ Raw[x].ref = Raw[r].ref
                 /\ Code(x) # Absent /\ Code(x) = Code(r)}

BalancedPair(group) ==
    /\ Cardinality(group) = 2
    /\ {Variant[Raw[x].asset] : x \in group} = {Absent, "F"}
    /\ \A x, y \in group :
        /\ Raw[x].at = Raw[y].at
        /\ x # y => Raw[x].amount = -Raw[y].amount
        /\ Raw[x].amount # 0 /\ Raw[x].fee = 0

InternalAutoallocation(r, all) ==
    r \in Autoallocations(r, all) /\ BalancedPair(Autoallocations(r, all))

\* Kraken's API calls a reward what its CSV export calls staking.
LegacyStaking(r) ==
    \/ Raw[r].api = Absent /\ Raw[r].type = "staking" /\ Raw[r].subtype = Absent
    \/ Raw[r].api = "staking" /\ Raw[r].type = "earn" /\ Raw[r].subtype = "reward"

Magnitude(n) == IF n < 0 THEN -n ELSE n

MigrationCandidates(r, all) ==
    {x \in all : /\ IsLedger(x) /\ Raw[x].asset \in {"ETH2", "XETH"} /\ LegacyStaking(x)
                 /\ Magnitude(Raw[x].amount) = Magnitude(Raw[r].amount)}

MigrationPair(group) ==
    /\ Cardinality(group) = 2
    /\ \E eth2, xeth \in group :
        /\ Raw[eth2].asset = "ETH2" /\ Raw[xeth].asset = "XETH"
        /\ Raw[eth2].amount < 0 /\ Raw[xeth].amount > 0
        /\ Raw[eth2].fee = 0 /\ Raw[xeth].fee = 0
        /\ {Raw[eth2].at, Raw[xeth].at} \subseteq MigrationWindow
        /\ Near(Raw[eth2].at, Raw[xeth].at, MigrationDistance)

EthMigration(r, all) ==
    r \in MigrationCandidates(r, all) /\ MigrationPair(MigrationCandidates(r, all))

FiatFunding(r) ==
    /\ IsFiat(r) /\ Raw[r].fee >= 0
    /\ \/ Raw[r].type = "deposit" /\ Raw[r].amount > 0
       \/ Raw[r].type = "withdrawal" /\ Raw[r].amount < 0

FuturesTransfer(r) ==
    /\ Raw[r].type = "transfer" /\ Code(r) # Absent /\ Raw[r].fee = 0
    /\ \/ Raw[r].subtype = "spotfromfutures" /\ Raw[r].amount > 0
       \/ Raw[r].subtype = "spottofutures" /\ Raw[r].amount < 0

InternalMovement(r, found) ==
    \/ r \in SelfTransfers \cup found.migrated \cup found.autoallocated
    \/ {Raw[r].type, Raw[r].subtype} \cap InternalSubtypes # {}
    \/ FiatFunding(r)
    \/ FuturesTransfer(r)

-----------------------------------------------------------------------------
(* Trades, and the two ledger entries that belong to a trade.              *)

Resolved(t) == Raw[t].base # Absent /\ Raw[t].quote # Absent

ValidTrade(t) ==
    /\ Resolved(t)
    /\ Raw[t].side \in {"buy", "sell"}
    /\ Raw[t].cost > 0 /\ Raw[t].volume > 0 /\ Raw[t].fee >= 0

Signed(t, n) == IF Raw[t].side = "buy" THEN n ELSE -n

BaseLeg(t, l)  == Code(l) = Raw[t].base /\ Raw[l].amount = Signed(t, Raw[t].volume)
QuoteLeg(t, l) ==
    LET amount == Signed(t, -Raw[t].cost) IN
    /\ Code(l) = Raw[t].quote
    /\ Raw[l].amount # 0 /\ (Raw[l].amount > 0) = (amount > 0)
    /\ Near(Raw[l].amount, amount, QuoteTolerance)

\* reconcile_trade_ledgers, MATCHED with the ledger ids the trade names ...
FoundLegs(t, found) ==
    IF /\ {Raw[l].key : l \in found} = Raw[t].ledgers
       /\ Cardinality(Raw[t].ledgers) = 2
       /\ \A l \in found : Raw[l].ref = Raw[t].key
       /\ \E b, q \in found : found = {b, q} /\ BaseLeg(t, b) /\ QuoteLeg(t, q)
    THEN found ELSE {}

MatchedByIds(t, legs) == FoundLegs(t, {l \in legs : Raw[l].key \in Raw[t].ledgers})

\* ... or by reference, else by time and amount: one leg each, and no other entry
\* with the reference.
OnlyLegs(t, base, quote, referenced) ==
    IF /\ Cardinality(base) = 1 /\ Cardinality(quote) = 1
       /\ referenced # {} => referenced = base \cup quote
    THEN base \cup quote ELSE {}

CandidateLegs(t, candidates, referenced) ==
    OnlyLegs(t, {l \in candidates : BaseLeg(t, l)}, {l \in candidates : QuoteLeg(t, l)},
             referenced)

CloseLegs(t, close, referenced) ==
    CandidateLegs(t, IF referenced # {} THEN referenced
                     ELSE {l \in close : Raw[l].ref = Absent}, referenced)

MatchedByFallback(t, legs) ==
    LET close == {l \in legs : Near(Raw[l].at, Raw[t].at, FallbackDistance)}
    IN  CloseLegs(t, close, {l \in close : Raw[l].ref = Raw[t].key})

MatchedLegs(t, legs) ==
    IF ~ValidTrade(t) THEN {}
    ELSE IF Raw[t].ledgers # {} THEN MatchedByIds(t, legs)
    ELSE MatchedByFallback(t, legs)

TradeLegs(all) == {l \in all : IsLedger(l) /\ Raw[l].type = "trade"}
TradesOf(l, all) ==
    {t \in all : IsTrade(t) /\ l \in MatchedLegs(t, TradeLegs(all))}

\* A ledger entry is left to the one trade it belongs to.
Reconciled(l, all) == Cardinality(TradesOf(l, all)) = 1

\* A trade whose named ledger entries are about other assets is not booked.
AssetConflict(t, stored) ==
    \E l \in stored : /\ IsLedger(l) /\ Raw[l].key \in Raw[t].ledgers
                      /\ Code(l) \notin {Raw[t].base, Raw[t].quote}

Received(t) == IF Raw[t].side = "buy" THEN Raw[t].base ELSE Raw[t].quote
Paid(t)     == IF Raw[t].side = "buy" THEN Raw[t].quote ELSE Raw[t].base
ReceivedQuantity(t) == IF Raw[t].side = "buy" THEN Raw[t].volume ELSE Raw[t].cost
PaidQuantity(t)     == IF Raw[t].side = "buy" THEN Raw[t].cost ELSE Raw[t].volume

TradeFact(t) == Fact("trade", t, {t}, Raw[t].base, Raw[t].volume)

\* The acquisition is booked whatever is received, the disposal for crypto only.
TradeFacts(t) ==
    {Fact("acquisition", t, {t}, Received(t), ReceivedQuantity(t))}
      \cup {Fact("disposal", t, {t}, c, PaidQuantity(t)) : c \in {Paid(t)} \ Fiat}
      \cup {Fact("fee", t, {t}, Raw[t].quote, n) : n \in {Raw[t].fee} \ {0}}

\* MUTANT of VisitTrade: a known trade does not end the visit.
VisitTradeTwice(t, stored, facts) ==
    IF ~ValidTrade(t) \/ ~Raw[t].consistent THEN Only(t, "review")
    ELSE IF AssetConflict(t, stored) THEN Only(t, "conflict")
    ELSE Effect({Decision(t, Persisted(TradeFact(t), facts), "trade")},
                New({TradeFact(t)}, facts) \cup TradeFacts(t))

BookTrade(t, verdict) ==
    Effect({Decision(t, verdict, "trade")},
           IF verdict = "created" THEN {TradeFact(t)} \cup TradeFacts(t) ELSE {})

VisitTrade(t, stored, facts) ==
    IF ~ValidTrade(t) \/ ~Raw[t].consistent THEN Only(t, "review")
    ELSE IF AssetConflict(t, stored) THEN Only(t, "conflict")
    ELSE BookTrade(t, Persisted(TradeFact(t), facts))

-----------------------------------------------------------------------------
(* A visit, and a run over all selected records.                           *)

IsReward(r) ==
    \/ Raw[r].type = "earn" /\ Raw[r].subtype = "reward"
    \/ Raw[r].type = "staking" /\ Raw[r].subtype = Absent

VisitReward(r, facts) ==
    LET lot == Fact("reward", r, {r}, Code(r), Raw[r].amount - Raw[r].fee) IN
    IF Raw[r].amount <= 0 \/ Code(r) = Absent \/ Raw[r].fee < 0 \/ Raw[r].fee >= Raw[r].amount
    THEN Only(r, "review")
    ELSE Effect({Decision(r, Persisted(lot, facts), "reward")}, New({lot}, facts))

VisitLedger(r, found, facts) ==
    IF Raw[r].type = "trade" /\ r \in found.reconciled THEN Only(r, "duplicate")
    ELSE IF InternalMovement(r, found) THEN Only(r, "internal")
    ELSE IF IsReward(r) THEN VisitReward(r, facts)
    ELSE IF Raw[r].type \in {"earn", "staking", "spend", "receive"} \cup ReviewedTypes
    THEN Only(r, "review")
    ELSE Only(r, "unsupported")

Visit(r, found, stored, seen, facts) ==
    LET group == LedgerGroup(r, found.all) IN
    IF Cardinality(group) > 1 THEN VisitGroupMember(r, group, seen, facts)
    ELSE IF IsLedger(r) THEN VisitLedger(r, found, facts)
    ELSE IF IsTrade(r) THEN VisitTrade(r, stored, facts)
    ELSE Only(r, "unsupported")

\* What a run finds in its records before it visits them.
Findings(all) ==
    [all |-> all,
     reconciled |-> {l \in TradeLegs(all) : Reconciled(l, all)},
     autoallocated |-> {r \in all : IsLedger(r) /\ InternalAutoallocation(r, all)},
     migrated |-> {r \in all : IsLedger(r) /\ EthMigration(r, all)}]

\* What a run comes to: the effects of its visits together.
Outcome(selected, context, stored, seen, facts) ==
    LET effects == {Visit(r, found, stored, seen, facts) :
                        r \in selected, found \in {Findings(selected \cup context)}}
    IN  Effect(UNION {e.decisions : e \in effects}, UNION {e.facts : e \in effects})

\* uq_transformation_decision_run_raw and the unique stable keys.
OneDecisionEach(decisions) ==
    \A d, e \in decisions : d.record = e.record => d = e

KeysUnique(new, facts) ==
    /\ \A f \in new : Existing(f, facts) = {}
    /\ \A f, g \in new : SameKey(f, g) => f = g

Consistent(outcome, facts) ==
    OneDecisionEach(outcome.decisions) /\ KeysUnique(outcome.facts, facts)
=============================================================================
