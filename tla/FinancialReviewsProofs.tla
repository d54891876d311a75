----------------------- MODULE FinancialReviewsProofs -----------------------
(***************************************************************************)
(* Proofs about FinancialReviews, with the historical transfers and the    *)
(* list of reviews below it, for any records, transfers, requests and      *)
(* runs: fees stay valued, gaps of the cost basis stay listed, settled     *)
(* deposits leave the list, and no record is decided twice.                *)
(***************************************************************************)
EXTENDS FinancialReviews, SumProofs

USE RowAssumption, TransferAssumption, LedgerAssumption, StoredAssumption, ReviewAssumption

-----------------------------------------------------------------------------
(* Types.                                                                  *)

Required == {"lot", "fee"} \X Records
LinkRow == {Identity(x) : x \in TransferAsk}
SettlementRow == [link : LinkRow, coverage : {x.coverage : x \in TransferAsk},
                  text : {x.text : x \in TransferAsk}, since : Nat]
Call == [step : {"idle", "linked", "projected", "done"}, ask : TransferAsk \cup {None},
         started : Nat, known : BOOLEAN, lots : SUBSET DOMAIN Row,
         fees : SUBSET Records, requirements : SUBSET Required, gaps : SUBSET Records]
DecisionRow == [run : Nat, raw : Records, code : Codes \cup {None}]
RunRow == [step : {"idle", "begun", "done"}, started : Nat, settled : SUBSET DOMAIN Ledger]
Reading == [issue : IssueRow, ask : {a \in ReviewAsk : a.records \subseteq DOMAIN Ledger},
            suggestion : ReviewRow \cup {None}, rejected : ReviewRow \cup {None}]

HistoryType ==
    /\ situation \in Situations
    /\ clock \in Nat \ {0}
    /\ issues \subseteq IssueRow

TransferType ==
    /\ links \subseteq LinkRow
    /\ transfers \subseteq SettlementRow
    /\ lots \subseteq DOMAIN Row
    /\ fees \subseteq Records
    /\ requirements \subseteq Required
    /\ resolving \in [Resolvers -> Call]
    /\ \A c \in Resolvers : resolving[c].step \in {"linked", "projected"} =>
           resolving[c].ask \in TransferAsk

ListType ==
    /\ decisions \subseteq DecisionRow
    /\ runs \in [Runs -> RunRow]

RequestType ==
    /\ suggestions \subseteq ReviewRow
    /\ resolutions \subseteq ReviewRow
    /\ step \in [Requests -> {"idle", "read", "suggestions", "decided", "done"}]
    /\ local = [q \in Requests |-> local[q]]
    /\ \A g \in Generators : step[g] = "read" => local[g] \subseteq ReviewRow
    /\ \A d \in Deciders : step[d] \in {"suggestions", "decided"} => local[d] \in Reading

TypeInv == HistoryType /\ TransferType /\ ListType /\ RequestType

-----------------------------------------------------------------------------
(* The inductive invariants.                                               *)

\* What is written refers to runs that have begun.
RunsBegun ==
    /\ \A i \in issues : i.run \in 1 .. clock
    /\ \A t \in transfers : t.since \in 1 .. clock
    /\ \A d \in decisions : d.run \in 1 .. clock
    /\ \A t \in Runs : runs[t].started <= clock
    /\ \A t \in Runs : runs[t].step = "begun" => runs[t].started \in 1 .. clock
    /\ \A c \in Resolvers : resolving[c].step \in {"linked", "projected"} =>
           resolving[c].started \in 1 .. clock

\* What a call has found is stored, or it will store it itself.
CallsValued ==
    \A c \in Resolvers : resolving[c].step = "projected" =>
        \A r \in FeesOf(resolving[c].ask) :
            /\ r \in fees \cup resolving[c].fees
            /\ Fee(r) \in requirements \cup resolving[c].requirements

CallsDocumented ==
    \A c \in Resolvers : resolving[c].step = "projected" =>
        /\ Documented(resolving[c].ask) \subseteq lots \cup resolving[c].lots
        /\ Gaps(resolving[c].ask) \subseteq resolving[c].gaps

GapsNoted ==
    \A t \in transfers :
        /\ Documented(t.link) \subseteq lots
        /\ \A r \in Gaps(t.link) : \E i \in issues : i.raw = r /\ i.code = Gap

\* A run, and what it decides, knows of every deposit that was settled before it
\* began.
RunsKnowSettled ==
    \A t \in Runs : runs[t].step = "begun" =>
        \A raw \in DOMAIN Ledger :
            (Settled(raw) /\ SettledSince(raw) < runs[t].started) => raw \in runs[t].settled

DecisionsKnowSettled ==
    \A d \in decisions : \A raw \in DOMAIN Ledger :
        (d.raw = raw /\ Settled(raw) /\ SettledSince(raw) < d.run) => d.code = None

\* Only what could be proposed is about to be confirmed.
DecidedIsCandidate ==
    \A d \in Deciders :
        step[d] = "decided" /\ local[d].ask.status = "confirmed" =>
            Candidate(local[d].ask.type, local[d].ask.records)

\* The keys of suggestions are unique, among those stored and those of a request.
KeysUnique ==
    /\ \A s, t \in suggestions : SameKey(s, t) => s = t
    /\ \A g \in Generators : step[g] = "read" =>
           /\ \A s, t \in local[g] : SameKey(s, t) => s = t
           /\ \A s \in local[g] : s.by = None

\* Where requests do not overlap, one is active, and what it has read still holds.
Active(q) == step[q] \notin {"idle", "done"}
OneAtATime == \A p, q \in Requests : Active(p) /\ Active(q) => p = q

ReadingHolds ==
    \A d \in Deciders : step[d] \in {"suggestions", "decided"} =>
        /\ local[d].suggestion # None =>
              /\ local[d].suggestion \in suggestions
              /\ local[d].suggestion.records = local[d].ask.records
        /\ local[d].rejected = None => RejectedOn(local[d].ask.records) = {}
        /\ step[d] = "decided" =>
              Undecided(local[d]) /\ (MayReject(local[d]) \/ MayConfirm(local[d]))

AloneInv == ~situation.overlap => OneAtATime /\ ReadingHolds

-----------------------------------------------------------------------------
(* What transfers document.                                                *)

QuantityOf == [r \in DOMAIN Row |-> Row[r].quantity]
Quantity(S) == MapThenSumSet(LAMBDA r : Row[r].quantity, S)

LEMMA QuantityIsSum ==
    ASSUME NEW S \in SUBSET DOMAIN Row, IsFiniteSet(S)
    PROVE  /\ Quantity(S) = SumOf(QuantityOf, S)
           /\ Quantity(S) \in Nat
           /\ \A r \in S : Row[r].quantity <= Quantity(S)
  <1> DEFINE F(h) == [s \in SUBSET S |->
                        IF s = {} THEN 0 ELSE Row[Some(s)].quantity + h[s \ {Some(s)}]]
  <1> DEFINE it == CHOOSE h : h = F(h)
  <1>1. \A r \in S : QuantityOf[r] = Row[r].quantity /\ QuantityOf[r] \in Nat
    BY DEF QuantityOf
  <1>2. \A r \in S : QuantityOf[r] \in Int
    BY <1>1
  <1>3. PICK g \in [SUBSET S -> Int] :
            Adds(g, QuantityOf, SUBSET S) /\ SumOf(QuantityOf, S) = g[S]
    BY <1>2, SumRecursion
  <1>4. ASSUME NEW h
        PROVE  F(h) = [s \in SUBSET S |->
                          IF s = {} THEN 0 ELSE QuantityOf[Some(s)] + h[s \ {Some(s)}]]
    <2>1. \A s \in SUBSET S : s # {} => QuantityOf[Some(s)] = Row[Some(s)].quantity
      BY <1>1, SomeIn
    <2> QED  BY <2>1
  <1>5. Quantity(S) = it[S]
    BY DEF Quantity, MapThenSumSet, MapThenFoldSet, Some
  <1> HIDE DEF F
  <1>6. g = F(g)
    BY <1>3, <1>4 DEF Adds
  <1>7. it = F(it)
    BY <1>6
  <1> HIDE DEF it
  <1>8. Adds(it, QuantityOf, SUBSET S)
    BY <1>4, <1>7 DEF Adds
  <1>9. it[S] = SumOf(QuantityOf, S)
    BY <1>2, <1>8, SumOfPart
  <1>10. Quantity(S) = SumOf(QuantityOf, S)
    BY <1>5, <1>9
  <1>11. SumOf(QuantityOf, S) \in Nat /\ \A r \in S : QuantityOf[r] <= SumOf(QuantityOf, S)
    BY <1>1, SumPositive
  <1> QED  BY <1>1, <1>10, <1>11

LEMMA DocumentsAreRows ==
    ASSUME NEW x \in TransferAsk
    PROVE  /\ Documented(x) \subseteq Acquired(x) /\ Acquired(x) \subseteq x.sources
           /\ Acquired(x) \subseteq DOMAIN Row
           /\ IsFiniteSet(Acquired(x)) /\ IsFiniteSet(Documented(x))
           /\ DocumentedQuantity(x) = Quantity(Documented(x))
           /\ DocumentedQuantity(x) \in Nat
           /\ \A r \in Documented(x) : Row[r].quantity <= DocumentedQuantity(x)
           /\ FeesOf(x) \subseteq Records
  <1>1. /\ Documented(x) \subseteq Acquired(x) /\ Acquired(x) \subseteq x.sources
        /\ x.sources \subseteq DOMAIN Row /\ IsFiniteSet(x.sources)
    BY DEF Documented, Acquired
  <1>2. IsFiniteSet(Acquired(x)) /\ IsFiniteSet(Documented(x))
    BY <1>1, FS_Subset
  <1>3. DocumentedQuantity(x) = Quantity(Documented(x))
    BY DEF DocumentedQuantity, Quantity
  <1>4. DocumentedQuantity(x) \in Nat /\ \A r \in Documented(x) : Row[r].quantity <= DocumentedQuantity(x)
    BY <1>1, <1>2, <1>3, QuantityIsSum
  <1>5. OwnFees(x) \subseteq Records
    BY <1>1 DEF OwnFees, Records
  <1>6. TransferFee(x) \subseteq Records
    BY DEF TransferFee
  <1> QED  BY <1>1, <1>2, <1>3, <1>4, <1>5, <1>6 DEF FeesOf

\* What a link keeps of a transfer documents the same.
LEMMA LinkDocuments ==
    ASSUME NEW x
    PROVE  /\ Acquired(Identity(x)) = Acquired(x) /\ Documented(Identity(x)) = Documented(x)
           /\ Gaps(Identity(x)) = Gaps(x) /\ FeesOf(Identity(x)) = FeesOf(x)
           /\ Identity(x).source = x.source /\ Identity(x).sources = x.sources
           /\ GapRecord(Identity(x)) = GapRecord(x)
  <1>1. /\ Identity(x).source = x.source /\ Identity(x).sources = x.sources
        /\ Identity(x).target = x.target /\ Identity(x).fee = x.fee
        /\ Identity(x).feeFrom = x.feeFrom
    BY DEF Identity
  <1>2. Acquired(Identity(x)) = Acquired(x)
    BY <1>1 DEF Acquired
  <1>3. Documented(Identity(x)) = Documented(x)
    BY <1>2 DEF Documented
  <1>4. DocumentedQuantity(Identity(x)) = DocumentedQuantity(x)
    BY <1>3 DEF DocumentedQuantity
  <1>5. GapRecord(Identity(x)) = GapRecord(x)
    BY <1>1 DEF GapRecord
  <1>6. Gaps(Identity(x)) = Gaps(x)
    BY <1>1, <1>2, <1>3, <1>4, <1>5 DEF Gaps
  <1>7. FeesOf(Identity(x)) = FeesOf(x)
    BY <1>1, <1>3 DEF FeesOf, OwnFees, TransferFee
  <1> QED  BY <1>1, <1>2, <1>3, <1>5, <1>6, <1>7

LEMMA GapsAreRecords ==
    ASSUME NEW x \in TransferAsk
    PROVE  Gaps(x) \subseteq Records /\ Gaps(x) \subseteq x.sources \cup {GapRecord(x)}
  <1>1. Acquired(x) \ Documented(x) \subseteq Records \cap x.sources
    BY DocumentsAreRows DEF Records
  <1>2. ASSUME DocumentedQuantity(x) \in 1 .. x.source - 1
        PROVE  GapRecord(x) \in Records
    <2>1. CASE x.target # None
      BY <2>1 DEF GapRecord
    <2>2. CASE x.target = None
      <3>1. Documented(x) # {}
        <4> SUFFICES ASSUME Documented(x) = {} PROVE FALSE
          OBVIOUS
        <4>1. DocumentedQuantity(x) = 0
          BY DocumentsAreRows, QuantityIsSum, SumEmpty
        <4> QED  BY <1>2, <4>1
      <3>2. x.sources \in SUBSET Nat /\ x.sources # {}
        BY <3>1, DocumentsAreRows
      <3>3. \E m \in x.sources : \A n \in x.sources : m <= n
        BY <3>2, LeastNatural
      <3>4. Min(x.sources) \in x.sources
        BY <3>3 DEF Min
      <3> QED  BY <2>2, <3>4 DEF GapRecord, Records
    <2> QED  BY <2>1, <2>2
  <1> QED  BY <1>1, <1>2 DEF Gaps
-----------------------------------------------------------------------------
(* Type correctness.                                                       *)

\* Calls of resolve and runs write what a request for reviews does not.
Transferring == TransferNext /\ UNCHANGED <<listVars, reviewVars>>
Listing == ListNext /\ UNCHANGED reviewVars

LEMMA InitTypes == Init => TypeInv
  <1> SUFFICES ASSUME Init PROVE TypeInv
    OBVIOUS
  <1>1. HistoryType
    BY DEF Init, ListInit, TransferInit, HistoryType, IssueRow, Issue
  <1>2. TransferType
    <2>1. \A c \in Resolvers : resolving[c] \in Call /\ resolving[c].step \in {"idle", "done"}
      BY DEF Init, ListInit, TransferInit, Call, Required
    <2>2. resolving \in [Resolvers -> Call]
      BY <2>1 DEF Init, ListInit, TransferInit
    <2> QED  BY <2>1, <2>2 DEF Init, ListInit, TransferInit, TransferType
  <1>3. ListType
    BY DEF Init, ListInit, TransferInit, ListType, DecisionRow, Decision, RunRow
  <1>4. RequestType
    BY DEF Init, RequestType, Requests
  <1> QED  BY <1>1, <1>2, <1>3, <1>4 DEF TypeInv

LEMMA FindLinkCall ==
    ASSUME HistoryType, TransferType, NEW c \in Resolvers, FindLink(c)
    PROVE  \E x \in TransferAsk :
               resolving' = [resolving EXCEPT ![c] =
                   [@ EXCEPT !.step = IF x.source < x.quantity THEN "done" ELSE "linked",
                             !.ask = x, !.started = clock + 1,
                             !.known = Identity(x) \in links]]
  <1>1. Transfers[situation.transfers] \subseteq TransferAsk
    BY DEF HistoryType, TransferAsk
  <1> QED  BY <1>1 DEF FindLink

LEMMA TransferTypes ==
    ASSUME HistoryType, TransferType, TransferNext
    PROVE  HistoryType' /\ TransferType'
  <1> USE DEF HistoryType, TransferType
  <1>1. ASSUME NEW c \in Resolvers, FindLink(c)
        PROVE  HistoryType' /\ TransferType'
    <2>1. PICK x \in TransferAsk :
              resolving' = [resolving EXCEPT ![c] =
                  [@ EXCEPT !.step = IF x.source < x.quantity THEN "done" ELSE "linked",
                            !.ask = x, !.started = clock + 1,
                            !.known = Identity(x) \in links]]
      BY <1>1, FindLinkCall
    <2> DEFINE s == IF x.source < x.quantity THEN "done" ELSE "linked"
               k == Identity(x) \in links
    <2>2. resolving[c] \in Call /\ clock + 1 \in Nat
      OBVIOUS
    <2>6. s \in {"done", "linked"}
      OBVIOUS
    <2>7. k \in BOOLEAN
      OBVIOUS
    <2> HIDE DEF s, k
    <2>3. [resolving[c] EXCEPT !.step = s, !.ask = x, !.started = clock + 1, !.known = k] \in Call
      BY <2>2, <2>6, <2>7 DEF Call
    <2> USE DEF s, k
    <2>4. resolving' \in [Resolvers -> Call]
      BY <2>1, <2>3
    <2>5. \A d \in Resolvers : resolving'[d].step \in {"linked", "projected"} =>
              resolving'[d].ask \in TransferAsk
      BY <2>1, <2>2 DEF Call
    <2> QED  BY <1>1, <2>4, <2>5 DEF FindLink, projected
  <1>2. ASSUME NEW c \in Resolvers, resolving' = [resolving EXCEPT ![c].step = "done"]
        PROVE  /\ resolving' \in [Resolvers -> Call]
               /\ \A d \in Resolvers : resolving'[d].step \in {"linked", "projected"} =>
                      resolving'[d].ask \in TransferAsk
    <2>1. [resolving[c] EXCEPT !.step = "done"] \in Call
      BY DEF Call
    <2>2. resolving' \in [Resolvers -> Call]
      BY <1>2, <2>1
    <2> QED  BY <1>2, <2>2 DEF Call
  <1>3. ASSUME NEW c \in Resolvers, FindSettlement(c) \/ RollBackTransfer(c)
        PROVE  HistoryType' /\ TransferType'
    BY <1>2, <1>3 DEF FindSettlement, RollBackTransfer, projected
  <1>4. ASSUME NEW c \in Resolvers, Project(c)
        PROVE  HistoryType' /\ TransferType'
    <2> DEFINE x == resolving[c].ask
               new == Documented(x) \ lots
    <2>1. /\ x \in TransferAsk /\ resolving[c] \in Call
          /\ resolving' = [resolving EXCEPT ![c] =
                [@ EXCEPT !.step = "projected", !.lots = new, !.fees = FeesOf(x) \ fees,
                          !.requirements = Valued(new, x), !.gaps = Gaps(x)]]
      BY <1>4 DEF Project
    <2>2. /\ new \subseteq DOMAIN Row /\ FeesOf(x) \subseteq Records /\ Gaps(x) \subseteq Records
      BY <2>1, DocumentsAreRows, GapsAreRecords
    <2>3. Valued(new, x) \subseteq Required
      <3>1. \A r \in Records : Lot(r) \in Required /\ Fee(r) \in Required
        BY DEF Lot, Fee, Required
      <3> HIDE DEF x, new
      <3> QED  BY <2>2, <3>1 DEF Valued, Records
    <2> HIDE DEF x, new
    <2>4. [resolving[c] EXCEPT !.step = "projected", !.lots = new, !.fees = FeesOf(x) \ fees,
                               !.requirements = Valued(new, x), !.gaps = Gaps(x)] \in Call
      BY <2>1, <2>2, <2>3 DEF Call
    <2>5. resolving' \in [Resolvers -> Call]
      BY <2>1, <2>4
    <2>6. resolving'[c].ask = x
      BY <2>1 DEF x, Call
    <2>7. \A d \in Resolvers : resolving'[d].step \in {"linked", "projected"} =>
              resolving'[d].ask \in TransferAsk
      BY <2>1, <2>6
    <2> QED  BY <1>4, <2>5, <2>7 DEF Project, projected
  <1>5. ASSUME NEW c \in Resolvers, CommitTransfer(c)
        PROVE  HistoryType' /\ TransferType'
    <2> DEFINE call == resolving[c]
    <2>1. call \in Call /\ call.ask \in TransferAsk
      BY <1>5 DEF CommitTransfer
    <2>2. /\ links' = links \cup {Identity(call.ask)}
          /\ transfers' = transfers \cup {Settlement(call.ask, clock)}
          /\ lots' = lots \cup call.lots /\ fees' = fees \cup call.fees
          /\ requirements' = requirements \cup call.requirements
          /\ issues' = issues \cup {Issue(call.started, raw, Gap) : raw \in call.gaps}
          /\ resolving' = [resolving EXCEPT ![c].step = "done"]
          /\ UNCHANGED <<situation, clock>>
      BY <1>5 DEF CommitTransfer
    <2>3. /\ call.lots \subseteq DOMAIN Row /\ call.fees \subseteq Records
          /\ call.requirements \subseteq Required
          /\ call.gaps \subseteq Records /\ call.started \in Nat
      BY <2>1 DEF Call
    <2>4. Identity(call.ask) \in LinkRow /\ Settlement(call.ask, clock) \in SettlementRow
      BY <2>1 DEF LinkRow, SettlementRow, Settlement
    <2> HIDE DEF call
    <2>5. {Issue(call.started, raw, Gap) : raw \in call.gaps} \subseteq IssueRow
      BY <2>3 DEF Issue, IssueRow, Codes
    <2> QED  BY <1>2, <2>2, <2>3, <2>4, <2>5
  <1> QED  BY <1>1, <1>3, <1>4, <1>5 DEF TransferNext

LEMMA ListTypes ==
    ASSUME TypeInv, ListNext
    PROVE  HistoryType' /\ ListType'
  <1> USE DEF TypeInv, HistoryType, ListType
  <1>1. ASSUME NEW t \in Runs, BeginRun(t)
        PROVE  HistoryType' /\ ListType'
    <2>1. PICK last :
              runs' = [runs EXCEPT ![t] =
                  [step |-> "begun", started |-> clock + 1,
                   settled |-> {r \in Counted : SettlesDeposit(last[r])}]]
      BY <1>1 DEF BeginRun
    <2>2. [step |-> "begun", started |-> clock + 1,
           settled |-> {r \in Counted : SettlesDeposit(last[r])}] \in RunRow
      BY DEF RunRow, Counted
    <2>3. runs' \in [Runs -> RunRow]
      BY <2>1, <2>2
    <2> QED  BY <1>1, <2>3 DEF BeginRun
  <1>2. ASSUME NEW t \in Runs, CommitRun(t)
        PROVE  HistoryType' /\ ListType'
    <2> DEFINE started == runs[t].started
               reviewed == Reviewed(runs[t].settled)
    <2>1. /\ decisions' = decisions \cup
                {Decision(started, r, IF r \in reviewed THEN ReviewCode(r) ELSE None) :
                    r \in DOMAIN Ledger}
          /\ issues' = issues \cup {Issue(started, r, ReviewCode(r)) : r \in reviewed}
          /\ runs' = [runs EXCEPT ![t].step = "done"]
          /\ UNCHANGED <<situation, clock>>
      BY <1>2 DEF CommitRun
    <2>2. started \in Nat /\ reviewed \subseteq DOMAIN Ledger
      BY DEF RunRow, Reviewed
    <2>3. \A r \in DOMAIN Ledger : ReviewCode(r) \in Codes /\ r \in Records
      BY DEF ReviewCode, Codes, Records
    <2> HIDE DEF started, reviewed
    <2>4. decisions' \subseteq DecisionRow
      BY <2>1, <2>2, <2>3 DEF Decision, DecisionRow
    <2>5. issues' \subseteq IssueRow
      BY <2>1, <2>2, <2>3 DEF Issue, IssueRow
    <2>6. [runs[t] EXCEPT !.step = "done"] \in RunRow
      BY DEF RunRow
    <2>7. runs' \in [Runs -> RunRow]
      BY <2>1, <2>6
    <2> QED  BY <2>1, <2>4, <2>5, <2>7
  <1> QED  BY <1>1, <1>2 DEF ListNext
-----------------------------------------------------------------------------
(* What a request for suggestions proposes.                                *)

LEMMA ActiveIssueOfRecord ==
    ASSUME NEW active \in SUBSET IssueRow, NEW r \in Open(active)
    PROVE  ActiveIssue(r, active) \in active /\ ActiveIssue(r, active).raw = r
  <1> DEFINE S == {i.run : i \in {j \in active : j.raw = r}}
  <1>1. PICK i \in active : i.raw = r
    BY DEF Open
  <1>2. S \in SUBSET Nat /\ S # {}
    BY <1>1 DEF IssueRow
  <1>3. PICK m \in S : \A n \in S : m <= n
    BY <1>2, LeastNatural
  <1>4. PICK k \in active : k.raw = r /\ k.run = m
    BY <1>3
  <1>5. \A j \in active : j.raw = r => k.run <= j.run
    BY <1>3, <1>4
  <1> HIDE DEF S
  <1> QED  BY <1>4, <1>5 DEF ActiveIssue

LEMMA ProposalKeys ==
    ASSUME NEW active \in SUBSET IssueRow
    PROVE  /\ Proposals(active) \subseteq ReviewRow
           /\ \A s \in Proposals(active) : s.by = None
           /\ \A s, t \in Proposals(active) : SameKey(s, t) => s = t
  <1> DEFINE open == Open(active) \cap DOMAIN Ledger
             W == {o \in open : FiatWithdrawal(o)}
             OfOne(r) == Suggestion(ActiveIssue(r, active), Withdrawal, {r}, None)
             OfTwo(p) == Suggestion(ActiveIssue(p[1], active), Delisting, {p[1], p[2]}, None)
  <1>1. Proposals(active) = {OfOne(r) : r \in W} \cup {OfTwo(p) : p \in Pairs(open)}
    BY DEF Proposals
  <1>2. \A p \in Pairs(open) : /\ p[1] \in open /\ p[2] \in open
                               /\ p = <<p[1], p[2]>>
                               /\ Match(p[1], p[2])
                               /\ \A r \in Legs(open) \ {p[2]} : ~Match(p[1], r)
                               /\ p[2] \in Legs(open)
    BY DEF Pairs, Legs
  <1>3. \A r \in open : /\ ActiveIssue(r, active) \in IssueRow
                        /\ ActiveIssue(r, active).raw = r
                        /\ r \in DOMAIN Ledger
    BY ActiveIssueOfRecord
  <1>4. W \subseteq open
    OBVIOUS
  <1> HIDE DEF open, W
  <1>5. \A r \in W : OfOne(r) \in ReviewRow /\ OfOne(r).by = None /\ OfOne(r).type = Withdrawal
                     /\ OfOne(r).issue.raw = r
    BY <1>3, <1>4 DEF Suggestion, ReviewRow, By
  <1>6. \A p \in Pairs(open) :
            /\ OfTwo(p) \in ReviewRow /\ OfTwo(p).by = None /\ OfTwo(p).type = Delisting
            /\ OfTwo(p).issue.raw = p[1]
    <2> SUFFICES ASSUME NEW p \in Pairs(open)
                 PROVE /\ OfTwo(p) \in ReviewRow /\ OfTwo(p).by = None
                       /\ OfTwo(p).type = Delisting /\ OfTwo(p).issue.raw = p[1]
      OBVIOUS
    <2>1. {p[1], p[2]} \in SUBSET DOMAIN Ledger /\ None \in By
      BY <1>2, <1>3 DEF By
    <2>2. ActiveIssue(p[1], active) \in IssueRow /\ ActiveIssue(p[1], active).raw = p[1]
      BY <1>2, <1>3
    <2> QED  BY <2>1, <2>2 DEF Suggestion, ReviewRow
  <1>7. Withdrawal # Delisting
    BY DEF Withdrawal, Delisting
  <1>8. \A p, q \in Pairs(open) : p[1] = q[1] => p = q
    BY <1>2
  <1> HIDE DEF OfOne, OfTwo
  <1>9. ASSUME NEW s \in Proposals(active), NEW t \in Proposals(active), SameKey(s, t)
        PROVE  s = t
    <2>0. s.issue = t.issue /\ s.type = t.type
      BY <1>9 DEF SameKey
    <2>1. CASE s.type = Withdrawal
      <3>1. PICK r \in W : s = OfOne(r)
        BY <1>1, <1>6, <1>7, <2>1
      <3>0. t.type = Withdrawal
        BY <2>0, <2>1
      <3>2. PICK q \in W : t = OfOne(q)
        BY <1>1, <1>6, <1>7, <3>0
      <3>3. r = q
        BY <1>5, <2>0, <3>1, <3>2
      <3> QED  BY <3>1, <3>2, <3>3
    <2>2. CASE s.type # Withdrawal
      <3>1. PICK p \in Pairs(open) : s = OfTwo(p)
        BY <1>1, <1>5, <2>2
      <3>2. PICK q \in Pairs(open) : t = OfTwo(q)
        BY <1>1, <1>5, <2>0, <2>2
      <3>3. p[1] = q[1]
        BY <1>6, <2>0, <3>1, <3>2
      <3>4. p = q
        BY <1>8, <3>3
      <3> QED  BY <3>1, <3>2, <3>4
    <2> QED  BY <2>1, <2>2
  <1> QED  BY <1>1, <1>5, <1>6, <1>9

-----------------------------------------------------------------------------
(* The steps of requests.                                                  *)

Requesting ==
    \/ \E g \in Generators : ReadForSuggestions(g) \/ CommitSuggestions(g)
    \/ \E d \in Deciders : \/ ReadSuggestions(d) \/ ReadResolutions(d)
                           \/ Reject(d) \/ Confirm(d)

LEMMA RequestLeavesRest ==
    ASSUME Requesting
    PROVE  UNCHANGED <<history, transferVars, listVars>>
  BY DEF Requesting, ReadForSuggestions, CommitSuggestions, ReadSuggestions, ReadResolutions,
         Reject, Confirm

\* What ReadSuggestions leaves behind.
LEMMA ReadSuggestionsReads ==
    ASSUME TypeInv, NEW d \in Deciders, ReadSuggestions(d)
    PROVE  \E l \in Reading :
               /\ local' = [local EXCEPT ![d] = l]
               /\ l.suggestion \in AnyOf(Matching(l.ask))
               /\ l.rejected \in AnyOf(RejectedOn(l.ask.records))
  <1>1. PICK ask \in Asks[situation.asks][d], issue \in issues :
            /\ Acceptable(issue, ask)
            /\ \E s \in AnyOf(Matching(ask)), r \in AnyOf(RejectedOn(ask.records)) :
                  local' = [local EXCEPT ![d] = [issue |-> issue, ask |-> ask,
                                                 suggestion |-> s, rejected |-> r]]
    BY DEF ReadSuggestions
  <1>2. PICK s \in AnyOf(Matching(ask)), r \in AnyOf(RejectedOn(ask.records)) :
            local' = [local EXCEPT ![d] = [issue |-> issue, ask |-> ask,
                                           suggestion |-> s, rejected |-> r]]
    BY <1>1
  <1>3. ask \in ReviewAsk
    <2>1. situation \in Situations
      BY DEF TypeInv, HistoryType
    <2> QED  BY <2>1 DEF ReviewAsk
  <1>4. ask.records \subseteq DOMAIN Ledger /\ issue \in IssueRow
    BY <1>1 DEF Acceptable, TypeInv, HistoryType
  <1>5. s \in ReviewRow \cup {None} /\ r \in ReviewRow \cup {None}
    <2>1. suggestions \subseteq ReviewRow
      BY DEF TypeInv, RequestType
    <2> QED  BY <1>2, <2>1 DEF AnyOf, Matching, RejectedOn
  <1> DEFINE l == [issue |-> issue, ask |-> ask, suggestion |-> s, rejected |-> r]
  <1>6. l \in Reading
    BY <1>3, <1>4, <1>5 DEF Reading
  <1> QED  BY <1>2, <1>6

LEMMA RequestTypes ==
    ASSUME TypeInv, Requesting
    PROVE  RequestType'
  <1> USE DEF RequestType
  <1>0. RequestType
    BY DEF TypeInv
  <1>a. \A q \in Requests : local[q] = local[q]
    OBVIOUS
  <1>1. ASSUME NEW g \in Generators, ReadForSuggestions(g)
        PROVE  RequestType'
    <2> DEFINE new == {s \in Proposals(ActiveIssues) : \A t \in suggestions : ~SameKey(s, t)}
    <2>1. /\ local' = [local EXCEPT ![g] = new]
          /\ step' = [step EXCEPT ![g] = "read"]
          /\ UNCHANGED <<suggestions, resolutions>>
      BY <1>1 DEF ReadForSuggestions
    <2>2. ActiveIssues \in SUBSET IssueRow
      BY DEF ActiveIssues, TypeInv, HistoryType
    <2>3. new \subseteq ReviewRow
      BY <2>2, ProposalKeys
    <2> HIDE DEF new
    <2> QED  BY <1>0, <2>1, <2>3 DEF Requests
  <1>2. ASSUME NEW g \in Generators, CommitSuggestions(g)
        PROVE  RequestType'
    <2>1. local[g] \subseteq ReviewRow
      BY <1>0, <1>2 DEF CommitSuggestions
    <2> QED  BY <1>0, <1>2, <2>1 DEF CommitSuggestions, Requests
  <1>3. ASSUME NEW d \in Deciders, ReadSuggestions(d)
        PROVE  RequestType'
    <2>1. PICK l \in Reading : local' = [local EXCEPT ![d] = l]
      BY <1>3, ReadSuggestionsReads
    <2> QED  BY <1>0, <1>3, <2>1 DEF ReadSuggestions, Requests
  <1>4. ASSUME NEW d \in Deciders, ReadResolutions(d)
        PROVE  RequestType'
    BY <1>0, <1>4 DEF ReadResolutions, Requests
  <1>5. ASSUME NEW d \in Deciders, Reject(d)
        PROVE  RequestType'
    <2>1. local[d] \in Reading
      BY <1>0, <1>5 DEF Reject
    <2>2. local[d].ask.by \in By
      BY <2>1 DEF Reading, By
    <2>3. \A s \in ReviewRow : [s EXCEPT !.by = local[d].ask.by] \in ReviewRow
      BY <2>2 DEF ReviewRow
    <2>4. suggestions' \subseteq ReviewRow
      BY <1>0, <1>5, <2>3 DEF Reject
    <2> QED  BY <1>0, <1>5, <2>4 DEF Reject, Requests
  <1>6. ASSUME NEW d \in Deciders, Confirm(d)
        PROVE  RequestType'
    <2>1. local[d] \in Reading
      BY <1>0, <1>6 DEF Confirm
    <2> DEFINE l == local[d]
               r == Resolution(l.issue, l.ask.type, l.ask.records, l.ask.by)
    <2>2. l.ask.by \in By /\ l.ask.type \in {Withdrawal, Delisting} /\ l.issue \in IssueRow
          /\ l.ask.records \in SUBSET DOMAIN Ledger
      BY <2>1 DEF Reading, By
    <2>3. r \in ReviewRow
      BY <2>2 DEF ReviewRow, Resolution
    <2>4. resolutions' \subseteq resolutions \cup {r}
      BY <1>6 DEF Confirm
    <2> HIDE DEF l, r
    <2> QED  BY <1>0, <1>6, <2>3, <2>4 DEF Confirm, Requests
  <1> QED  BY <1>1, <1>2, <1>3, <1>4, <1>5, <1>6 DEF Requesting
-----------------------------------------------------------------------------
(* Every variable keeps its type.                                          *)

LEMMA TypeStep ==
    ASSUME TypeInv, [Next]_vars
    PROVE  TypeInv'
  <1>1. CASE Transferring
    BY <1>1, TransferTypes
       DEF Transferring, TypeInv, ListType, RequestType, listVars, reviewVars
  <1>2. CASE Listing
    BY <1>2, ListTypes
       DEF Listing, ListNext, BeginRun, CommitRun, TypeInv, TransferType, RequestType,
           transferVars, reviewVars
  <1>3. CASE Requesting
    BY <1>3, RequestTypes, RequestLeavesRest
       DEF TypeInv, HistoryType, TransferType, ListType, history, transferVars, listVars
  <1>4. CASE UNCHANGED vars
    BY <1>4 DEF vars, history, transferVars, listVars, reviewVars, TypeInv, HistoryType,
                TransferType, ListType, RequestType
  <1> QED  BY <1>1, <1>2, <1>3, <1>4 DEF Next, Transferring, Listing, Requesting

\* Rows, calls, runs and what requests have read stay within their types, whatever
\* is imported, transferred and asked for.
THEOREM ReviewTypeCorrect == Spec => []TypeInv
  <1> QED  BY InitTypes, TypeStep, PTL DEF Spec

LEMMA BegunStep ==
    ASSUME TypeInv, RunsBegun, [Next]_vars
    PROVE  RunsBegun' /\ clock <= clock'
  <1> USE DEF RunsBegun
  <1>0. clock \in Nat \ {0} /\ runs \in [Runs -> RunRow] /\ resolving \in [Resolvers -> Call]
    BY DEF TypeInv, HistoryType, ListType, TransferType
  <1>1. ASSUME NEW c \in Resolvers, FindLink(c), UNCHANGED <<listVars, reviewVars>>
        PROVE  RunsBegun' /\ clock <= clock'
    <2>1. PICK x \in TransferAsk :
              resolving' = [resolving EXCEPT ![c] =
                  [@ EXCEPT !.step = IF x.source < x.quantity THEN "done" ELSE "linked",
                            !.ask = x, !.started = clock + 1,
                            !.known = Identity(x) \in links]]
      BY <1>1, FindLinkCall DEF TypeInv
    <2>2. resolving'[c].started = clock + 1 /\ \A d \in Resolvers \ {c} : resolving'[d] = resolving[d]
      BY <1>0, <2>1 DEF Call
    <2>3. /\ clock' = clock + 1
          /\ UNCHANGED <<issues, transfers, decisions, runs>>
      BY <1>1 DEF FindLink, listVars
    <2>4. \A u \in Runs : runs[u].started \in Nat
      BY <1>0 DEF RunRow
    <2>5. \A d \in Resolvers : resolving'[d].step \in {"linked", "projected"} =>
              resolving'[d].started \in 1 .. clock'
      BY <1>0, <2>2, <2>3
    <2> QED  BY <1>0, <2>3, <2>4, <2>5
  <1>2. ASSUME NEW c \in Resolvers, resolving' = [resolving EXCEPT ![c].step = "done"],
               UNCHANGED <<clock, decisions, runs>>,
               \A i \in issues' : i.run \in 1 .. clock,
               \A t \in transfers' : t.since \in 1 .. clock
        PROVE  RunsBegun' /\ clock <= clock'
    <2>1. \A d \in Resolvers : resolving'[d].step \in {"linked", "projected"} =>
              resolving[d].step \in {"linked", "projected"}
              /\ resolving'[d].started = resolving[d].started
      BY <1>0, <1>2 DEF Call
    <2> QED  BY <1>0, <1>2, <2>1
  <1>3. ASSUME NEW c \in Resolvers, FindSettlement(c) \/ RollBackTransfer(c),
               UNCHANGED <<listVars, reviewVars>>
        PROVE  RunsBegun' /\ clock <= clock'
    BY <1>2, <1>3 DEF FindSettlement, RollBackTransfer, projected, listVars
  <1>4. ASSUME NEW c \in Resolvers, Project(c), UNCHANGED <<listVars, reviewVars>>
        PROVE  RunsBegun' /\ clock <= clock'
    <2>1. \A d \in Resolvers : resolving'[d].step \in {"linked", "projected"} =>
              resolving[d].step \in {"linked", "projected"}
              /\ resolving'[d].started = resolving[d].started
      BY <1>0, <1>4 DEF Project, Call
    <2> QED  BY <1>0, <1>4, <2>1 DEF Project, listVars
  <1>5. ASSUME NEW c \in Resolvers, CommitTransfer(c), UNCHANGED <<listVars, reviewVars>>
        PROVE  RunsBegun' /\ clock <= clock'
    <2>1. resolving[c].started \in 1 .. clock
      BY <1>5 DEF CommitTransfer
    <2>2. /\ transfers' = transfers \cup {Settlement(resolving[c].ask, clock)}
          /\ issues' = issues \cup
                {Issue(resolving[c].started, raw, Gap) : raw \in resolving[c].gaps}
          /\ resolving' = [resolving EXCEPT ![c].step = "done"]
          /\ UNCHANGED <<clock, decisions, runs>>
      BY <1>5 DEF CommitTransfer, listVars
    <2>3. \A i \in issues' : i.run \in 1 .. clock
      BY <2>1, <2>2 DEF Issue
    <2>4. \A t \in transfers' : t.since \in 1 .. clock
      BY <1>0, <2>2 DEF Settlement
    <2> QED  BY <1>2, <2>2, <2>3, <2>4
  <1>6. ASSUME NEW t \in Runs, BeginRun(t), UNCHANGED reviewVars
        PROVE  RunsBegun' /\ clock <= clock'
    <2>1. PICK last :
              runs' = [runs EXCEPT ![t] =
                  [step |-> "begun", started |-> clock + 1,
                   settled |-> {r \in Counted : SettlesDeposit(last[r])}]]
      BY <1>6 DEF BeginRun
    <2>2. runs'[t].started = clock + 1 /\ \A u \in Runs \ {t} : runs'[u] = runs[u]
      BY <1>0, <2>1
    <2>3. clock' = clock + 1 /\ UNCHANGED <<issues, transfers, decisions, resolving>>
      BY <1>6 DEF BeginRun, transferVars
    <2>4. \A u \in Runs : runs[u].started \in Nat
      BY <1>0 DEF RunRow
    <2> QED  BY <1>0, <2>2, <2>3, <2>4
  <1>7. ASSUME NEW t \in Runs, CommitRun(t), UNCHANGED reviewVars
        PROVE  RunsBegun' /\ clock <= clock'
    <2>1. runs[t].started \in 1 .. clock
      BY <1>7 DEF CommitRun
    <2>2. /\ decisions' = decisions \cup
                {Decision(runs[t].started, r,
                          IF r \in Reviewed(runs[t].settled) THEN ReviewCode(r) ELSE None) :
                    r \in DOMAIN Ledger}
          /\ issues' = issues \cup
                {Issue(runs[t].started, r, ReviewCode(r)) : r \in Reviewed(runs[t].settled)}
          /\ runs' = [runs EXCEPT ![t].step = "done"]
          /\ UNCHANGED <<clock, transfers, resolving>>
      BY <1>7 DEF CommitRun, transferVars
    <2>3. \A u \in Runs : /\ runs'[u].started = runs[u].started
                          /\ runs'[u].step = "begun" => runs[u].step = "begun"
      BY <1>0, <2>2 DEF RunRow
    <2>4. \A d \in decisions' : d.run \in 1 .. clock
      BY <2>1, <2>2 DEF Decision
    <2>5. \A i \in issues' : i.run \in 1 .. clock
      BY <2>1, <2>2 DEF Issue
    <2> QED  BY <1>0, <2>2, <2>3, <2>4, <2>5
  <1>8. ASSUME UNCHANGED <<history, transferVars, listVars>>
        PROVE  RunsBegun' /\ clock <= clock'
    <2>1. UNCHANGED <<issues, clock, transfers, decisions, runs, resolving>>
      BY <1>8 DEF history, transferVars, listVars
    <2> QED  BY <1>0, <2>1
  <1>9. CASE Transferring
    BY <1>1, <1>3, <1>4, <1>5, <1>9 DEF Transferring, TransferNext
  <1>10. CASE Listing
    BY <1>6, <1>7, <1>10 DEF Listing, ListNext
  <1>11. CASE Requesting \/ UNCHANGED vars
    BY <1>8, <1>11, RequestLeavesRest DEF vars
  <1> QED  BY <1>9, <1>10, <1>11 DEF Next, Transferring, Listing, Requesting
-----------------------------------------------------------------------------
(* Historical transfers.                                                   *)

DocumentsInv == CallsValued /\ CallsDocumented /\ FeesValued /\ GapsNoted

LEMMA InitDocuments == Init => DocumentsInv /\ RunsBegun
  <1> SUFFICES ASSUME Init PROVE DocumentsInv /\ RunsBegun
    OBVIOUS
  <1>1. \A c \in Resolvers : resolving[c].step \notin {"linked", "projected"}
    BY DEF Init, ListInit, TransferInit
  <1>2. transfers = {} /\ clock = 1
    BY DEF Init, ListInit, TransferInit
  <1>3. DocumentsInv
    BY <1>1, <1>2 DEF DocumentsInv, CallsValued, CallsDocumented, FeesValued, GapsNoted
  <1>4. \A i \in issues : i.run = 1
    BY DEF Init, ListInit, TransferInit, Issue
  <1>5. \A d \in decisions : d.run = 1
    BY DEF Init, ListInit, Decision
  <1>6. \A t \in Runs : runs[t].started = 0 /\ runs[t].step # "begun"
    BY DEF Init, ListInit
  <1> QED  BY <1>1, <1>2, <1>3, <1>4, <1>5, <1>6 DEF RunsBegun

\* Whatever else is stored stays stored.
LEMMA StoredStays ==
    ASSUME [Next]_vars
    PROVE  /\ issues \subseteq issues' /\ lots \subseteq lots'
           /\ fees \subseteq fees' /\ requirements \subseteq requirements'
  <1>1. ASSUME TransferNext
        PROVE  /\ issues \subseteq issues' /\ lots \subseteq lots'
               /\ fees \subseteq fees' /\ requirements \subseteq requirements'
    BY <1>1 DEF TransferNext, FindLink, FindSettlement, Project, CommitTransfer,
                RollBackTransfer, projected
  <1>2. ASSUME ListNext
        PROVE  issues \subseteq issues' /\ UNCHANGED transferVars
    BY <1>2 DEF ListNext, BeginRun, CommitRun
  <1>3. ASSUME Requesting \/ UNCHANGED vars
        PROVE  UNCHANGED issues /\ UNCHANGED transferVars
    BY <1>3, RequestLeavesRest DEF vars, history
  <1> QED  BY <1>1, <1>2, <1>3 DEF Next, Requesting, transferVars

LEMMA DocumentsStep ==
    ASSUME TypeInv, DocumentsInv, [Next]_vars
    PROVE  DocumentsInv'
  <1> USE DEF DocumentsInv
  <1>0. resolving \in [Resolvers -> Call]
    BY DEF TypeInv, TransferType
  \* Whatever is neither a new projection nor a new settlement.
  <1>1. ASSUME transfers' = transfers,
               \A c \in Resolvers : resolving'[c].step = "projected" => resolving'[c] = resolving[c]
        PROVE  DocumentsInv'
    <2>1. CallsValued'
      BY <1>1, StoredStays DEF CallsValued
    <2>2. CallsDocumented'
      BY <1>1, StoredStays DEF CallsDocumented
    <2>3. FeesValued'
      BY <1>1, StoredStays DEF FeesValued
    <2>4. GapsNoted'
      BY <1>1, StoredStays DEF GapsNoted
    <2> QED  BY <2>1, <2>2, <2>3, <2>4
  <1>2. ASSUME NEW c \in Resolvers, FindLink(c)
        PROVE  DocumentsInv'
    <2>1. PICK x \in TransferAsk :
              resolving' = [resolving EXCEPT ![c] =
                  [@ EXCEPT !.step = IF x.source < x.quantity THEN "done" ELSE "linked",
                            !.ask = x, !.started = clock + 1,
                            !.known = Identity(x) \in links]]
      BY <1>2, FindLinkCall DEF TypeInv
    <2>2. resolving'[c].step # "projected" /\ \A d \in Resolvers \ {c} : resolving'[d] = resolving[d]
      BY <1>0, <2>1 DEF Call
    <2> QED  BY <1>1, <1>2, <2>2 DEF FindLink
  <1>3. ASSUME NEW c \in Resolvers, FindSettlement(c) \/ RollBackTransfer(c)
        PROVE  DocumentsInv'
    <2>1. resolving' = [resolving EXCEPT ![c].step = "done"] /\ transfers' = transfers
      BY <1>3 DEF FindSettlement, RollBackTransfer
    <2>2. resolving'[c].step # "projected" /\ \A d \in Resolvers \ {c} : resolving'[d] = resolving[d]
      BY <1>0, <2>1 DEF Call
    <2> QED  BY <1>1, <2>1, <2>2
  <1>4. ASSUME NEW c \in Resolvers, Project(c)
        PROVE  DocumentsInv'
    <2> DEFINE x == resolving[c].ask
               new == Documented(x) \ lots
    <2>1. /\ resolving' = [resolving EXCEPT ![c] =
                [@ EXCEPT !.step = "projected", !.lots = new, !.fees = FeesOf(x) \ fees,
                          !.requirements = Valued(new, x), !.gaps = Gaps(x)]]
          /\ UNCHANGED <<transfers, lots, fees, requirements, issues>>
      BY <1>4 DEF Project, projected
    <2>2. /\ resolving'[c].ask = x /\ resolving'[c].lots = new
          /\ resolving'[c].fees = FeesOf(x) \ fees
          /\ resolving'[c].requirements = Valued(new, x)
          /\ resolving'[c].gaps = Gaps(x)
          /\ \A d \in Resolvers \ {c} : resolving'[d] = resolving[d]
      BY <1>0, <2>1 DEF Call
    <2>3. \A r \in FeesOf(x) : Fee(r) \in requirements \/ Fee(r) \in Valued(new, x)
      BY DEF Valued
    <2>4. Documented(x) \subseteq lots \cup new
      OBVIOUS
    <2> HIDE DEF x, new
    <2>5. CallsValued'
      BY <2>1, <2>2, <2>3 DEF CallsValued
    <2>6. CallsDocumented'
      BY <2>1, <2>2, <2>4 DEF CallsDocumented
    <2> QED  BY <2>1, <2>5, <2>6 DEF FeesValued, GapsNoted
  <1>5. ASSUME NEW c \in Resolvers, CommitTransfer(c)
        PROVE  DocumentsInv'
    <2> DEFINE call == resolving[c]
    <2>1. /\ transfers' = transfers \cup {Settlement(call.ask, clock)}
          /\ lots' = lots \cup call.lots /\ fees' = fees \cup call.fees
          /\ requirements' = requirements \cup call.requirements
          /\ issues' = issues \cup {Issue(call.started, raw, Gap) : raw \in call.gaps}
          /\ resolving' = [resolving EXCEPT ![c].step = "done"]
          /\ call.step = "projected"
      BY <1>5 DEF CommitTransfer
    <2>2. resolving'[c].step # "projected" /\ \A d \in Resolvers \ {c} : resolving'[d] = resolving[d]
      BY <1>0, <2>1 DEF Call
    <2>3. CallsValued'
      BY <2>2, StoredStays DEF CallsValued
    <2>4. CallsDocumented'
      BY <2>2, StoredStays DEF CallsDocumented
    <2>5. Settlement(call.ask, clock).link = Identity(call.ask)
      BY DEF Settlement
    <2>6. \A r \in FeesOf(Identity(call.ask)) : r \in fees' /\ Fee(r) \in requirements'
      BY <2>1, LinkDocuments DEF CallsValued
    <2>7. Documented(Identity(call.ask)) \subseteq lots'
      BY <2>1, LinkDocuments DEF CallsDocumented
    <2>8. \A r \in Gaps(Identity(call.ask)) : \E i \in issues' : i.raw = r /\ i.code = Gap
      <3>1. Gaps(Identity(call.ask)) \subseteq call.gaps
        BY <2>1, LinkDocuments DEF CallsDocumented
      <3>2. \A r \in call.gaps : /\ Issue(call.started, r, Gap) \in issues'
                                 /\ Issue(call.started, r, Gap).raw = r
                                 /\ Issue(call.started, r, Gap).code = Gap
        BY <2>1 DEF Issue
      <3> QED  BY <3>1, <3>2
    <2> HIDE DEF call
    <2>9. FeesValued'
      BY <2>1, <2>5, <2>6, StoredStays DEF FeesValued
    <2>10. GapsNoted'
      BY <2>1, <2>5, <2>7, <2>8, StoredStays DEF GapsNoted
    <2> QED  BY <2>3, <2>4, <2>9, <2>10
  <1>6. CASE Transferring
    BY <1>2, <1>3, <1>4, <1>5, <1>6 DEF Transferring, TransferNext
  <1>7. CASE Listing \/ Requesting \/ UNCHANGED vars
    <2>1. UNCHANGED transferVars
      BY <1>7, RequestLeavesRest DEF Listing, ListNext, BeginRun, CommitRun, vars
    <2>2. UNCHANGED <<transfers, resolving>>
      BY <2>1 DEF transferVars
    <2> QED  BY <1>1, <2>2
  <1> QED  BY <1>6, <1>7 DEF Next, Transferring, Listing, Requesting

\* Every row that a call of resolve, a run or a request refers to is there, and what it
\* has read of the rows is still so: the strengthening FeesValued and
\* BasisCoveredOrListed need.
THEOREM DocumentsInductive == Spec => [](RunsBegun /\ DocumentsInv)
  <1> QED  BY InitTypes, InitDocuments, TypeStep, BegunStep, DocumentsStep, PTL DEF Spec

\* Every fee of a settled transfer, the records' own and the transfer's, is stored and
\* has a valuation requirement, however calls of resolve overlap.
THEOREM FeesAreValued == Spec => []FeesValued
  <1>1. DocumentsInv => FeesValued
    BY DEF DocumentsInv
  <1> QED  BY <1>1, DocumentsInductive, PTL

LEMMA RepresentativeOfIssue ==
    ASSUME HistoryType, RunsBegun, NEW i \in issues
    PROVE  \E j \in issues : j.raw = i.raw /\ j.code = i.code /\ Representative(j)
  <1> DEFINE J == {j \in issues : j.raw = i.raw /\ j.code = i.code}
             S == {j.run : j \in J}
  <1>1. S \in SUBSET Nat /\ S # {} /\ clock \in Nat /\ \A s \in S : s <= clock
    BY DEF RunsBegun, HistoryType
  <1>2. Max(S) \in S /\ \A s \in S : s <= Max(S)
    BY <1>1, GreatestNatural
  <1>3. PICK j \in J : j.run = Max(S)
    BY <1>2
  <1>4. \A k \in J : k.run <= j.run
    BY <1>2, <1>3
  <1> QED  BY <1>3, <1>4 DEF Representative

LEMMA GapsOrCovered ==
    ASSUME TypeInv, RunsBegun, DocumentsInv
    PROVE  BasisCoveredOrListed
  <1> SUFFICES ASSUME NEW t \in transfers
               PROVE  \/ Acquired(t.link) = {}
                      \/ Acquired(t.link) \subseteq lots /\ Quantity(Acquired(t.link)) >= t.link.source
                      \/ \E i \in ActiveIssues : /\ i.code = Gap
                                                 /\ i.raw \in t.link.sources \cup {GapRecord(t.link)}
    BY DEF BasisCoveredOrListed, Quantity
  <1>1. PICK x \in TransferAsk : t.link = Identity(x)
    BY DEF TypeInv, TransferType, SettlementRow, LinkRow
  <1> HIDE <1>1
  <1>2. /\ Acquired(t.link) = Acquired(x) /\ Documented(t.link) = Documented(x)
        /\ Gaps(t.link) = Gaps(x) /\ t.link.source = x.source
        /\ t.link.sources = x.sources /\ GapRecord(t.link) = GapRecord(x)
    BY <1>1, LinkDocuments
  <1>3. CASE Gaps(x) # {}
    <2>1. PICK r \in Gaps(x) : TRUE
      BY <1>3
    <2>2. PICK i \in issues : i.raw = r /\ i.code = Gap
      BY <1>2, <2>1 DEF DocumentsInv, GapsNoted
    <2>3. PICK j \in issues : j.raw = r /\ j.code = Gap /\ Representative(j)
      BY <2>2, RepresentativeOfIssue DEF TypeInv
    <2>4. j \in ActiveIssues
      BY <2>3 DEF ActiveIssues
    <2>5. r \in x.sources \cup {GapRecord(x)}
      BY <2>1, GapsAreRecords
    <2> QED  BY <1>2, <2>3, <2>4, <2>5
  <1>4. CASE Gaps(x) = {} /\ Acquired(x) # {}
    <2>1. Documented(x) = Acquired(x)
      BY <1>4, DocumentsAreRows DEF Gaps
    <2>2. Acquired(x) \subseteq lots
      BY <1>2, <2>1 DEF DocumentsInv, GapsNoted
    <2>3. PICK r \in Documented(x) : Row[r].quantity > 0
      BY <1>4, <2>1 DEF Documented
    <2>4. DocumentedQuantity(x) \in Nat /\ DocumentedQuantity(x) > 0
      <3>1. DocumentedQuantity(x) \in Nat /\ Row[r].quantity <= DocumentedQuantity(x)
        BY <2>3, DocumentsAreRows
      <3>2. Row[r].quantity \in Nat
        BY <2>3, DocumentsAreRows
      <3> QED  BY <2>3, <3>1, <3>2
    <2>5. DocumentedQuantity(x) \notin 1 .. x.source - 1
      BY <1>4 DEF Gaps
    <2>6. DocumentedQuantity(x) >= x.source
      BY <2>4, <2>5
    <2>7. DocumentedQuantity(x) = Quantity(Acquired(x))
      BY <2>1, DocumentsAreRows
    <2> QED  BY <1>2, <2>2, <2>6, <2>7
  <1> QED  BY <1>2, <1>3, <1>4

\* The acquisitions behind a transfer are lots that cover it, or the gap they leave
\* stays on the list of reviews, for any transfers, runs and decisions.
THEOREM BasisAlwaysCoveredOrListed == Spec => []BasisCoveredOrListed
  <1> QED  BY ReviewTypeCorrect, DocumentsInductive, GapsOrCovered, PTL
-----------------------------------------------------------------------------
(* Settled deposits.                                                       *)

SettledInv == RunsKnowSettled /\ DecisionsKnowSettled

SinceOf(raw) == {t.since : t \in {u \in transfers : u.link \in LinksTo(raw)}}

\* When a deposit was settled: after everything that was settled about it.
LEMMA SettledAfterAll ==
    ASSUME HistoryType, RunsBegun, NEW raw, Settled(raw)
    PROVE  /\ SettledSince(raw) \in 1 .. clock
           /\ \A t \in transfers : t.link \in LinksTo(raw) => t.since <= SettledSince(raw)
  <1>1. SinceOf(raw) \in SUBSET Nat /\ clock \in Nat /\ \A s \in SinceOf(raw) : s \in 1 .. clock
    BY DEF SinceOf, RunsBegun, HistoryType
  <1>2. SinceOf(raw) # {}
    BY DEF Settled, SettlesDeposit, SinceOf
  <1>3. Max(SinceOf(raw)) \in SinceOf(raw) /\ \A s \in SinceOf(raw) : s <= Max(SinceOf(raw))
    <2>1. \A s \in SinceOf(raw) : s <= clock
      BY <1>1
    <2> QED  BY <1>1, <1>2, <2>1, GreatestNatural
  <1>4. SettledSince(raw) = Max(SinceOf(raw))
    BY DEF SettledSince, SinceOf
  <1> QED  BY <1>1, <1>3, <1>4 DEF SinceOf

LEMMA SettledSame ==
    ASSUME UNCHANGED <<links, transfers>>, NEW raw
    PROVE  /\ LinksTo(raw)' = LinksTo(raw) /\ (Settled(raw)' <=> Settled(raw))
           /\ SettledSince(raw)' = SettledSince(raw)
  BY DEF LinksTo, Settled, SettlesDeposit, SettledSince

\* A transfer that is committed settles its deposit now, and leaves the others alone.
LEMMA CommitSettles ==
    ASSUME HistoryType, HistoryType', RunsBegun', NEW c \in Resolvers, CommitTransfer(c),
           NEW raw, Settled(raw)'
    PROVE  \/ SettledSince(raw)' >= clock /\ SettledSince(raw)' \in Nat
           \/ Settled(raw) /\ SettledSince(raw)' = SettledSince(raw)
  <1> DEFINE l == Identity(resolving[c].ask)
             t == Settlement(resolving[c].ask, clock)
  <1>1. /\ links' = links \cup {l} /\ transfers' = transfers \cup {t}
        /\ t.link = l /\ t.since = clock
    BY DEF CommitTransfer, Settlement
  <1> HIDE DEF l, t
  <1>2. CASE l \in LinksTo(raw)'
    <2>1. SinceOf(raw)' \in SUBSET Nat /\ clock' \in Nat /\ \A s \in SinceOf(raw)' : s <= clock'
      BY DEF SinceOf, RunsBegun, HistoryType
    <2>2. clock \in SinceOf(raw)'
      BY <1>1, <1>2 DEF SinceOf
    <2>3. Max(SinceOf(raw)') \in SinceOf(raw)' /\ \A s \in SinceOf(raw)' : s <= Max(SinceOf(raw)')
      BY <2>1, <2>2, GreatestNatural
    <2>4. SettledSince(raw)' = Max(SinceOf(raw)')
      BY DEF SettledSince, SinceOf
    <2> QED  BY <2>1, <2>2, <2>3, <2>4
  <1>3. CASE l \notin LinksTo(raw)'
    <2>1. LinksTo(raw)' = LinksTo(raw)
      BY <1>1, <1>3 DEF LinksTo
    <2>2. {u \in transfers' : u.link \in LinksTo(raw)'} = {u \in transfers : u.link \in LinksTo(raw)}
      BY <1>1, <1>3, <2>1
    <2>3. SettledSince(raw)' = SettledSince(raw)
      BY <2>2 DEF SettledSince
    <2>4. \A k \in LinksTo(raw) : SettlesDeposit(k)' => SettlesDeposit(k)
      BY <1>1, <1>3, <2>1 DEF SettlesDeposit
    <2> QED  BY <2>1, <2>3, <2>4 DEF Settled
  <1> QED  BY <1>2, <1>3

LEMMA SettledStep ==
    ASSUME TypeInv, TypeInv', RunsBegun, RunsBegun', SettledInv, [Next]_vars
    PROVE  SettledInv'
  <1>0. /\ HistoryType /\ HistoryType' /\ runs \in [Runs -> RunRow]
        /\ decisions \subseteq DecisionRow
    BY DEF TypeInv, ListType
  <1>1. ASSUME UNCHANGED <<links, transfers, decisions, runs>>
        PROVE  SettledInv'
    BY <1>1, SettledSame DEF SettledInv, RunsKnowSettled, DecisionsKnowSettled
  <1>2. ASSUME NEW c \in Resolvers, CommitTransfer(c), UNCHANGED listVars
        PROVE  SettledInv'
    <2>1. UNCHANGED <<decisions, runs, clock>>
      BY <1>2 DEF listVars, CommitTransfer
    <2>2. ASSUME NEW raw \in DOMAIN Ledger, NEW n \in Nat, n <= clock,
                 Settled(raw)', SettledSince(raw)' < n
          PROVE  Settled(raw) /\ SettledSince(raw) < n
      <3>1. \/ SettledSince(raw)' >= clock /\ SettledSince(raw)' \in Nat
            \/ Settled(raw) /\ SettledSince(raw)' = SettledSince(raw)
        BY <1>0, <1>2, <2>2, CommitSettles
      <3> QED  BY <1>0, <2>2, <3>1 DEF HistoryType
    <2>3. RunsKnowSettled'
      <3>1. \A t \in Runs : runs[t].started \in Nat /\ runs[t].started <= clock
        BY <1>0 DEF RunRow, RunsBegun
      <3> QED  BY <2>1, <2>2, <3>1 DEF SettledInv, RunsKnowSettled
    <2>4. DecisionsKnowSettled'
      <3>1. \A d \in decisions : d.run \in Nat /\ d.run <= clock
        BY <1>0 DEF RunsBegun, HistoryType
      <3> QED  BY <2>1, <2>2, <3>1 DEF SettledInv, DecisionsKnowSettled
    <2> QED  BY <2>3, <2>4 DEF SettledInv
  <1>3. ASSUME NEW t \in Runs, BeginRun(t)
        PROVE  SettledInv'
    <2>1. PICK last \in [Counted -> links] :
              /\ \A r \in Counted : last[r] \in LinksTo(r)
              /\ runs' = [runs EXCEPT ![t] =
                    [step |-> "begun", started |-> clock + 1,
                     settled |-> {r \in Counted : SettlesDeposit(last[r])}]]
      BY <1>3 DEF BeginRun
    <2>2. UNCHANGED <<links, transfers, decisions>>
      BY <1>3 DEF BeginRun, transferVars
    <2>3. DecisionsKnowSettled'
      BY <2>2, SettledSame DEF SettledInv, DecisionsKnowSettled
    <2>4. \A raw \in DOMAIN Ledger : Settled(raw) => raw \in runs'[t].settled
      <3>1. runs'[t].settled = {r \in Counted : SettlesDeposit(last[r])}
        BY <1>0, <2>1
      <3> QED  BY <2>1, <3>1 DEF Settled, Counted
    <2>5. \A u \in Runs \ {t} : runs'[u] = runs[u]
      BY <1>0, <2>1
    <2>6. RunsKnowSettled'
      BY <2>2, <2>4, <2>5, SettledSame DEF SettledInv, RunsKnowSettled
    <2> QED  BY <2>3, <2>6 DEF SettledInv
  <1>4. ASSUME NEW t \in Runs, CommitRun(t)
        PROVE  SettledInv'
    <2> DEFINE reviewed == Reviewed(runs[t].settled)
    <2>1. /\ decisions' = decisions \cup
                {Decision(runs[t].started, r, IF r \in reviewed THEN ReviewCode(r) ELSE None) :
                    r \in DOMAIN Ledger}
          /\ runs' = [runs EXCEPT ![t].step = "done"]
          /\ UNCHANGED <<links, transfers>>
          /\ runs[t].step = "begun"
      BY <1>4 DEF CommitRun, transferVars
    <2>2. \A u \in Runs : /\ runs'[u].step = "begun" => runs[u].step = "begun"
                          /\ runs'[u].started = runs[u].started
                          /\ runs'[u].settled = runs[u].settled
      BY <1>0, <2>1 DEF RunRow
    <2>3. RunsKnowSettled'
      BY <2>1, <2>2, SettledSame DEF SettledInv, RunsKnowSettled
    <2>4. ASSUME NEW d \in decisions', NEW raw \in DOMAIN Ledger,
                 d.raw = raw, Settled(raw), SettledSince(raw) < d.run
          PROVE  d.code = None
      <3>1. CASE d \in decisions
        BY <2>4, <3>1 DEF SettledInv, DecisionsKnowSettled
      <3>2. CASE d \notin decisions
        <4>1. PICK r \in DOMAIN Ledger :
                  d = Decision(runs[t].started, r, IF r \in reviewed THEN ReviewCode(r) ELSE None)
          BY <2>1, <3>2
        <4>2. d.raw = r /\ d.run = runs[t].started
          BY <4>1 DEF Decision
        <4>3. raw \in runs[t].settled
          BY <2>1, <2>4, <4>2 DEF SettledInv, RunsKnowSettled
        <4>4. r \notin reviewed
          BY <2>4, <4>2, <4>3 DEF Reviewed
        <4> QED  BY <4>1, <4>4 DEF Decision
      <3> QED  BY <3>1, <3>2
    <2>5. DecisionsKnowSettled'
      BY <2>1, <2>4, SettledSame DEF DecisionsKnowSettled
    <2> QED  BY <2>3, <2>5 DEF SettledInv
  <1>5. CASE Transferring
    <2>1. UNCHANGED <<decisions, runs>> /\ UNCHANGED listVars
      BY <1>5 DEF Transferring, listVars
    <2> QED  BY <1>1, <1>2, <1>5, <2>1
             DEF Transferring, TransferNext, FindLink, FindSettlement, Project, RollBackTransfer
  <1>6. CASE Listing
    BY <1>3, <1>4, <1>6 DEF Listing, ListNext
  <1>7. CASE Requesting \/ UNCHANGED vars
    BY <1>1, <1>7, RequestLeavesRest DEF vars, transferVars, listVars
  <1> QED  BY <1>5, <1>6, <1>7 DEF Next, Transferring, Listing, Requesting

LEMMA InitSettled == Init => SettledInv
  <1> SUFFICES ASSUME Init PROVE SettledInv
    OBVIOUS
  <1>1. links = {} /\ \A t \in Runs : runs[t].step # "begun"
    BY DEF Init, ListInit, TransferInit
  <1>2. \A raw : ~Settled(raw)
    BY <1>1 DEF Settled, LinksTo
  <1> QED  BY <1>1, <1>2 DEF SettledInv, RunsKnowSettled, DecisionsKnowSettled

LEMMA SettledNotListed ==
    ASSUME TypeInv, RunsBegun, SettledInv
    PROVE  SettledDepositNotReviewed
  <1> SUFFICES ASSUME NEW raw \in DOMAIN Ledger, Settled(raw),
                      NEW d \in DecisionsOn(raw), d.run > SettledSince(raw),
                      NEW i \in ActiveIssues, i.raw = raw, i.code # Gap
               PROVE  FALSE
    BY DEF SettledDepositNotReviewed
  <1>1. i \in issues /\ i.code # None
    BY DEF ActiveIssues, TypeInv, HistoryType, IssueRow
  <1>2. PICK e \in Latest(raw) : e.code = i.code
    BY DEF ActiveIssues, Upheld
  <1>3. e \in decisions /\ e.raw = raw /\ d.run <= e.run
    BY <1>2 DEF Latest, DecisionsOn
  <1>4. SettledSince(raw) \in Nat /\ e.run \in Nat /\ d.run \in Nat
    <2>1. SettledSince(raw) \in 1 .. clock /\ clock \in Nat
      BY SettledAfterAll DEF TypeInv, HistoryType
    <2>2. e \in DecisionRow /\ d \in DecisionRow
      BY <1>3 DEF TypeInv, ListType, DecisionsOn
    <2> QED  BY <2>1, <2>2 DEF DecisionRow
  <1>5. SettledSince(raw) < e.run
    BY <1>3, <1>4
  <1>6. e.code = None
    BY <1>3, <1>5 DEF SettledInv, DecisionsKnowSettled
  <1> QED  BY <1>1, <1>2, <1>6

\* What a run has read of settled deposits, and what decisions remember of the run
\* before them, stays true whatever is settled meanwhile.
THEOREM SettledInductive == Spec => []SettledInv
  <1> QED  BY InitTypes, InitDocuments, InitSettled, TypeStep, BegunStep, SettledStep, PTL DEF Spec

\* Once a run that began after a deposit was settled has committed, no issue but a gap
\* of its cost basis lists the deposit, in whatever order runs begin and commit.
THEOREM SettledNeverReviewed == Spec => []SettledDepositNotReviewed
  <1> QED  BY ReviewTypeCorrect, DocumentsInductive, SettledInductive, SettledNotListed, PTL
-----------------------------------------------------------------------------
(* Decisions.                                                              *)

DecisionInv ==
    /\ DecidedIsCandidate /\ KeysUnique /\ AloneInv
    /\ ConfirmedOnce /\ RejectedNotConfirmed

LEMMA InitDecided == Init => DecisionInv
  <1> SUFFICES ASSUME Init PROVE DecisionInv
    OBVIOUS
  <1>1. \A q \in Requests : step[q] \in {"idle", "done"}
    BY DEF Init
  <1>2. suggestions = {} /\ resolutions = {}
    BY DEF Init
  <1>3. DecidedIsCandidate
    BY <1>1 DEF DecidedIsCandidate, Requests
  <1>4. KeysUnique
    BY <1>1, <1>2 DEF KeysUnique, Requests
  <1>5. OneAtATime /\ ReadingHolds
    BY <1>1 DEF OneAtATime, ReadingHolds, Active, Requests
  <1> QED  BY <1>2, <1>3, <1>4, <1>5
           DEF DecisionInv, AloneInv, ConfirmedOnce, RejectedNotConfirmed

\* What is stored, where the next request finds it as it has read it.
LEMMA StepsOfOneRequest ==
    ASSUME RequestType, AloneInv, NEW q \in Requests, NEW to,
           step' = [step EXCEPT ![q] = to], UNCHANGED situation,
           Active(q) \/ Admitted
    PROVE  /\ \A p \in Requests \ {q} : step'[p] = step[p]
           /\ step'[q] = to
           /\ ~situation.overlap => OneAtATime'
           /\ ~situation.overlap => \A p \in Requests \ {q} : ~Active(p)
  <1>1. step' \in [Requests -> {"idle", "read", "suggestions", "decided", "done", to}]
    BY DEF RequestType
  <1>2. step'[q] = to /\ \A p \in Requests \ {q} : step'[p] = step[p]
    BY DEF RequestType
  <1>3. ASSUME ~situation.overlap
        PROVE  \A p \in Requests \ {q} : ~Active(p)
    BY <1>3 DEF AloneInv, OneAtATime, Admitted, Active
  <1>4. ASSUME ~situation.overlap
        PROVE  OneAtATime'
    BY <1>2, <1>3, <1>4 DEF OneAtATime, Active
  <1> QED  BY <1>2, <1>3, <1>4

LEMMA DecisionStep ==
    ASSUME TypeInv, DecisionInv, [Next]_vars
    PROVE  DecisionInv'
  <1>0. RequestType /\ suggestions \subseteq ReviewRow
    BY DEF TypeInv, RequestType
  <1> USE DEF DecisionInv
  <1>1. ASSUME NEW g \in Generators, ReadForSuggestions(g)
        PROVE  DecisionInv'
    <2>1. /\ step[g] = "idle" /\ Admitted /\ g \in Requests /\ g \notin Deciders
          /\ local' = [local EXCEPT ![g] =
                {s \in Proposals(ActiveIssues) : \A t \in suggestions : ~SameKey(s, t)}]
          /\ step' = [step EXCEPT ![g] = "read"]
          /\ UNCHANGED <<suggestions, resolutions, situation>>
      BY <1>1 DEF ReadForSuggestions, Requests, history
    <2>2. /\ \A p \in Requests \ {g} : step'[p] = step[p] /\ local'[p] = local[p]
          /\ ~situation.overlap => OneAtATime'
          /\ local'[g] \subseteq Proposals(ActiveIssues)
      BY <1>0, <2>1, StepsOfOneRequest DEF RequestType
    <2>3. \A d \in Deciders : step'[d] = step[d] /\ local'[d] = local[d]
      BY <2>1, <2>2 DEF Requests
    <2>4. DecidedIsCandidate'
      BY <2>3 DEF DecidedIsCandidate
    <2>5. KeysUnique'
      <3>1. ActiveIssues \in SUBSET IssueRow
        BY DEF ActiveIssues, TypeInv, HistoryType
      <3>2. /\ \A s \in local'[g] : s.by = None
            /\ \A s, t \in local'[g] : SameKey(s, t) => s = t
        BY <2>2, <3>1, ProposalKeys
      <3> QED  BY <2>1, <2>2, <3>2 DEF KeysUnique, Requests
    <2>6. AloneInv'
      <3>1. ASSUME ~situation.overlap
            PROVE  ReadingHolds'
        <4>1. ReadingHolds
          BY <3>1 DEF AloneInv
        <4>2. ASSUME NEW d \in Deciders
              PROVE  /\ RejectedOn(local[d].ask.records)' = RejectedOn(local[d].ask.records)
                     /\ Undecided(local[d])' <=> Undecided(local[d])
                     /\ MayReject(local[d])' <=> MayReject(local[d])
                     /\ MayConfirm(local[d])' <=> MayConfirm(local[d])
          <5>1. local'[d] = local[d]
            BY <2>3
          <5> QED  BY <2>1, <5>1 DEF RejectedOn, Undecided, Overlapping, MayReject, MayConfirm
        <4> SUFFICES ASSUME NEW d \in Deciders, step'[d] \in {"suggestions", "decided"}
                     PROVE  /\ local'[d].suggestion # None =>
                                  /\ local'[d].suggestion \in suggestions'
                                  /\ local'[d].suggestion.records = local'[d].ask.records
                            /\ local'[d].rejected = None => RejectedOn(local[d].ask.records)' = {}
                            /\ step'[d] = "decided" =>
                                  Undecided(local[d])' /\ (MayReject(local[d])' \/ MayConfirm(local[d])')
          BY DEF ReadingHolds
        <4>3. local'[d] = local[d] /\ step'[d] = step[d] /\ suggestions' = suggestions
          BY <2>1, <2>3
        <4> HIDE <2>1, <2>3
        <4> QED  BY <4>1, <4>2, <4>3 DEF ReadingHolds
      <3> QED  BY <2>1, <2>2, <3>1 DEF AloneInv
    <2> QED  BY <2>1, <2>4, <2>5, <2>6 DEF ConfirmedOnce, RejectedNotConfirmed
  <1>2. ASSUME NEW g \in Generators, CommitSuggestions(g)
        PROVE  DecisionInv'
    <2>1. /\ step[g] = "read" /\ g \in Requests /\ g \notin Deciders
          /\ step' = [step EXCEPT ![g] = "done"]
          /\ UNCHANGED <<resolutions, local, situation>>
          /\ \/ suggestions' = suggestions
             \/ /\ suggestions' = suggestions \cup local[g]
                /\ \A s \in local[g], t \in suggestions : ~SameKey(s, t)
      BY <1>2 DEF CommitSuggestions, Requests, history
    <2>2. /\ \A p \in Requests \ {g} : step'[p] = step[p]
          /\ step'[g] = "done"
          /\ ~situation.overlap => OneAtATime'
          /\ ~situation.overlap => \A p \in Requests \ {g} : ~Active(p)
      BY <1>0, <2>1, StepsOfOneRequest DEF Active
    <2>3. DecidedIsCandidate'
      BY <2>1, <2>2 DEF DecidedIsCandidate, Requests
    <2>4. KeysUnique'
      <3>1. \A s, t : SameKey(s, t) <=> SameKey(t, s)
        BY DEF SameKey
      <3>2. \A s, t \in suggestions' : SameKey(s, t) => s = t
        BY <2>1, <3>1 DEF KeysUnique
      <3>3. \A h \in Generators : step'[h] = "read" => step[h] = "read"
        BY <2>2 DEF Requests
      <3> QED  BY <2>1, <3>2, <3>3 DEF KeysUnique
    <2>5. AloneInv'
      <3>1. ASSUME ~situation.overlap
            PROVE  ReadingHolds'
        BY <2>1, <2>2, <3>1 DEF ReadingHolds, Active, Requests
      <3> QED  BY <2>1, <2>2, <3>1 DEF AloneInv
    <2>6. RejectedNotConfirmed'
      BY <2>1 DEF RejectedNotConfirmed, KeysUnique
    <2> QED  BY <2>1, <2>3, <2>4, <2>5, <2>6 DEF ConfirmedOnce
  <1>3. ASSUME NEW d \in Deciders, ReadSuggestions(d)
        PROVE  DecisionInv'
    <2>1. /\ step[d] = "idle" /\ Admitted /\ d \in Requests /\ d \notin Generators
          /\ step' = [step EXCEPT ![d] = "suggestions"]
          /\ UNCHANGED <<suggestions, resolutions, situation>>
      BY <1>3 DEF ReadSuggestions, Requests, history
    <2>2. PICK l \in Reading :
              /\ local' = [local EXCEPT ![d] = l]
              /\ l.suggestion \in AnyOf(Matching(l.ask))
              /\ l.rejected \in AnyOf(RejectedOn(l.ask.records))
      BY <1>3, ReadSuggestionsReads
    <2>3. /\ \A p \in Requests \ {d} : step'[p] = step[p] /\ local'[p] = local[p]
          /\ ~situation.overlap => OneAtATime'
          /\ ~situation.overlap => \A p \in Requests \ {d} : ~Active(p)
          /\ local'[d] = l /\ step'[d] = "suggestions"
      BY <1>0, <2>1, <2>2, StepsOfOneRequest DEF RequestType
    <2>4. DecidedIsCandidate'
      BY <2>3 DEF DecidedIsCandidate, Requests
    <2>5. KeysUnique'
      BY <2>1, <2>3 DEF KeysUnique, Requests
    <2>6. ASSUME ~situation.overlap
          PROVE  ReadingHolds'
      <3>1. l.suggestion # None =>
                l.suggestion \in suggestions /\ l.suggestion.records = l.ask.records
        BY <2>2 DEF AnyOf, Matching
      <3>2. l.rejected = None => RejectedOn(l.ask.records) = {}
        <4>1. None \notin RejectedOn(l.ask.records)
          BY <1>0 DEF RejectedOn
        <4> QED  BY <2>2, <4>1 DEF AnyOf
      <3>3. RejectedOn(local[d].ask.records)' = RejectedOn(l.ask.records)
        BY <2>1, <2>3 DEF RejectedOn
      <3>4. ASSUME NEW e \in Deciders, step'[e] \in {"suggestions", "decided"}
            PROVE  e = d
        BY <2>3, <2>6, <3>4 DEF Active, Requests
      <3>5. /\ local'[d].suggestion # None =>
                  /\ local'[d].suggestion \in suggestions'
                  /\ local'[d].suggestion.records = local'[d].ask.records
            /\ local'[d].rejected = None => RejectedOn(local[d].ask.records)' = {}
            /\ step'[d] # "decided"
        BY <2>1, <2>3, <3>1, <3>2, <3>3
      <3> QED  BY <3>4, <3>5 DEF ReadingHolds
    <2>7. AloneInv'
      BY <2>1, <2>3, <2>6 DEF AloneInv
    <2> QED  BY <2>1, <2>4, <2>5, <2>7 DEF ConfirmedOnce, RejectedNotConfirmed
  <1>4. ASSUME NEW d \in Deciders, ReadResolutions(d)
        PROVE  DecisionInv'
    <2> DEFINE to == IF /\ Undecided(local[d])
                        /\ MayReject(local[d]) \/ MayConfirm(local[d]) THEN "decided" ELSE "done"
    <2>1. /\ step[d] = "suggestions" /\ d \in Requests /\ d \notin Generators
          /\ step' = [step EXCEPT ![d] = to]
          /\ UNCHANGED <<suggestions, resolutions, local, situation>>
      BY <1>4 DEF ReadResolutions, Requests, history
    <2>2. to = "decided" => Undecided(local[d]) /\ (MayReject(local[d]) \/ MayConfirm(local[d]))
      OBVIOUS
    <2>3. to \in {"decided", "done"}
      OBVIOUS
    <2> HIDE DEF to
    <2>4. /\ \A p \in Requests \ {d} : step'[p] = step[p]
          /\ step'[d] = to
          /\ ~situation.overlap => OneAtATime'
      BY <1>0, <2>1, StepsOfOneRequest DEF Active
    <2>5. DecidedIsCandidate'
      <3>1. to = "decided" /\ local[d].ask.status = "confirmed" => MayConfirm(local[d])
        BY <2>2 DEF MayReject
      <3> QED  BY <2>1, <2>4, <3>1 DEF DecidedIsCandidate, MayConfirm, Requests
    <2>6. KeysUnique'
      BY <2>1, <2>4 DEF KeysUnique, Requests
    <2>7. ASSUME ~situation.overlap
          PROVE  ReadingHolds'
      <3>1. ReadingHolds
        BY <2>7 DEF AloneInv
      <3> SUFFICES ASSUME NEW e \in Deciders, step'[e] \in {"suggestions", "decided"}
                   PROVE  /\ local[e].suggestion # None =>
                                /\ local[e].suggestion \in suggestions
                                /\ local[e].suggestion.records = local[e].ask.records
                          /\ local[e].rejected = None => RejectedOn(local[e].ask.records) = {}
                          /\ step'[e] = "decided" =>
                                /\ Undecided(local[e])
                                /\ MayReject(local[e]) \/ MayConfirm(local[e])
        BY <2>1 DEF ReadingHolds, RejectedOn, Undecided, Overlapping, MayReject, MayConfirm
      <3>2. e \in Requests
        BY DEF Requests
      <3>3. CASE e = d
        BY <2>1, <2>2, <2>3, <2>4, <3>1, <3>3 DEF ReadingHolds
      <3>4. CASE e # d
        BY <2>4, <3>1, <3>2, <3>4 DEF ReadingHolds
      <3> QED  BY <3>3, <3>4
    <2>8. AloneInv'
      BY <2>1, <2>4, <2>7 DEF AloneInv
    <2> QED  BY <2>1, <2>5, <2>6, <2>8 DEF ConfirmedOnce, RejectedNotConfirmed
  <1>5. ASSUME NEW d \in Deciders, Reject(d)
        PROVE  DecisionInv'
    <2> DEFINE l == local[d]
               Mark(s) == IF SameKey(s, l.suggestion) THEN [s EXCEPT !.by = l.ask.by] ELSE s
    <2>1. /\ step[d] = "decided" /\ l.ask.status = "rejected"
          /\ d \in Requests /\ d \notin Generators
          /\ suggestions' = {Mark(s) : s \in suggestions}
          /\ step' = [step EXCEPT ![d] = "done"]
          /\ UNCHANGED <<resolutions, local, situation>>
      BY <1>5 DEF Reject, Requests, history
    <2>2. /\ \A p \in Requests \ {d} : step'[p] = step[p]
          /\ step'[d] = "done"
          /\ ~situation.overlap => OneAtATime'
          /\ ~situation.overlap => \A p \in Requests \ {d} : ~Active(p)
      BY <1>0, <2>1, StepsOfOneRequest DEF Active
    <2>3. \A s \in ReviewRow : /\ Mark(s).issue = s.issue /\ Mark(s).type = s.type
                               /\ Mark(s).records = s.records
                               /\ ~SameKey(s, l.suggestion) => Mark(s) = s
      BY DEF ReviewRow
    <2> HIDE DEF Mark
    <2>4. DecidedIsCandidate'
      BY <2>1, <2>2 DEF DecidedIsCandidate, Requests
    <2>5. KeysUnique'
      <3>1. \A s, t \in suggestions' : SameKey(s, t) => s = t
        <4> SUFFICES ASSUME NEW s \in suggestions, NEW t \in suggestions, SameKey(Mark(s), Mark(t))
                     PROVE  s = t
          BY <2>1
        <4>1. SameKey(s, t)
          BY <1>0, <2>3 DEF SameKey
        <4> QED  BY <4>1 DEF KeysUnique
      <3> QED  BY <2>1, <2>2, <3>1 DEF KeysUnique, Requests
    <2>6. AloneInv'
      <3>1. ASSUME ~situation.overlap
            PROVE  ReadingHolds'
        BY <2>2, <3>1 DEF ReadingHolds, Active, Requests
      <3> QED  BY <2>1, <2>2, <3>1 DEF AloneInv
    <2>7. RejectedNotConfirmed'
      <3> SUFFICES ASSUME ~situation.overlap, NEW s \in suggestions, NEW r \in resolutions,
                          Mark(s).by # None
                   PROVE  Mark(s).records \cap r.records = {}
        BY <2>1 DEF RejectedNotConfirmed
      <3>1. /\ l.suggestion # None => /\ l.suggestion \in suggestions
                                      /\ l.suggestion.records = l.ask.records
            /\ Undecided(l) /\ (MayReject(l) \/ MayConfirm(l))
        BY <2>1 DEF AloneInv, ReadingHolds
      <3>2. l.suggestion # None
        BY <2>1, <3>1 DEF MayReject, MayConfirm
      <3>3. CASE SameKey(s, l.suggestion)
        <4>1. s.records = l.ask.records
          BY <3>1, <3>2, <3>3 DEF KeysUnique
        <4>2. r.records \cap l.ask.records = {}
          BY <3>1 DEF Undecided, Overlapping
        <4> QED  BY <1>0, <2>3, <4>1, <4>2
      <3>4. CASE ~SameKey(s, l.suggestion)
        <4>1. Mark(s) = s
          BY <1>0, <2>3, <3>4
        <4> QED  BY <4>1 DEF RejectedNotConfirmed
      <3> QED  BY <3>3, <3>4
    <2> QED  BY <2>1, <2>4, <2>5, <2>6, <2>7 DEF ConfirmedOnce
  <1>6. ASSUME NEW d \in Deciders, Confirm(d)
        PROVE  DecisionInv'
    <2> DEFINE l == local[d]
               r == Resolution(l.issue, l.ask.type, l.ask.records, l.ask.by)
    <2>1. /\ step[d] = "decided" /\ l.ask.status = "confirmed"
          /\ d \in Requests /\ d \notin Generators
          /\ \/ resolutions' = resolutions
             \/ resolutions' = resolutions \cup {r} /\ ResolutionFree(r)
          /\ step' = [step EXCEPT ![d] = "done"]
          /\ UNCHANGED <<suggestions, local, situation>>
      BY <1>6 DEF Confirm, Requests, history
    <2>2. /\ \A p \in Requests \ {d} : step'[p] = step[p]
          /\ step'[d] = "done"
          /\ ~situation.overlap => OneAtATime'
          /\ ~situation.overlap => \A p \in Requests \ {d} : ~Active(p)
      BY <1>0, <2>1, StepsOfOneRequest DEF Active
    <2>3. r.type = l.ask.type /\ r.records = l.ask.records
      BY DEF Resolution
    <2>4. Candidate(l.ask.type, l.ask.records)
      BY <2>1 DEF DecidedIsCandidate
    <2> HIDE DEF r
    <2>5. DecidedIsCandidate'
      BY <2>1, <2>2 DEF DecidedIsCandidate, Requests
    <2>6. KeysUnique'
      BY <2>1, <2>2 DEF KeysUnique, Requests
    <2>7. AloneInv'
      <3>1. ASSUME ~situation.overlap
            PROVE  ReadingHolds'
        BY <2>2, <3>1 DEF ReadingHolds, Active, Requests
      <3> QED  BY <2>1, <2>2, <3>1 DEF AloneInv
    <2>8. ConfirmedOnce'
      <3>1. CASE resolutions' = resolutions
        BY <3>1 DEF ConfirmedOnce
      <3>2. CASE resolutions' = resolutions \cup {r} /\ ResolutionFree(r)
        <4>1. \A s \in resolutions : s.records \cap r.records = {}
          BY <3>2 DEF ResolutionFree
        <4> QED  BY <2>3, <2>4, <3>2, <4>1 DEF ConfirmedOnce
      <3> QED  BY <2>1, <3>1, <3>2
    <2>9. RejectedNotConfirmed'
      <3>1. ASSUME ~situation.overlap, NEW s \in suggestions, s.by # None
            PROVE  s.records \cap r.records = {}
        <4>1. RejectedOn(l.ask.records) = {}
          BY <2>1, <3>1 DEF AloneInv, ReadingHolds, Undecided
        <4> QED  BY <2>3, <3>1, <4>1 DEF RejectedOn
      <3> QED  BY <2>1, <3>1 DEF RejectedNotConfirmed
    <2> QED  BY <2>5, <2>6, <2>7, <2>8, <2>9
  <1>7. ASSUME UNCHANGED <<suggestions, resolutions, step, local, situation>>
        PROVE  DecisionInv'
    BY <1>7 DEF DecidedIsCandidate, KeysUnique, AloneInv, OneAtATime, Active, ReadingHolds,
                RejectedOn, Undecided, Overlapping, MayReject, MayConfirm, ConfirmedOnce,
                RejectedNotConfirmed
  <1>8. CASE Transferring
    BY <1>7, <1>8 DEF Transferring, TransferNext, FindLink, FindSettlement, Project,
                      CommitTransfer, RollBackTransfer, reviewVars
  <1>9. CASE Listing
    BY <1>7, <1>9 DEF Listing, ListNext, BeginRun, CommitRun, reviewVars
  <1>10. CASE UNCHANGED vars
    BY <1>7, <1>10 DEF vars, history, reviewVars
  <1>11. CASE Requesting
    BY <1>1, <1>2, <1>3, <1>4, <1>5, <1>6, <1>11 DEF Requesting
  <1> QED  BY <1>8, <1>9, <1>10, <1>11 DEF Next, Transferring, Listing, Requesting

\* Decisions are about candidates, at most one is confirmed per record, and what a
\* request has read is still so wherever requests do not overlap.
THEOREM DecisionsInductive == Spec => []DecisionInv
  <1> QED  BY InitTypes, InitDecided, TypeStep, DecisionStep, PTL DEF Spec

\* A record has at most one confirmed meaning and what is confirmed could have been
\* proposed, for any number of requests and in whatever order they read and commit.
THEOREM ConfirmedAtMostOnce == Spec => []ConfirmedOnce
  <1>1. DecisionInv => ConfirmedOnce
    BY DEF DecisionInv
  <1> QED  BY <1>1, DecisionsInductive, PTL

\* Where requests do not overlap, no record is both rejected and confirmed.
THEOREM RejectedNeverConfirmed == Spec => []RejectedNotConfirmed
  <1>1. DecisionInv => RejectedNotConfirmed
    BY DEF DecisionInv
  <1> QED  BY <1>1, DecisionsInductive, PTL
=============================================================================
