----------------------------- MODULE FifoProofs -----------------------------
(***************************************************************************)
(* Proofs about calculate_fifo for any lots, disposals, periods and any    *)
(* rounding: its types, that the oldest lot goes first, that a shortage is *)
(* real, that cost leaves the inventory with its quantity, that no amount  *)
(* is created or lost, that the parts are those of the reference           *)
(* definition in FifoReference, and that a simulated sale takes what this  *)
(* definition gives the next disposal.                                     *)
(***************************************************************************)
EXTENDS SalePlanner, SumProofs

-----------------------------------------------------------------------------
(* The order of lots and of disposals.                                     *)

\* Disposals and lots come in an order without ties.
LEMMA PrecedesIsTotal ==
    ASSUME NEW data, NEW S \in SUBSET Nat, \A x \in S : data[x].at \in Nat
    PROVE  \A x, y \in S :
              /\ Precedes(data, x, y) => ~Precedes(data, y, x) /\ x # y /\ data[x].at <= data[y].at
              /\ x = y \/ Precedes(data, x, y) \/ Precedes(data, y, x)
              /\ \A z \in S : Precedes(data, x, y) /\ Precedes(data, y, z) => Precedes(data, x, z)
  <1> SUFFICES ASSUME NEW x \in S, NEW y \in S
               PROVE  /\ Precedes(data, x, y) =>
                             ~Precedes(data, y, x) /\ x # y /\ data[x].at <= data[y].at
                      /\ x = y \/ Precedes(data, x, y) \/ Precedes(data, y, x)
                      /\ \A z \in S : Precedes(data, x, y) /\ Precedes(data, y, z)
                                         => Precedes(data, x, z)
    OBVIOUS
  <1>1. \A z \in S : z \in Nat /\ data[z].at \in Nat
    OBVIOUS
  <1> QED  BY <1>1 DEF Precedes

\* so that one of them is the last.
LEMMA LatestExists ==
    ASSUME NEW data, NEW S \in SUBSET Nat, \A x \in S : data[x].at \in Nat, IsFiniteSet(S)
    PROVE  \A T \in SUBSET S : T # {} =>
              \E d \in T : \A x \in T \ {d} : Precedes(data, x, d)
  <1> DEFINE Has(T) == \E d \in T : \A x \in T \ {d} : Precedes(data, x, d)
             N == {n \in Nat : \A T \in UpTo(S, n) : T # {} => Has(T)}
  <1>0. \A T \in SUBSET S : IsFiniteSet(T) /\ Cardinality(T) \in Nat
    BY FS_Subset, FS_CardinalityType
  <1>1. 0 \in N
    <2>1. \A T \in UpTo(S, 0) : T = {}
      BY <1>0, FS_EmptySet DEF UpTo
    <2> QED  BY <2>1
  <1>2. ASSUME NEW n \in N
        PROVE  n + 1 \in N
    <2>0. n \in Nat
      OBVIOUS
    <2> SUFFICES ASSUME NEW T \in UpTo(S, n + 1), T # {} PROVE Has(T)
      BY <2>0
    <2> DEFINE y == Some(T)
    <2>1. y \in T /\ T \ {y} \in UpTo(S, n) /\ T \in SUBSET S
      BY <2>0, SomeIn, SmallerBelow DEF UpTo
    <2> HIDE DEF y
    <2>2. CASE T \ {y} = {}
      BY <2>1, <2>2
    <2>3. CASE T \ {y} # {}
      <3>1. PICK z \in T \ {y} : \A x \in (T \ {y}) \ {z} : Precedes(data, x, z)
        BY <2>1, <2>3
      <3>2. \A x, w \in S : x = w \/ Precedes(data, x, w) \/ Precedes(data, w, x)
        BY PrecedesIsTotal
      <3>3. \A x, w, u \in S : Precedes(data, x, w) /\ Precedes(data, w, u) => Precedes(data, x, u)
        BY PrecedesIsTotal
      <3>4. CASE Precedes(data, y, z)
        BY <3>1, <3>4
      <3>5. CASE Precedes(data, z, y)
        <4>1. \A x \in T \ {y} : Precedes(data, x, y)
          BY <2>1, <3>1, <3>3, <3>5
        <4> QED  BY <2>1, <4>1
      <3> QED  BY <2>1, <3>1, <3>2, <3>4, <3>5
    <2> QED  BY <2>2, <2>3
  <1> HIDE DEF N
  <1>3. N = Nat
    <2>1. N \in SUBSET Nat
      BY DEF N
    <2> QED  BY <1>1, <1>2, <2>1, NaturalsBySteps
  <1>4. \A n \in Nat : \A T \in UpTo(S, n) : T # {} => Has(T)
    BY <1>3 DEF N
  <1>5. \A T \in SUBSET S : T \in UpTo(S, Cardinality(T))
    BY <1>0 DEF UpTo
  <1> QED  BY <1>0, <1>4, <1>5

-----------------------------------------------------------------------------
(* The invariant of the loops.                                             *)

USE IdAssumption, InputAssumption, NoneAssumption

\* A lot is never fuller than it was.
LotsBounded == \A l \in Lots : remaining[l] <= input.lots[l].quantity

\* What the inner loop still has to visit is exactly what the disposal in hand
\* may still take from.
LoopInv ==
    current # None =>
        /\ period \in Periods
        /\ eligible \subseteq Open(current)
        /\ \A l \in eligible : remaining[l] > 0
        /\ left > 0 => \A l \in Open(current) \ eligible : remaining[l] = 0
        /\ total.quantity + left = input.disposals[current].quantity
        /\ left = 0 => /\ total.proceeds = input.disposals[current].proceeds
                       /\ total.fee = input.disposals[current].fee

\* A disposal is calculated once.
AwaitsCalculation(d) == calculations[d] = None /\ d \notin reviews

EachOnce ==
    /\ \A d \in pending : AwaitsCalculation(d)
    /\ current # None => AwaitsCalculation(current) /\ current \notin pending

\* Parts are taken from the lots of the run.
PartsFromInventory ==
    \A a \in allocations : period \in Periods /\ a.lot \in Inventory(period)

FifoInv ==
    /\ TypeOK
    /\ LotsBounded
    /\ LoopInv
    /\ EachOnce
    /\ PartsFromInventory
    /\ OldestFirst
    /\ ShortageIsReal
    /\ CostFollowsQuantity

-----------------------------------------------------------------------------
(* The data a step works with.                                             *)

\* Every snapshot holds what AcquisitionInput and DisposalInput accept.
LEMMA SnapshotTyped ==
    ASSUME input \in Snapshots
    PROVE  /\ \A l \in Lots : /\ input.lots[l] \in LotData
                              /\ input.lots[l].at \in Nat
                              /\ input.lots[l].quantity \in Positive
                              /\ input.lots[l].deducted \in Nat
                              /\ input.lots[l].gross \in Positive \cup {None}
                              /\ Cost(l) \in Positive
           /\ \A d \in Disposals : /\ input.disposals[d].at \in Nat
                                   /\ input.disposals[d].quantity \in Positive
                                   /\ input.disposals[d].proceeds \in Positive
                                   /\ input.disposals[d].fee \in Nat
  <1>1. /\ input.lots \in [Lots -> LotData]
        /\ input.disposals \in [Disposals -> DisposalData]
    BY DEF Snapshot
  <1>2. ASSUME NEW l \in Lots PROVE Cost(l) \in Positive
    BY <1>1 DEF Cost, LotData, Positive
  <1> QED  BY <1>1, <1>2 DEF LotData, DisposalData

\* Two different acquisitions or disposals never both precede each other.
LEMMA PrecedesIsStrict ==
    ASSUME input \in Snapshots, NEW x \in Lots, NEW y \in Lots,
           Precedes(input.lots, x, y)
    PROVE  x # y /\ ~Precedes(input.lots, y, x) /\ input.lots[x].at <= input.lots[y].at
  <1>1. input.lots[x].at \in Nat /\ input.lots[y].at \in Nat /\ x \in Nat /\ y \in Nat
    BY SnapshotTyped
  <1> QED  BY <1>1 DEF Precedes

\* The quantity of a part is positive and neither exceeds what is asked for nor
\* what the lot has.
LEMMA SmallerFits ==
    ASSUME NEW a \in Positive, NEW b \in Positive
    PROVE  /\ Smaller(a, b) \in Positive
           /\ Smaller(a, b) <= a /\ Smaller(a, b) <= b
  BY DEF Smaller, Positive

\* A part is made of integers; Valid decides whether they are amounts.
LEMMA PartTyped ==
    ASSUME FifoInv, current # None, left > 0, NEW l \in eligible
    PROVE  /\ l \in Lots /\ current \in Disposals
           /\ Part(current, l).quantity = Smaller(left, remaining[l])
           /\ Part(current, l).quantity \in Positive
           /\ Part(current, l).quantity <= left
           /\ Part(current, l).quantity <= remaining[l]
           /\ Part(current, l).cost \in Int
           /\ Part(current, l).proceeds \in Int
           /\ Part(current, l).fee \in Int
           /\ Valid(Part(current, l)) => Part(current, l) \in Allocation
  <1> DEFINE q == Smaller(left, remaining[l])
  <1>1. /\ input \in Snapshots /\ l \in Lots /\ current \in Disposals
        /\ left \in Positive /\ remaining[l] \in Positive /\ total \in Totals
        /\ restCost[l] \in Int
        /\ remaining[l] <= input.lots[l].quantity
        /\ left <= input.disposals[current].quantity
    <2>1. total.quantity \in Nat /\ total.quantity + left = input.disposals[current].quantity
      BY DEF FifoInv, TypeOK, LoopInv, Totals
    <2>2. input \in Snapshots /\ current \in Disposals
      BY DEF FifoInv, TypeOK
    <2>3. input.disposals[current].quantity \in Nat
      BY <2>2, SnapshotTyped DEF Positive
    <2>4. l \in Lots /\ left \in Nat /\ restCost[l] \in Int /\ remaining[l] \in Nat
      BY DEF FifoInv, TypeOK
    <2>5. remaining[l] > 0 /\ remaining[l] <= input.lots[l].quantity
      BY <2>4 DEF FifoInv, LotsBounded, LoopInv
    <2>6. total \in Totals
      BY DEF FifoInv, TypeOK
    <2>7. left <= input.disposals[current].quantity
      BY <2>1, <2>3, <2>4
    <2> QED  BY <2>2, <2>4, <2>5, <2>6, <2>7 DEF Positive
  <1>2. q \in Positive /\ q <= left /\ q <= remaining[l]
    BY <1>1, SmallerFits
  <1>3. input.lots[l].quantity \in Nat /\ input.disposals[current].quantity \in Nat
    BY <1>1, SnapshotTyped DEF Positive
  <1>4. /\ q \in 1 .. input.lots[l].quantity
        /\ q \in 1 .. input.disposals[current].quantity
    <2> HIDE DEF q
    <2> QED  BY <1>1, <1>2, <1>3 DEF Positive
  <1> HIDE DEF q
  <1>5. PartCost(l) \in Int
    <2>1. Share(Cost(l), q, input.lots[l].quantity) \in Nat
      BY <1>1, <1>4, ShareAssumption DEF Cost
    <2>2. PartCost(l) = IF q = remaining[l] THEN restCost[l]
                        ELSE Share(Cost(l), q, input.lots[l].quantity)
      BY DEF PartCost, q
    <2> QED  BY <1>1, <2>1, <2>2
  <1>6. /\ Share(input.disposals[current].proceeds, q, input.disposals[current].quantity) \in Nat
        /\ Share(input.disposals[current].fee, q, input.disposals[current].quantity) \in Nat
    BY <1>1, <1>4, ShareAssumption
  <1>7. /\ input.disposals[current].proceeds \in Nat
        /\ input.disposals[current].fee \in Nat
        /\ total.proceeds \in Nat /\ total.fee \in Nat /\ total.parts \in Nat
    BY <1>1, SnapshotTyped DEF Totals, Positive
  <1>8. /\ Proportion(input.disposals[current].proceeds, total.proceeds, q, current) \in Int
        /\ Proportion(input.disposals[current].fee, total.fee, q, current) \in Int
    BY <1>6, <1>7 DEF Proportion
  <1>9. total.parts + 1 \in Positive
    BY <1>7 DEF Positive
  <1> QED  BY <1>1, <1>2, <1>5, <1>8, <1>9 DEF Part, Valid, Allocation, q

-----------------------------------------------------------------------------
(* Every step keeps the invariant.                                         *)

LEMMA FifoInit == Init => FifoInv
  <1> SUFFICES ASSUME Init PROVE FifoInv
    OBVIOUS
  <1>1. TypeOK
    <2>1. NoTotal \in Totals
      BY DEF NoTotal, Totals
    <2>2. /\ remaining \in [Lots -> Nat] /\ restCost \in [Lots -> Int]
          /\ calculations \in [Disposals -> Calculation \cup {None}]
          /\ reports \in [Periods -> (SUBSET Allocation) \cup {None}]
      BY DEF Init
    <2> QED  BY <2>1, <2>2 DEF Init, TypeOK
  <1>2. LotsBounded
    <2>1. input \in Snapshots /\ remaining = [l \in Lots |-> 0]
      BY DEF Init
    <2>2. \A l \in Lots : input.lots[l].quantity \in Nat
      BY <2>1, SnapshotTyped DEF Positive
    <2>3. ASSUME NEW l \in Lots PROVE remaining[l] <= input.lots[l].quantity
      <3>1. remaining[l] = 0 /\ input.lots[l].quantity \in Nat
        BY <2>1, <2>2
      <3> QED  BY <3>1
    <2> QED  BY <2>3 DEF LotsBounded
  <1>3. LoopInv /\ EachOnce /\ PartsFromInventory /\ OldestFirst /\ CostFollowsQuantity
    BY DEF Init, LoopInv, EachOnce, PartsFromInventory, OldestFirst, CostFollowsQuantity
  <1>4. ShortageIsReal
    BY DEF Init, ShortageIsReal
  <1> QED  BY <1>1, <1>2, <1>3, <1>4 DEF FifoInv

\* The entries written for acquisitions are entries.
LEMMA AcquisitionJournalTyped ==
    ASSUME input \in Snapshots, NEW p \in Periods
    PROVE  AcquisitionJournal(p) \subseteq Entry
  <1>1. ASSUME NEW l \in Lots PROVE AcquisitionEntry(l) \in Entry
    <2>1. input.lots[l].gross \in Positive \cup {None} /\ Cost(l) \in Positive
      BY SnapshotTyped
    <2> QED  BY <2>1 DEF AcquisitionEntry, Entry, EntryTypes, Positive
  <1>2. ASSUME NEW l \in Lots PROVE PlatformFeeEntry(l) \in Entry
    BY SnapshotTyped DEF PlatformFeeEntry, Entry, EntryTypes
  <1> QED  BY <1>1, <1>2 DEF AcquisitionJournal, Inventory

LEMMA StartRunKeeps ==
    ASSUME FifoInv, NEW p \in Periods, StartRun(p)
    PROVE  FifoInv'
  <1>1. /\ input \in Snapshots /\ input' = input /\ period' = p
        /\ reports \in [Periods -> (SUBSET Allocation) \cup {None}]
    BY DEF FifoInv, TypeOK, StartRun
  <1>2. TypeOK'
    <2>1. remaining' \in [Lots -> Nat] /\ restCost' \in [Lots -> Int]
      BY <1>1, SnapshotTyped DEF StartRun, Positive
    <2>2. journal' \subseteq Entry
      BY <1>1, AcquisitionJournalTyped DEF StartRun
    <2> QED  BY <1>1, <2>1, <2>2 DEF StartRun, TypeOK, NoTotal, Totals, Sales
  <1>3. LotsBounded'
    BY <1>1, SnapshotTyped DEF StartRun, LotsBounded, Positive
  <1>4. LoopInv' /\ PartsFromInventory' /\ OldestFirst' /\ ShortageIsReal'
    BY DEF StartRun, LoopInv, PartsFromInventory, OldestFirst, ShortageIsReal
  <1>5. EachOnce'
    BY DEF StartRun, EachOnce, AwaitsCalculation, Sales
  <1>6. CostFollowsQuantity'
    <2> SUFFICES ASSUME NEW l \in Inventory(p)
                 PROVE  remaining'[l] # 0 /\ restCost'[l] = Cost(l)
      BY <1>1 DEF CostFollowsQuantity, Inventory, Cost
    <2> QED  BY <1>1, SnapshotTyped DEF StartRun, Inventory, Positive
  <1> QED  BY <1>2, <1>3, <1>4, <1>5, <1>6 DEF FifoInv

LEMMA TakeDisposalKeeps ==
    ASSUME FifoInv, NEW d \in Disposals, TakeDisposal(d)
    PROVE  FifoInv'
  <1>1. /\ TypeOK /\ input' = input /\ period' = period /\ period \in Periods
        /\ d \in pending /\ input \in Snapshots
        /\ UNCHANGED <<remaining, restCost, allocations, calculations, reviews>>
    BY DEF FifoInv, TypeOK, TakeDisposal, result, IsFirst
  <1>2. input.disposals[d].quantity \in Positive
    BY <1>1, SnapshotTyped
  <1>3. TypeOK'
    BY <1>1, <1>2 DEF TakeDisposal, TypeOK, NoTotal, Totals, Open, Inventory, Positive, result
  <1>4. LoopInv'
    <2>1. eligible' = {l \in Open(d) : remaining[l] > 0} /\ current' = d
      BY DEF TakeDisposal
    <2>2. \A l \in Open(d) : l \in Lots /\ remaining[l] \in Nat
      BY <1>1 DEF Open, Inventory, TypeOK
    <2>3. Open(d)' = Open(d)
      BY <1>1 DEF Open, Inventory
    <2>4. \A l \in Open(d) \ eligible' : remaining'[l] = 0
      BY <1>1, <2>1, <2>2
    <2>5. /\ total'.quantity + left' = input.disposals[d].quantity
          /\ left' # 0
      BY <1>2 DEF TakeDisposal, NoTotal, Positive
    <2>6. \A l \in eligible' : remaining'[l] > 0
      BY <1>1, <2>1
    <2> QED  BY <1>1, <2>1, <2>3, <2>4, <2>5, <2>6 DEF LoopInv
  <1>5. EachOnce'
    BY <1>1 DEF FifoInv, TakeDisposal, EachOnce, AwaitsCalculation
  <1>6. LotsBounded' /\ PartsFromInventory' /\ OldestFirst' /\ CostFollowsQuantity'
    BY <1>1 DEF FifoInv, LotsBounded, PartsFromInventory, OldestFirst, CostFollowsQuantity,
                Inventory, Cost
  <1>7. ShortageIsReal'
    BY <1>1 DEF FifoInv, ShortageIsReal, Open, Inventory
  <1> QED  BY <1>3, <1>4, <1>5, <1>6, <1>7 DEF FifoInv

\* A part takes what it is worth from the lot and from the disposal.
LEMMA AllocateKeepsTypes ==
    ASSUME FifoInv, NEW l \in Lots, Allocate(l)
    PROVE  TypeOK' /\ LotsBounded'
  <1> DEFINE part == Part(current, l)
  <1>1. /\ l \in eligible /\ current \in Disposals /\ Valid(part)
        /\ TypeOK /\ LotsBounded /\ current # None /\ left > 0
    BY DEF FifoInv, TypeOK, Allocate, NextLot, IsFirst
  <1>2. /\ part \in Allocation
        /\ part.quantity \in Positive
        /\ part.quantity <= left /\ part.quantity <= remaining[l]
    BY <1>1, PartTyped
  <1>3. /\ part.cost \in Nat /\ part.proceeds \in Nat /\ part.fee \in Nat
    BY <1>2 DEF Allocation
  <1>4. /\ remaining' = [remaining EXCEPT ![l] = @ - part.quantity]
        /\ restCost' = [restCost EXCEPT ![l] = @ - part.cost]
        /\ left' = left - part.quantity
        /\ allocations' = allocations \cup {part}
        /\ journal' = journal \cup {GainEntry(part)}
        /\ eligible' = eligible \ {l}
        /\ UNCHANGED <<input, phase, period, pending, current, calculations, reviews, reports>>
    BY DEF Allocate
  <1>5. GainEntry(part) \in Entry
    <2>1. part.disposal \in Disposals /\ part.lot \in Lots
      BY <1>2 DEF Allocation
    <2>2. Gain(part) \in Int
      BY <1>3 DEF Gain
    <2> QED  BY <2>1, <2>2 DEF GainEntry, Entry, EntryTypes
  <1>6. total' \in Totals
    <2>1. /\ total.quantity \in Nat /\ total.parts \in Nat /\ total.cost \in Nat
          /\ total.proceeds \in Nat /\ total.fee \in Nat
      BY <1>1 DEF TypeOK, Totals
    <2>2. total' = [quantity |-> total.quantity + part.quantity,
                    parts |-> total.parts + 1,
                    cost |-> total.cost + part.cost,
                    proceeds |-> total.proceeds + part.proceeds,
                    fee |-> total.fee + part.fee]
      BY DEF Allocate
    <2> HIDE DEF part
    <2> QED  BY <1>2, <1>3, <2>1, <2>2 DEF Totals, Positive
  <1> HIDE DEF part
  <1>7. left' \in Nat /\ remaining' \in [Lots -> Nat] /\ restCost' \in [Lots -> Int]
    <2>1. left \in Nat /\ remaining \in [Lots -> Nat] /\ restCost \in [Lots -> Int]
      BY <1>1 DEF TypeOK
    <2>2. left - part.quantity \in Nat /\ remaining[l] - part.quantity \in Nat
      BY <1>2, <2>1 DEF Positive
    <2>3. restCost[l] - part.cost \in Int
      BY <1>3, <2>1
    <2> QED  BY <1>4, <2>1, <2>2, <2>3
  <1>8. TypeOK'
    BY <1>1, <1>2, <1>4, <1>5, <1>6, <1>7 DEF TypeOK
  <1>9. LotsBounded'
    <2> SUFFICES ASSUME NEW x \in Lots PROVE remaining'[x] <= input.lots[x].quantity
      BY <1>4 DEF LotsBounded
    <2>1. /\ remaining[x] \in Nat /\ remaining[x] <= input.lots[x].quantity
          /\ input.lots[x].quantity \in Nat
      BY <1>1, SnapshotTyped DEF TypeOK, LotsBounded, Positive
    <2>2. remaining'[x] = IF x = l THEN remaining[x] - part.quantity ELSE remaining[x]
      BY <1>1, <1>4 DEF TypeOK
    <2> QED  BY <1>2, <2>1, <2>2 DEF Positive
  <1> QED  BY <1>8, <1>9

LEMMA AllocateKeepsLoop ==
    ASSUME FifoInv, NEW l \in Lots, Allocate(l)
    PROVE  LoopInv' /\ EachOnce' /\ PartsFromInventory'
  <1> DEFINE part == Part(current, l)
  <1>1. /\ l \in eligible /\ current \in Disposals /\ current # None /\ left > 0
        /\ TypeOK /\ LoopInv /\ EachOnce /\ PartsFromInventory /\ period \in Periods
    BY DEF FifoInv, TypeOK, Allocate, NextLot, IsFirst
  <1>2. /\ part.quantity = Smaller(left, remaining[l])
        /\ part.quantity \in Positive
        /\ part.quantity <= left /\ part.quantity <= remaining[l]
    BY <1>1, PartTyped
  <1>3. /\ remaining' = [remaining EXCEPT ![l] = @ - part.quantity]
        /\ left' = left - part.quantity
        /\ allocations' = allocations \cup {part}
        /\ eligible' = eligible \ {l}
        /\ total'.quantity = total.quantity + part.quantity
        /\ total'.proceeds = total.proceeds + part.proceeds
        /\ total'.fee = total.fee + part.fee
        /\ UNCHANGED <<input, phase, period, pending, current, calculations, reviews, reports>>
    BY DEF Allocate
  <1>4. /\ eligible \subseteq Open(current) /\ Open(current)' = Open(current)
        /\ Open(current) \subseteq Inventory(period) /\ Inventory(period) \subseteq Lots
    BY <1>1, <1>3 DEF LoopInv, Open, Inventory
  <1>5. part.lot = l
    BY DEF Part
  <1>6. /\ left \in Nat /\ total.quantity \in Nat /\ remaining \in [Lots -> Nat]
        /\ total.proceeds \in Nat /\ total.fee \in Nat
        /\ input.disposals[current].proceeds \in Nat /\ input.disposals[current].fee \in Nat
        /\ input.disposals[current].quantity \in Nat
    BY <1>1, SnapshotTyped DEF TypeOK, Totals, Positive
  <1>7. left' = 0 => /\ part.proceeds = input.disposals[current].proceeds - total.proceeds
                     /\ part.fee = input.disposals[current].fee - total.fee
    <2> SUFFICES ASSUME left' = 0
                 PROVE  /\ part.proceeds = input.disposals[current].proceeds - total.proceeds
                        /\ part.fee = input.disposals[current].fee - total.fee
      OBVIOUS
    <2>1. part.quantity = left
      <3> HIDE DEF part
      <3> QED  BY <1>2, <1>3, <1>6 DEF Positive
    <2> QED  BY <1>2, <2>1 DEF Part, Proportion
  <1> HIDE DEF part
  <1>8. LoopInv'
    <2>1. \A x \in eligible' : remaining'[x] > 0
      BY <1>1, <1>3, <1>4, <1>6 DEF LoopInv
    <2>2. left' > 0 => \A x \in Open(current) \ eligible' : remaining'[x] = 0
      <3> SUFFICES ASSUME left' > 0, NEW x \in Open(current), x \notin eligible'
                   PROVE  remaining'[x] = 0
        OBVIOUS
      <3>1. CASE x = l
        <4>1. part.quantity # left
          BY <1>2, <1>3, <1>6 DEF Positive
        <4>2. part.quantity = remaining[l]
          BY <1>2, <4>1 DEF Smaller
        <4> QED  BY <1>2, <1>3, <1>6, <3>1, <4>2 DEF Positive
      <3>2. CASE x # l
        BY <1>1, <1>3, <1>4, <1>6, <3>2 DEF LoopInv
      <3> QED  BY <3>1, <3>2
    <2>3. total'.quantity + left' = input.disposals[current].quantity
      BY <1>1, <1>2, <1>3, <1>6 DEF LoopInv, Positive
    <2>4. left' = 0 => /\ total'.proceeds = input.disposals[current].proceeds
                       /\ total'.fee = input.disposals[current].fee
      BY <1>3, <1>6, <1>7
    <2> QED  BY <1>1, <1>3, <1>4, <2>1, <2>2, <2>3, <2>4 DEF LoopInv
  <1>9. EachOnce'
    BY <1>1, <1>3 DEF EachOnce, AwaitsCalculation
  <1>10. PartsFromInventory'
    BY <1>1, <1>3, <1>4, <1>5 DEF PartsFromInventory, Inventory
  <1> QED  BY <1>8, <1>9, <1>10

\* The lot taken is the first that has anything left, so those before it are
\* used up: they were open to the disposal, too.
LEMMA AllocateTakesOldest ==
    ASSUME FifoInv, NEW l \in Lots, Allocate(l)
    PROVE  OldestFirst'
  <1> DEFINE part == Part(current, l)
  <1>1. /\ l \in eligible /\ current \in Disposals /\ current # None /\ left > 0
        /\ TypeOK /\ LoopInv /\ OldestFirst /\ period \in Periods
        /\ IsFirst(input.lots, eligible, l) /\ input \in Snapshots
    BY DEF FifoInv, TypeOK, Allocate, NextLot, IsFirst
  <1>2. part.quantity \in Positive /\ part.quantity <= remaining[l] /\ part.lot = l
    BY <1>1, PartTyped DEF Part
  <1>3. /\ remaining' = [remaining EXCEPT ![l] = @ - part.quantity]
        /\ allocations' = allocations \cup {part}
        /\ input' = input /\ period' = period
    BY DEF Allocate
  <1> HIDE DEF part
  <1>4. ASSUME NEW x \in Inventory(period), remaining[x] = 0
        PROVE  remaining'[x] = 0
    <2>1. x \in Lots /\ remaining \in [Lots -> Nat]
      BY <1>1 DEF Inventory, TypeOK
    <2>2. x # l
      BY <1>1, <1>4 DEF LoopInv
    <2> QED  BY <1>3, <1>4, <2>1, <2>2
  <1>5. ASSUME NEW x \in Inventory(period),
               input.lots[x].asset = input.lots[l].asset, Precedes(input.lots, x, l)
        PROVE  remaining[x] = 0
    <2>1. x \in Lots
      BY DEF Inventory
    <2>2. ~Precedes(input.lots, l, x) /\ input.lots[x].at <= input.lots[l].at /\ x # l
      BY <1>1, <1>5, <2>1, PrecedesIsStrict
    <2>3. x \notin eligible
      BY <1>1, <2>2 DEF IsFirst
    <2>4. l \in Open(current)
      BY <1>1 DEF LoopInv
    <2>5. input.lots[x].at \in Nat /\ input.lots[l].at \in Nat /\ input.disposals[current].at \in Nat
      BY <1>1, <2>1, SnapshotTyped
    <2>6. x \in Open(current)
      BY <1>5, <2>2, <2>4, <2>5 DEF Open
    <2> QED  BY <1>1, <2>3, <2>6 DEF LoopInv
  <1>6. Inventory(period)' = Inventory(period)
    BY <1>3 DEF Inventory
  <1> SUFFICES ASSUME NEW a \in allocations', NEW x \in Inventory(period),
                      input.lots[x].asset = input.lots[a.lot].asset,
                      Precedes(input.lots, x, a.lot)
               PROVE  remaining'[x] = 0
    BY <1>3, <1>6 DEF OldestFirst, Precedes
  <1>7. CASE a \in allocations
    BY <1>1, <1>4, <1>7 DEF OldestFirst
  <1>8. CASE a = part
    BY <1>2, <1>4, <1>5, <1>8
  <1> QED  BY <1>3, <1>7, <1>8

\* What is used up stays used up, and takes its cost along.
LEMMA AllocateKeepsBooks ==
    ASSUME FifoInv, NEW l \in Lots, Allocate(l)
    PROVE  ShortageIsReal' /\ CostFollowsQuantity'
  <1> DEFINE part == Part(current, l)
  <1>1. /\ l \in eligible /\ current \in Disposals /\ current # None /\ left > 0
        /\ TypeOK /\ LoopInv /\ LotsBounded /\ input \in Snapshots /\ period \in Periods
    BY DEF FifoInv, TypeOK, Allocate, NextLot, IsFirst
  <1>2. part.quantity \in Positive /\ part.quantity <= remaining[l]
    BY <1>1, PartTyped
  <1>3. part.quantity = remaining[l] => part.cost = restCost[l]
    BY <1>1, PartTyped DEF Part, PartCost
  <1>4. /\ remaining' = [remaining EXCEPT ![l] = @ - part.quantity]
        /\ restCost' = [restCost EXCEPT ![l] = @ - part.cost]
        /\ UNCHANGED <<input, period, calculations, reviews>>
    BY DEF Allocate
  <1>5. part.cost \in Int
    BY <1>1, PartTyped
  <1> HIDE DEF part
  <1>6. /\ remaining \in [Lots -> Nat] /\ restCost \in [Lots -> Int]
        /\ remaining[l] <= input.lots[l].quantity /\ input.lots[l].quantity \in Nat
    BY <1>1, SnapshotTyped DEF TypeOK, LotsBounded, Positive
  <1>7. /\ Inventory(period)' = Inventory(period) /\ Inventory(period) \subseteq Lots
        /\ \A d : Open(d)' = Open(d) /\ Open(d) \subseteq Lots
        /\ \A x : Cost(x)' = Cost(x)
    BY <1>4 DEF Inventory, Open, Cost
  <1>8. ASSUME NEW x \in Lots, remaining[x] = 0 PROVE remaining'[x] = 0
    BY <1>2, <1>4, <1>6, <1>8 DEF Positive
  <1>9. ShortageIsReal'
    BY <1>4, <1>7, <1>8 DEF FifoInv, ShortageIsReal
  <1>10. CostFollowsQuantity'
    <2> SUFFICES ASSUME NEW x \in Inventory(period)
                 PROVE  /\ remaining'[x] = 0 => restCost'[x] = 0
                        /\ remaining'[x] = input.lots[x].quantity => restCost'[x] = Cost(x)
      BY <1>4, <1>7 DEF CostFollowsQuantity
    <2>1. x \in Lots /\ (remaining[x] = 0 => restCost[x] = 0)
          /\ (remaining[x] = input.lots[x].quantity => restCost[x] = Cost(x))
      BY <1>1, <1>7, IdAssumption DEF FifoInv, CostFollowsQuantity
    <2>2. CASE x = l
      <3>1. remaining'[l] = remaining[l] - part.quantity /\ restCost'[l] = restCost[l] - part.cost
        BY <1>4, <1>6
      <3>0. /\ remaining[l] \in Nat /\ part.quantity \in Nat /\ part.quantity > 0
            /\ input.lots[l].quantity \in Nat /\ remaining[l] <= input.lots[l].quantity
        <4>1. part.quantity \in Nat /\ part.quantity > 0
          BY <1>2 DEF Positive
        <4>2. remaining[l] \in Nat
          BY <1>6
        <4> QED  BY <1>6, <4>1, <4>2
      <3>2. remaining'[l] # input.lots[l].quantity
        BY <3>0, <3>1
      <3>3. ASSUME remaining'[l] = 0 PROVE restCost'[l] = 0
        <4>1. part.quantity = remaining[l]
          BY <3>0, <3>1, <3>3
        <4> QED  BY <1>3, <1>5, <3>1, <4>1
      <3> QED  BY <2>2, <3>2, <3>3
    <2>3. CASE x # l
      BY <1>4, <1>6, <2>1, <2>3
    <2> QED  BY <2>2, <2>3
  <1> QED  BY <1>9, <1>10

LEMMA CloseDisposalKeeps ==
    ASSUME FifoInv, CloseDisposal
    PROVE  FifoInv'
  <1>1. /\ TypeOK /\ LoopInv /\ EachOnce /\ ShortageIsReal
        /\ current # None /\ current \in Disposals /\ current' = None
        /\ left = 0 \/ eligible = {}
        /\ input \in Snapshots /\ total \in Totals /\ left \in Nat
        /\ UNCHANGED <<input, phase, period, remaining, restCost, pending, left,
                       eligible, total, allocations, reports>>
    BY DEF FifoInv, TypeOK, CloseDisposal
  <1> DEFINE made == [quantity |-> total.quantity, parts |-> total.parts,
                      cost |-> total.cost, proceeds |-> total.proceeds,
                      fee |-> total.fee, resolved |-> FullyAllocated]
  <1>2. /\ calculations' = [calculations EXCEPT ![current] = made]
        /\ reviews' = IF FullyAllocated THEN reviews ELSE reviews \cup {current}
    BY DEF CloseDisposal
  <1>3. made \in Calculation /\ made # None
    <2>1. made \in Calculation
      BY <1>1 DEF Totals, Calculation, FullyAllocated
    <2> QED  BY <2>1, NoneAssumption
  <1>4. made.quantity = total.quantity /\ made.proceeds = total.proceeds
        /\ made.fee = total.fee /\ made.resolved = FullyAllocated
    OBVIOUS
  <1> HIDE DEF made
  <1>5. journal' \subseteq Entry
    <2>1. Gain(total) \in Int /\ input.disposals[current].fee \in Int
      BY <1>1, SnapshotTyped DEF Gain, Totals
    <2>2. DisposalEntry(current) \in Entry /\ ReviewEntry(current) \in Entry
          /\ FeeEntry(current) \in Entry
      BY <1>1, <2>1 DEF DisposalEntry, ReviewEntry, FeeEntry, Entry, EntryTypes
    <2>3. journal \subseteq Entry
      BY <1>1 DEF TypeOK
    <2> QED  BY <2>2, <2>3 DEF CloseDisposal
  <1>6. TypeOK'
    BY <1>1, <1>2, <1>3, <1>5 DEF TypeOK
  <1>7. LotsBounded' /\ PartsFromInventory' /\ OldestFirst' /\ CostFollowsQuantity'
    BY <1>1 DEF FifoInv, LotsBounded, PartsFromInventory, OldestFirst, CostFollowsQuantity,
                Inventory, Cost
  <1>8. LoopInv' /\ EachOnce'
    <2>1. \A d \in pending : d # current /\ d \in Disposals
      BY <1>1 DEF EachOnce, TypeOK
    <2> QED  BY <1>1, <1>2, <2>1 DEF LoopInv, EachOnce, AwaitsCalculation, TypeOK
  <1>9. ShortageIsReal'
    <2>1. \A d : Open(d)' = Open(d)
      BY <1>1 DEF Open, Inventory
    <2> SUFFICES ASSUME NEW d \in Disposals, calculations'[d] # None
                 PROVE  IF calculations'[d].resolved
                        THEN /\ d \notin reviews'
                             /\ calculations'[d].quantity = input.disposals[d].quantity
                             /\ calculations'[d].proceeds = input.disposals[d].proceeds
                             /\ calculations'[d].fee = input.disposals[d].fee
                        ELSE /\ d \in reviews'
                             /\ calculations'[d].quantity < input.disposals[d].quantity
                             /\ \A l \in Open(d) : remaining[l] = 0
      BY <1>1, <2>1 DEF ShortageIsReal
    <2>2. CASE d # current
      <3>1. calculations'[d] = calculations[d] /\ (d \in reviews' <=> d \in reviews)
        BY <1>1, <1>2, <2>2 DEF TypeOK
      <3> QED  BY <1>1, <3>1 DEF ShortageIsReal
    <2>3. CASE d = current
      <3>1. calculations'[d] = made /\ d \notin reviews
        BY <1>1, <1>2, <2>3 DEF TypeOK, EachOnce, AwaitsCalculation
      <3>2. /\ total.quantity \in Nat /\ input.disposals[d].quantity \in Nat
            /\ total.quantity + left = input.disposals[d].quantity
        BY <1>1, <2>3, SnapshotTyped DEF LoopInv, Totals, Positive
      <3>3. CASE left = 0
        <4>1. total.quantity = input.disposals[d].quantity
          BY <1>1, <3>2, <3>3
        <4> QED  BY <1>1, <1>2, <1>4, <2>3, <3>1, <3>3, <4>1 DEF FullyAllocated, LoopInv
      <3>4. CASE left # 0
        <4>1. left > 0 /\ eligible = {} /\ total.quantity < input.disposals[d].quantity
          BY <1>1, <3>2, <3>4
        <4>2. \A l \in Open(d) : remaining[l] = 0
          BY <1>1, <2>3, <4>1 DEF LoopInv
        <4> QED  BY <1>2, <1>4, <2>3, <3>1, <3>4, <4>1, <4>2 DEF FullyAllocated
      <3> QED  BY <3>3, <3>4
    <2> QED  BY <2>2, <2>3
  <1> QED  BY <1>6, <1>7, <1>8, <1>9 DEF FifoInv

\* Leaving the loops, with a result or without, changes no book.
LEMMA EndOfRunKeeps ==
    ASSUME FifoInv, ReturnResult \/ (\E l \in Lots : Refuse(l)) \/ UNCHANGED vars
    PROVE  FifoInv'
  <1>1. /\ UNCHANGED <<input, period, remaining, restCost, pending, current, left, eligible,
                       total, allocations, calculations, reviews, journal>>
        /\ TypeOK
    BY DEF FifoInv, ReturnResult, Refuse, vars, result
  <1>2. TypeOK'
    <2>1. CASE ReturnResult
      BY <1>1, <2>1 DEF TypeOK, ReturnResult
    <2>2. CASE \E l \in Lots : Refuse(l)
      BY <1>1, <2>2 DEF TypeOK, Refuse
    <2>3. CASE UNCHANGED vars
      BY <1>1, <2>3 DEF TypeOK, vars
    <2> QED  BY <2>1, <2>2, <2>3
  <1>3. LotsBounded' /\ PartsFromInventory' /\ OldestFirst' /\ CostFollowsQuantity'
    BY <1>1 DEF FifoInv, LotsBounded, PartsFromInventory, OldestFirst, CostFollowsQuantity,
                Inventory, Cost
  <1>4. LoopInv' /\ EachOnce'
    BY <1>1 DEF FifoInv, LoopInv, EachOnce, AwaitsCalculation, Open, Inventory
  <1>5. ShortageIsReal'
    BY <1>1 DEF FifoInv, ShortageIsReal, Open, Inventory
  <1> QED  BY <1>2, <1>3, <1>4, <1>5 DEF FifoInv

-----------------------------------------------------------------------------
(* The theorems about the order, the shortages and the cost.               *)

\* The inductive invariant of calculate_fifo.
THEOREM FifoInductive == Spec => []FifoInv
  <1>1. ASSUME FifoInv, [Next]_vars PROVE FifoInv'
    <2>1. ASSUME NEW p \in Periods, StartRun(p) PROVE FifoInv'
      BY <1>1, <2>1, StartRunKeeps
    <2>2. ASSUME NEW d \in Disposals, TakeDisposal(d) PROVE FifoInv'
      BY <1>1, <2>2, TakeDisposalKeeps
    <2>3. ASSUME NEW l \in Lots, Allocate(l) PROVE FifoInv'
      BY <1>1, <2>3, AllocateKeepsTypes, AllocateKeepsLoop, AllocateTakesOldest,
         AllocateKeepsBooks DEF FifoInv
    <2>4. CASE CloseDisposal
      BY <1>1, <2>4, CloseDisposalKeeps
    <2>5. CASE ReturnResult \/ (\E l \in Lots : Refuse(l)) \/ UNCHANGED vars
      BY <1>1, <2>5, EndOfRunKeeps
    <2> QED  BY <1>1, <2>1, <2>2, <2>3, <2>4, <2>5 DEF Next
  <1> QED  BY <1>1, FifoInit, PTL DEF Spec

\* Every list calculate_fifo builds holds what its constructors accept.
THEOREM FifoTypeCorrect == Spec => []TypeOK
  <1>1. FifoInv => TypeOK
    BY DEF FifoInv
  <1> QED  BY <1>1, FifoInductive, PTL

\* No lot is touched while an older one of its asset has anything left.
THEOREM TakesOldestFirst == Spec => []OldestFirst
  <1>1. FifoInv => OldestFirst
    BY DEF FifoInv
  <1> QED  BY <1>1, FifoInductive, PTL

\* A disposal is either allocated in full with all of its proceeds and fee, or
\* it is reviewed and nothing it could have taken is left.
THEOREM ShortagesAreReal == Spec => []ShortageIsReal
  <1>1. FifoInv => ShortageIsReal
    BY DEF FifoInv
  <1> QED  BY <1>1, FifoInductive, PTL

\* A lot that is used up carries no cost any more.
THEOREM CostLeavesWithQuantity == Spec => []CostFollowsQuantity
  <1>1. FifoInv => CostFollowsQuantity
    BY DEF FifoInv
  <1> QED  BY <1>1, FifoInductive, PTL

-----------------------------------------------------------------------------
(* Amounts: what the parts add up to.                                      *)

AmountFields == {"quantity", "cost", "proceeds", "fee"}
FieldOf(k) == [a \in Allocation |-> a[k]]
FieldSum(k, S) == SumOver(LAMBDA a : a[k], S)

LEMMA FieldsAreAmounts == \A a \in Allocation, k \in AmountFields : a[k] \in Nat
  BY DEF Allocation, AmountFields, Positive

\* Sums of a field over records whatever else they hold.
LEMMA FieldSumIsSum ==
    ASSUME NEW k, NEW S, IsFiniteSet(S), \A a \in S : a[k] \in Int
    PROVE  FieldSum(k, S) = SumOf([a \in S |-> a[k]], S)
  <1> DEFINE f == [a \in S |-> a[k]]
             F(h) == [s \in SUBSET S |-> IF s = {} THEN 0 ELSE Some(s)[k] + h[s \ {Some(s)}]]
             it == CHOOSE h : h = F(h)
  <1>1. \A a \in S : f[a] = a[k] /\ f[a] \in Int
    OBVIOUS
  <1> HIDE DEF f
  <1>2. PICK g \in [SUBSET S -> Int] : Adds(g, f, SUBSET S) /\ SumOf(f, S) = g[S]
    BY <1>1, SumRecursion
  <1>3. ASSUME NEW h
        PROVE  F(h) = [s \in SUBSET S |-> IF s = {} THEN 0 ELSE f[Some(s)] + h[s \ {Some(s)}]]
    <2>1. \A s \in SUBSET S : s # {} => f[Some(s)] = Some(s)[k]
      BY <1>1, SomeIn
    <2> QED  BY <2>1
  <1>4. FieldSum(k, S) = it[S]
    BY DEF FieldSum, SumOver, MapThenSumSet, MapThenFoldSet, Some
  <1> HIDE DEF F
  <1>5. g = F(g)
    BY <1>2, <1>3 DEF Adds
  <1>6. it = F(it)
    BY <1>5
  <1> HIDE DEF it
  <1>7. Adds(it, f, SUBSET S)
    BY <1>3, <1>6 DEF Adds
  <1>8. it[S] = SumOf(f, S)
    BY <1>1, <1>7, SumOfPart
  <1> QED  BY <1>4, <1>8 DEF f

LEMMA FieldIsSum ==
    ASSUME NEW k \in AmountFields, NEW S \in SUBSET Allocation, IsFiniteSet(S)
    PROVE  FieldSum(k, S) = SumOf(FieldOf(k), S)
  <1> DEFINE f == [a \in S |-> a[k]]
  <1>1. \A a \in S : f[a] \in Int /\ f[a] = a[k] /\ FieldOf(k)[a] = a[k]
    BY FieldsAreAmounts DEF FieldOf
  <1>2. FieldSum(k, S) = SumOf(f, S)
    BY <1>1, FieldSumIsSum
  <1> HIDE DEF f
  <1> QED  BY <1>1, <1>2, SumSame

LEMMA FieldNone == \A k \in AmountFields : FieldSum(k, {}) = 0
  BY FieldIsSum, SumEmpty, FS_EmptySet

LEMMA FieldAdd ==
    ASSUME NEW k \in AmountFields, NEW S \in SUBSET Allocation, IsFiniteSet(S),
           NEW a \in Allocation, a \notin S
    PROVE  FieldSum(k, S) \in Nat /\ FieldSum(k, S \cup {a}) = FieldSum(k, S) + a[k]
  <1>1. \A x \in S \cup {a} : FieldOf(k)[x] = x[k] /\ FieldOf(k)[x] \in Nat
    BY FieldsAreAmounts DEF FieldOf
  <1>2. \A x \in S \cup {a} : FieldOf(k)[x] \in Int
    BY <1>1
  <1>3. S \cup {a} \in SUBSET Allocation /\ IsFiniteSet(S \cup {a})
    BY FS_AddElement
  <1>4. SumOf(FieldOf(k), S \cup {a}) = FieldOf(k)[a] + SumOf(FieldOf(k), S)
    BY <1>2, SumAdd
  <1>5. SumOf(FieldOf(k), S) \in Nat
    BY <1>1, SumPositive
  <1>6. /\ FieldSum(k, S) = SumOf(FieldOf(k), S)
        /\ FieldSum(k, S \cup {a}) = SumOf(FieldOf(k), S \cup {a})
    BY <1>3, FieldIsSum
  <1>7. FieldOf(k)[a] = a[k] /\ a[k] \in Nat
    BY <1>1
  <1> QED  BY <1>4, <1>5, <1>6, <1>7

\* The parts of the disposal in hand come from lots it has visited, and amount to what
\* the loop has added up; so do those of the disposals before it, and what has been
\* taken from a lot is what it lacks.
Booked(d, amounts) == \A k \in AmountFields : FieldSum(k, PartsOf(d)) = amounts[k]

BooksInv ==
    /\ IsFiniteSet(allocations)
    /\ \A a \in allocations : a.disposal = current \/ calculations[a.disposal] # None
    /\ current # None => /\ \A a \in PartsOf(current) : a.lot \notin eligible
                         /\ Booked(current, total)
    /\ \A d \in Calculated : Booked(d, calculations[d])
    /\ period # None => \A l \in Inventory(period) :
          /\ FieldSum("quantity", PartsFrom(l)) + remaining[l] = input.lots[l].quantity
          /\ FieldSum("cost", PartsFrom(l)) + restCost[l] = Cost(l)

LEMMA InitBooks == Init => BooksInv
  <1> SUFFICES ASSUME Init PROVE BooksInv
    OBVIOUS
  <1>1. allocations = {} /\ current = None /\ period = None /\ Calculated = {}
    BY DEF Init, Calculated
  <1> QED  BY <1>1, FS_EmptySet DEF BooksInv

LEMMA BooksStep == FifoInv /\ BooksInv /\ [Next]_vars => BooksInv'
  <1> SUFFICES ASSUME FifoInv, BooksInv, [Next]_vars PROVE BooksInv'
    OBVIOUS
  <1>0. /\ TypeOK /\ LoopInv /\ EachOnce /\ ShortageIsReal /\ None \notin Disposals
        /\ allocations \subseteq Allocation /\ input \in Snapshots
    BY DEF FifoInv, TypeOK
  <1>1. ASSUME NEW p \in Periods, StartRun(p) PROVE BooksInv'
    <2>1. /\ allocations' = {} /\ current' = None /\ period' = p /\ Calculated' = {}
          /\ input' = input
      BY <1>1 DEF StartRun, Calculated
    <2>2. \A l : PartsFrom(l)' = {}
      BY <2>1 DEF PartsFrom
    <2>3. \A l \in Inventory(p) : /\ input.lots[l].quantity \in Nat /\ Cost(l) \in Nat
                                  /\ remaining'[l] = input.lots[l].quantity
                                  /\ restCost'[l] = Cost(l)
      BY <1>0, <1>1, SnapshotTyped DEF StartRun, Inventory, Positive
    <2>4. FieldSum("quantity", {}) = 0 /\ FieldSum("cost", {}) = 0
      BY FieldNone DEF AmountFields
    <2>5. \A l \in Inventory(p) :
              /\ FieldSum("quantity", PartsFrom(l)') + remaining'[l] = input'.lots[l].quantity
              /\ FieldSum("cost", PartsFrom(l)') + restCost'[l] = Cost(l)'
      <3> SUFFICES ASSUME NEW l \in Inventory(p)
                   PROVE  /\ FieldSum("quantity", {}) + remaining'[l] = input.lots[l].quantity
                          /\ FieldSum("cost", {}) + restCost'[l] = Cost(l)
        BY <2>1, <2>2 DEF Cost
      <3> QED  BY <2>3, <2>4
    <2>6. Inventory(period)' = Inventory(p)
      BY <2>1 DEF Inventory
    <2> QED  BY <2>1, <2>5, <2>6, FS_EmptySet DEF BooksInv
  <1>2. ASSUME NEW d \in Disposals, TakeDisposal(d) PROVE BooksInv'
    <2>1. /\ current = None /\ current' = d /\ d \in pending /\ total' = NoTotal
          /\ UNCHANGED <<input, period, remaining, restCost, allocations, calculations>>
      BY <1>2 DEF TakeDisposal, IsFirst, result
    <2>2. calculations[d] = None /\ d # None
      BY <1>0, <2>1 DEF EachOnce, AwaitsCalculation
    <2>3. \A a \in allocations : a.disposal \in Disposals /\ calculations[a.disposal] # None
      BY <1>0, <2>1 DEF BooksInv, Allocation
    <2>4. PartsOf(d) = {}
      BY <2>2, <2>3 DEF PartsOf
    <2>5. \A x : PartsOf(x)' = PartsOf(x) /\ PartsFrom(x)' = PartsFrom(x)
      BY <2>1 DEF PartsOf, PartsFrom
    <2>6. Booked(d, total)'
      BY <2>1, <2>4, <2>5, FieldNone DEF Booked, NoTotal, AmountFields
    <2>7. Calculated' = Calculated /\ \A x : Booked(x, calculations[x]) => Booked(x, calculations[x])'
      BY <2>1, <2>5 DEF Booked, Calculated
    <2>8. Inventory(period)' = Inventory(period) /\ \A l : Cost(l)' = Cost(l)
      BY <2>1 DEF Inventory, Cost
    <2> QED  BY <2>1, <2>3, <2>4, <2>5, <2>6, <2>7, <2>8 DEF BooksInv
  <1>3. ASSUME NEW l \in Lots, Allocate(l) PROVE BooksInv'
    <2> DEFINE part == Part(current, l)
    <2>1. /\ l \in eligible /\ current \in Disposals /\ Valid(part)
          /\ current # None /\ left > 0
      BY <1>0, <1>3 DEF TypeOK, Allocate, NextLot, IsFirst
    <2>2. part \in Allocation /\ part.disposal = current /\ part.lot = l
      BY <2>1, PartTyped DEF Part
    <2>3. /\ remaining' = [remaining EXCEPT ![l] = @ - part.quantity]
          /\ restCost' = [restCost EXCEPT ![l] = @ - part.cost]
          /\ allocations' = allocations \cup {part}
          /\ eligible' = eligible \ {l}
          /\ total' = [quantity |-> total.quantity + part.quantity,
                       parts |-> total.parts + 1,
                       cost |-> total.cost + part.cost,
                       proceeds |-> total.proceeds + part.proceeds,
                       fee |-> total.fee + part.fee]
          /\ UNCHANGED <<input, period, current, calculations>>
      BY <1>3 DEF Allocate
    <2> HIDE DEF part
    <2>4. /\ remaining \in [Lots -> Nat] /\ restCost \in [Lots -> Int] /\ total \in Totals
          /\ part.quantity \in Nat /\ part.cost \in Nat /\ part.proceeds \in Nat
          /\ part.fee \in Nat
      BY <1>0, <2>2 DEF TypeOK, Allocation, Positive
    <2>5. part \notin allocations
      BY <2>1, <2>2 DEF BooksInv, PartsOf
    <2>6. \A S \in SUBSET allocations : \A k \in AmountFields :
              FieldSum(k, S) \in Nat /\ FieldSum(k, S \cup {part}) = FieldSum(k, S) + part[k]
      <3>1. IsFiniteSet(allocations)
        BY DEF BooksInv
      <3> SUFFICES ASSUME NEW S \in SUBSET allocations, NEW k \in AmountFields
                   PROVE  FieldSum(k, S) \in Nat /\ FieldSum(k, S \cup {part}) = FieldSum(k, S) + part[k]
        OBVIOUS
      <3>2. S \in SUBSET Allocation /\ IsFiniteSet(S) /\ part \notin S
        BY <1>0, <2>5, <3>1, FS_Subset
      <3> QED  BY <2>2, <3>2, FieldAdd
    <2>7. /\ PartsOf(current)' = PartsOf(current) \cup {part}
          /\ \A x : x # current => PartsOf(x)' = PartsOf(x)
          /\ PartsFrom(l)' = PartsFrom(l) \cup {part}
          /\ \A x : x # l => PartsFrom(x)' = PartsFrom(x)
          /\ \A x : PartsOf(x) \in SUBSET allocations /\ PartsFrom(x) \in SUBSET allocations
      BY <2>2, <2>3 DEF PartsOf, PartsFrom
    <2>8. Booked(current, total)'
      <3>1. \A k \in AmountFields : total'[k] = total[k] + part[k]
        BY <2>3 DEF AmountFields
      <3>2. \A k \in AmountFields : FieldSum(k, PartsOf(current)) = total[k]
        BY <2>1 DEF BooksInv, Booked
      <3>3. \A k \in AmountFields : FieldSum(k, PartsOf(current) \cup {part}) = total[k] + part[k]
        BY <2>6, <2>7, <3>2
      <3> QED  BY <2>3, <2>7, <3>1, <3>3 DEF Booked
    <2>9. \A x \in Calculated' : x \in Calculated /\ x # current /\ Booked(x, calculations[x])'
      BY <1>0, <2>1, <2>3, <2>7 DEF BooksInv, Booked, Calculated, EachOnce, AwaitsCalculation
    <2>10. ASSUME NEW x \in Inventory(period), period # None
           PROVE  /\ FieldSum("quantity", PartsFrom(x)') + remaining'[x] = input.lots[x].quantity
                  /\ FieldSum("cost", PartsFrom(x)') + restCost'[x] = Cost(x)
      <3>1. /\ FieldSum("quantity", PartsFrom(x)) + remaining[x] = input.lots[x].quantity
            /\ FieldSum("cost", PartsFrom(x)) + restCost[x] = Cost(x)
            /\ x \in Lots
        BY <2>10 DEF BooksInv, Inventory
      <3>2. CASE x # l
        BY <2>3, <2>4, <2>7, <3>1, <3>2
      <3>3. CASE x = l
        <4>1. /\ FieldSum("quantity", PartsFrom(l)) \in Nat /\ FieldSum("cost", PartsFrom(l)) \in Nat
              /\ FieldSum("quantity", PartsFrom(l)') = FieldSum("quantity", PartsFrom(l)) + part.quantity
              /\ FieldSum("cost", PartsFrom(l)') = FieldSum("cost", PartsFrom(l)) + part.cost
          BY <2>6, <2>7 DEF AmountFields
        <4>2. /\ remaining'[l] = remaining[l] - part.quantity /\ remaining[l] \in Nat
              /\ restCost'[l] = restCost[l] - part.cost /\ restCost[l] \in Int
          BY <2>3, <2>4
        <4> QED  BY <2>4, <3>1, <3>3, <4>1, <4>2
      <3> QED  BY <3>2, <3>3
    <2>11. Inventory(period)' = Inventory(period) /\ \A x : Cost(x)' = Cost(x)
      BY <2>3 DEF Inventory, Cost
    <2>12. IsFiniteSet(allocations')
      BY <2>3, FS_AddElement DEF BooksInv
    <2>13. \A a \in allocations' : a.disposal = current' \/ calculations'[a.disposal] # None
      BY <2>2, <2>3 DEF BooksInv
    <2>14. \A a \in PartsOf(current)' : a.lot \notin eligible'
      BY <2>1, <2>2, <2>3, <2>7 DEF BooksInv
    <2> QED  BY <2>3, <2>7, <2>8, <2>9, <2>10, <2>11, <2>12, <2>13, <2>14 DEF BooksInv
  <1>4. CASE CloseDisposal
    <2>1. /\ current # None /\ current \in Disposals /\ current' = None
          /\ UNCHANGED <<input, period, remaining, restCost, allocations>>
      BY <1>0, <1>4 DEF CloseDisposal, TypeOK
    <2>2. PICK made : /\ calculations' = [calculations EXCEPT ![current] = made]
                      /\ made \in Calculation /\ \A k \in AmountFields : made[k] = total[k]
      <3> DEFINE new == [quantity |-> total.quantity, parts |-> total.parts,
                          cost |-> total.cost, proceeds |-> total.proceeds,
                          fee |-> total.fee, resolved |-> FullyAllocated]
      <3>1. calculations' = [calculations EXCEPT ![current] = new]
        BY <1>4 DEF CloseDisposal
      <3>2. new \in Calculation
        BY <1>0 DEF TypeOK, Totals, Calculation, FullyAllocated
      <3>3. \A k \in AmountFields : new[k] = total[k]
        BY DEF AmountFields
      <3> HIDE DEF new
      <3> QED  BY <3>1, <3>2, <3>3
    <2>3. /\ calculations'[current] = made /\ made # None
          /\ \A d \in Disposals \ {current} : calculations'[d] = calculations[d]
      BY <1>0, <2>1, <2>2 DEF TypeOK
    <2>4. \A x : PartsOf(x)' = PartsOf(x) /\ PartsFrom(x)' = PartsFrom(x)
      BY <2>1 DEF PartsOf, PartsFrom
    <2>5. \A d \in Calculated' : Booked(d, calculations[d])'
      <3> SUFFICES ASSUME NEW d \in Calculated' PROVE Booked(d, calculations[d])'
        OBVIOUS
      <3>1. CASE d = current
        BY <2>1, <2>2, <2>3, <2>4, <3>1 DEF BooksInv, Booked
      <3>2. CASE d # current
        <4>1. d \in Calculated /\ calculations'[d] = calculations[d]
          BY <2>3, <3>2 DEF Calculated
        <4> QED  BY <2>4, <4>1 DEF BooksInv, Booked
      <3> QED  BY <3>1, <3>2
    <2>6. \A a \in allocations' : calculations'[a.disposal] # None
      <3>1. \A a \in allocations : a.disposal \in Disposals
        BY <1>0 DEF Allocation
      <3> QED  BY <2>1, <2>3, <3>1 DEF BooksInv
    <2>7. Inventory(period)' = Inventory(period) /\ \A l : Cost(l)' = Cost(l)
      BY <2>1 DEF Inventory, Cost
    <2> QED  BY <2>1, <2>4, <2>5, <2>6, <2>7 DEF BooksInv
  <1>5. CASE ReturnResult \/ (\E l \in Lots : Refuse(l)) \/ UNCHANGED vars
    <2>1. UNCHANGED <<input, period, remaining, restCost, current, eligible, total,
                      allocations, calculations>>
      BY <1>5 DEF ReturnResult, Refuse, vars, result
    <2>2. /\ \A x : PartsOf(x)' = PartsOf(x) /\ PartsFrom(x)' = PartsFrom(x)
          /\ Calculated' = Calculated
          /\ Inventory(period)' = Inventory(period) /\ \A l : Cost(l)' = Cost(l)
      BY <2>1 DEF PartsOf, PartsFrom, Calculated, Inventory, Cost
    <2> QED  BY <2>1, <2>2 DEF BooksInv, Booked
  <1> QED  BY <1>1, <1>2, <1>3, <1>4, <1>5 DEF Next

\* What AmountsConserved says, with the fields named.
AmountsBooked ==
    /\ period # None => \A l \in Inventory(period) :
          /\ FieldSum("quantity", PartsFrom(l)) + remaining[l] = input.lots[l].quantity
          /\ FieldSum("cost", PartsFrom(l)) + restCost[l] = Cost(l)
    /\ \A d \in Calculated : calculations[d].resolved =>
          /\ FieldSum("proceeds", PartsOf(d)) = input.disposals[d].proceeds
          /\ FieldSum("fee", PartsOf(d)) = input.disposals[d].fee

LEMMA AmountsAreBooked == AmountsConserved <=> AmountsBooked
  BY DEF AmountsConserved, AmountsBooked, FieldSum, Quantity, SumOver, MapThenSumSet,
         MapThenFoldSet

\* Nothing is created or lost: a lot's parts and its rest are its quantity and its cost,
\* and the parts of a disposal that is allocated in full are its proceeds and its fee,
\* however shares are rounded.
THEOREM AmountsAreConserved == Spec => []AmountsConserved
  <1>1. FifoInv /\ BooksInv => AmountsBooked
    BY DEF FifoInv, ShortageIsReal, BooksInv, Booked, AmountFields, AmountsBooked, Calculated
  <1> QED  BY <1>1, AmountsAreBooked, FifoInductive, InitBooks, BooksStep, PTL DEF Spec

HIDE IdAssumption

-----------------------------------------------------------------------------
(* Lots laid end to end.                                                   *)

\* Sums of quantities.
QuantitiesOf(in) == [l \in Lots |-> in.lots[l].quantity]
LotSum(in, S) == SumOver(LAMBDA l : in.lots[l].quantity, S)

LEMMA LotSumIsSum ==
    ASSUME NEW in \in Snapshots, NEW S \in SUBSET Lots
    PROVE  /\ LotSum(in, S) = SumOf(QuantitiesOf(in), S)
           /\ IsFiniteSet(S) /\ \A l \in S : QuantitiesOf(in)[l] \in Nat \ {0}
  <1> DEFINE F(h) == [s \in SUBSET S |->
                        IF s = {} THEN 0 ELSE in.lots[Some(s)].quantity + h[s \ {Some(s)}]]
  <1> DEFINE it == CHOOSE h : h = F(h)
  <1>0. IsFiniteSet(S)
    BY FiniteAssumption, FS_Subset
  <1>1. \A l \in S : /\ QuantitiesOf(in)[l] = in.lots[l].quantity
                     /\ QuantitiesOf(in)[l] \in Nat \ {0}
    BY InputAssumption DEF QuantitiesOf, Snapshot, LotData, Positive
  <1>a. \A l \in S : QuantitiesOf(in)[l] \in Int
    BY <1>1
  <1>2. PICK g \in [SUBSET S -> Int] :
            Adds(g, QuantitiesOf(in), SUBSET S) /\ SumOf(QuantitiesOf(in), S) = g[S]
    BY <1>0, <1>a, SumRecursion
  <1>3. ASSUME NEW h
        PROVE  F(h) = [s \in SUBSET S |->
                          IF s = {} THEN 0 ELSE QuantitiesOf(in)[Some(s)] + h[s \ {Some(s)}]]
    <2>1. \A s \in SUBSET S : s # {} => QuantitiesOf(in)[Some(s)] = in.lots[Some(s)].quantity
      BY <1>1, SomeIn
    <2> QED  BY <2>1
  <1>4. LotSum(in, S) = it[S]
    BY DEF LotSum, SumOver, MapThenSumSet, MapThenFoldSet, Some
  <1> HIDE DEF F
  <1>5. g = F(g)
    BY <1>2, <1>3 DEF Adds
  <1>6. it = F(it)
    BY <1>5
  <1> HIDE DEF it
  <1>7. Adds(it, QuantitiesOf(in), SUBSET S)
    BY <1>3, <1>6 DEF Adds
  <1>8. it[S] = SumOf(QuantitiesOf(in), S)
    <2>1. PICK h : h = it
      OBVIOUS
    <2>2. PICK f : f = QuantitiesOf(in)
      OBVIOUS
    <2>3. IsFiniteSet(S) /\ Adds(h, f, SUBSET S) /\ \A x \in S : f[x] \in Int
      BY <1>0, <1>a, <1>7, <2>1, <2>2
    <2>4. \A T \in SUBSET S : SumOf(f, T) = h[T]
      BY <2>3, SumOfPart
    <2>5. SumOf(f, S) = h[S]
      BY <2>4
    <2> QED  BY <2>1, <2>2, <2>5
  <1> QED  BY <1>0, <1>1, <1>4, <1>8

LEMMA LotSums ==
    ASSUME NEW in \in Snapshots, NEW S \in SUBSET Lots
    PROVE  /\ LotSum(in, S) \in Nat
           /\ LotSum(in, {}) = 0
           /\ \A l \in Lots \ S : LotSum(in, S \cup {l}) = LotSum(in, S) + in.lots[l].quantity
           /\ \A T \in SUBSET S : LotSum(in, T) <= LotSum(in, S)
  <1> DEFINE f == QuantitiesOf(in)
  <1>1. \A T \in SUBSET Lots : LotSum(in, T) = SumOf(f, T) /\ IsFiniteSet(T)
    BY LotSumIsSum
  <1>2. \A l \in Lots : f[l] \in Nat /\ f[l] \in Int /\ f[l] = in.lots[l].quantity
    <2>1. Lots \in SUBSET Lots
      OBVIOUS
    <2>2. \A l \in Lots : f[l] \in Nat \ {0}
      BY <2>1, LotSumIsSum
    <2>3. \A l \in Lots : f[l] = in.lots[l].quantity
      BY DEF QuantitiesOf
    <2> HIDE DEF f
    <2> SUFFICES ASSUME NEW l \in Lots
                 PROVE  f[l] \in Nat /\ f[l] \in Int /\ f[l] = in.lots[l].quantity
      OBVIOUS
    <2>4. f[l] \in Nat
      BY <2>2
    <2> QED  BY <2>3, <2>4
  <1> HIDE DEF f
  <1>3. LotSum(in, S) \in Nat
    BY <1>1, <1>2, SumPositive
  <1>4. LotSum(in, {}) = 0
    BY <1>1, SumEmpty
  <1>5. ASSUME NEW l \in Lots \ S
        PROVE  LotSum(in, S \cup {l}) = LotSum(in, S) + in.lots[l].quantity
    <2>1. SumOf(f, S \cup {l}) = f[l] + SumOf(f, S)
      BY <1>1, <1>2, SumAdd
    <2>2. LotSum(in, S \cup {l}) = SumOf(f, S \cup {l})
      BY <1>1
    <2> QED  BY <1>1, <1>2, <1>3, <2>1, <2>2
  <1>6. ASSUME NEW T \in SUBSET S
        PROVE  LotSum(in, T) <= LotSum(in, S)
    <2>1. SumOf(f, T) <= SumOf(f, S)
      BY <1>1, <1>2, SumOfSubset
    <2> QED  BY <1>1, <2>1
  <1> QED  BY <1>3, <1>4, <1>5, <1>6

\* Where a lot ends, and the sets of lots that lie at the beginning without a gap.
LotEnd(l) == LotStart(l) + input.lots[l].quantity

Gapless(T) ==
    /\ \A x \in T : Older(x) \subseteq T
    /\ \A x, y \in T : input.lots[x].asset = input.lots[y].asset

LEMMA StartIsSum == \A l : LotStart(l) = LotSum(input, Older(l))
  BY DEF LotStart, LotSum, SumOver, MapThenSumSet, MapThenFoldSet

LEMMA SupplyIsSum == \A d : Supply(d) = LotSum(input, Open(d))
  BY DEF Supply, Open, LotSum, SumOver, MapThenSumSet, MapThenFoldSet

LEMMA LotOrder ==
    ASSUME input \in Snapshots
    PROVE  /\ IsFiniteSet(Lots) /\ Inventory(period) \subseteq Lots
           /\ \A x \in Lots : input.lots[x].at \in Nat /\ input.lots[x].quantity \in Nat
           /\ \A x, y \in Lots :
                 /\ Precedes(input.lots, x, y) =>
                       ~Precedes(input.lots, y, x) /\ x # y /\ input.lots[x].at <= input.lots[y].at
                 /\ x = y \/ Precedes(input.lots, x, y) \/ Precedes(input.lots, y, x)
                 /\ \A z \in Lots : Precedes(input.lots, x, y) /\ Precedes(input.lots, y, z)
                                       => Precedes(input.lots, x, z)
           /\ \A T \in SUBSET Lots : T # {} =>
                 \E l \in T : \A x \in T \ {l} : Precedes(input.lots, x, l)
  <1>1. \A x \in Lots : input.lots[x].at \in Nat /\ input.lots[x].quantity \in Nat
    BY SnapshotTyped DEF Positive
  <1>2. Lots \in SUBSET Nat /\ IsFiniteSet(Lots)
    BY IdAssumption, FiniteAssumption
  <1>3. Inventory(period) \subseteq Lots
    BY DEF Inventory
  <1>4. PICK lots : lots = input.lots
    OBVIOUS
  <1>5. \A x \in Lots : lots[x].at \in Nat
    BY <1>1, <1>4
  <1>6. \A x, y \in Lots :
              /\ Precedes(lots, x, y) =>
                    ~Precedes(lots, y, x) /\ x # y /\ lots[x].at <= lots[y].at
              /\ x = y \/ Precedes(lots, x, y) \/ Precedes(lots, y, x)
              /\ \A z \in Lots : Precedes(lots, x, y) /\ Precedes(lots, y, z) => Precedes(lots, x, z)
    BY <1>2, <1>5, PrecedesIsTotal
  <1>7. \A T \in SUBSET Lots : T # {} => \E l \in T : \A x \in T \ {l} : Precedes(lots, x, l)
    BY <1>2, <1>5, LatestExists
  <1> QED  BY <1>1, <1>2, <1>3, <1>4, <1>6, <1>7

\* Such a set ends where its last lot ends.
LEMMA GaplessSums ==
    ASSUME input \in Snapshots, NEW T \in SUBSET Inventory(period), Gapless(T)
    PROVE  /\ LotSum(input, T) \in Nat
           /\ \A x \in T : LotStart(x) \in Nat /\ LotEnd(x) <= LotSum(input, T)
           /\ LotSum(input, T) = 0 \/ \E x \in T : LotEnd(x) = LotSum(input, T)
  <1>1. /\ Inventory(period) \subseteq Lots
        /\ \A x \in Lots : input.lots[x].quantity \in Nat
        /\ \A x, y \in Lots : Precedes(input.lots, x, y) => x # y
    BY LotOrder
  <1>2. T \in SUBSET Lots
    BY <1>1
  <1>3. LotSum(input, T) \in Nat /\ LotSum(input, {}) = 0
    BY <1>2, LotSums
  <1>4. ASSUME NEW x \in T
        PROVE  /\ LotStart(x) \in Nat
               /\ LotEnd(x) = LotSum(input, Older(x) \cup {x})
               /\ LotEnd(x) <= LotSum(input, T)
    <2>1. Older(x) \in SUBSET Lots /\ x \in Lots \ Older(x)
      BY <1>1, <1>2 DEF Older
    <2>2. LotStart(x) = LotSum(input, Older(x)) /\ LotSum(input, Older(x)) \in Nat
      BY <2>1, StartIsSum, LotSums
    <2>3. LotSum(input, Older(x) \cup {x}) = LotSum(input, Older(x)) + input.lots[x].quantity
      BY <2>1, LotSums
    <2>4. Older(x) \cup {x} \in SUBSET T
      BY DEF Gapless
    <2>5. LotSum(input, Older(x) \cup {x}) <= LotSum(input, T)
      BY <1>2, <2>4, LotSums
    <2> QED  BY <2>2, <2>3, <2>5 DEF LotEnd
  <1>5. ASSUME T # {}
        PROVE  \E x \in T : LotEnd(x) = LotSum(input, T)
    <2>1. PICK x \in T : \A y \in T \ {x} : Precedes(input.lots, y, x)
      BY <1>2, <1>5, LotOrder
    <2>2. T = Older(x) \cup {x}
      BY <2>1 DEF Gapless, Older
    <2> QED  BY <1>4, <2>2
  <1> QED  BY <1>3, <1>4, <1>5

\* The lots before a lot and the lots open to a disposal are such sets.
LEMMA OlderIsGapless ==
    ASSUME input \in Snapshots, NEW l \in Inventory(period)
    PROVE  Older(l) \in SUBSET Inventory(period) /\ Gapless(Older(l))
  <1>1. /\ Inventory(period) \subseteq Lots
        /\ \A x, y, z \in Lots : Precedes(input.lots, x, y) /\ Precedes(input.lots, y, z)
                                       => Precedes(input.lots, x, z)
    BY LotOrder
  <1> QED  BY <1>1 DEF Gapless, Older

LEMMA OpenIsGapless ==
    ASSUME input \in Snapshots, NEW d \in Disposals
    PROVE  Open(d) \in SUBSET Inventory(period) /\ Gapless(Open(d))
  <1>1. /\ Inventory(period) \subseteq Lots
        /\ \A x \in Lots : input.lots[x].at \in Nat
        /\ \A x, y \in Lots : Precedes(input.lots, x, y) => input.lots[x].at <= input.lots[y].at
        /\ input.disposals[d].at \in Nat
    BY LotOrder, SnapshotTyped
  <1> QED  BY <1>1 DEF Gapless, Older, Open

\* Lots of an asset follow one another without gaps, and what has been acquired by a
\* moment ends where a lot ends.
LotsTile ==
    \A l \in Inventory(period) :
        /\ LotStart(l) \in Nat
        /\ \A x \in Older(l) : LotEnd(x) <= LotStart(l)
        /\ LotStart(l) = 0 \/ \E x \in Older(l) : LotEnd(x) = LotStart(l)

SuppliesGrow ==
    \A d \in Disposals :
        /\ Supply(d) \in Nat
        /\ \A l \in Open(d) : LotEnd(l) <= Supply(d)
        /\ Supply(d) = 0 \/ \E l \in Open(d) : LotEnd(l) = Supply(d)
        /\ \A e \in Disposals : /\ input.disposals[d].asset = input.disposals[e].asset
                                /\ Precedes(input.disposals, d, e)
                                => Supply(d) <= Supply(e)

LEMMA LotsDoTile == input \in Snapshots => LotsTile
  <1> SUFFICES ASSUME input \in Snapshots, NEW l \in Inventory(period)
               PROVE  /\ LotStart(l) \in Nat
                      /\ \A x \in Older(l) : LotEnd(x) <= LotStart(l)
                      /\ LotStart(l) = 0 \/ \E x \in Older(l) : LotEnd(x) = LotStart(l)
    BY DEF LotsTile
  <1>1. LotStart(l) = LotSum(input, Older(l))
    BY StartIsSum
  <1> QED  BY <1>1, OlderIsGapless, GaplessSums

LEMMA SuppliesDoGrow == input \in Snapshots => SuppliesGrow
  <1> SUFFICES ASSUME input \in Snapshots, NEW d \in Disposals
               PROVE  /\ Supply(d) \in Nat
                      /\ \A l \in Open(d) : LotEnd(l) <= Supply(d)
                      /\ Supply(d) = 0 \/ \E l \in Open(d) : LotEnd(l) = Supply(d)
                      /\ \A e \in Disposals :
                            /\ input.disposals[d].asset = input.disposals[e].asset
                            /\ Precedes(input.disposals, d, e)
                            => Supply(d) <= Supply(e)
    BY DEF SuppliesGrow
  <1>1. Supply(d) = LotSum(input, Open(d))
    BY SupplyIsSum
  <1>2. /\ Supply(d) \in Nat
        /\ \A l \in Open(d) : LotEnd(l) <= Supply(d)
        /\ Supply(d) = 0 \/ \E l \in Open(d) : LotEnd(l) = Supply(d)
    BY <1>1, OpenIsGapless, GaplessSums
  <1>3. ASSUME NEW e \in Disposals, input.disposals[d].asset = input.disposals[e].asset,
               Precedes(input.disposals, d, e)
        PROVE  Supply(d) <= Supply(e)
    <2>1. /\ input.disposals[d].at \in Nat /\ input.disposals[e].at \in Nat
          /\ \A x \in Lots : input.lots[x].at \in Nat
      BY SnapshotTyped
    <2>2. input.disposals[d].at <= input.disposals[e].at
      BY <1>3, <2>1 DEF Precedes
    <2>3. Open(d) \in SUBSET Open(e) /\ Open(e) \in SUBSET Lots
      BY <1>3, <2>1, <2>2 DEF Open, Inventory
    <2>4. LotSum(input, Open(d)) <= LotSum(input, Open(e))
      BY <2>3, LotSums
    <2> QED  BY <1>1, <2>4, SupplyIsSum
  <1> QED  BY <1>2, <1>3

-----------------------------------------------------------------------------
(* Disposals one after another.                                            *)

\* The recursion behind Consumed, over the sets of disposals in D.
Latest(data, T) == CHOOSE d \in T : \A x \in T \ {d} : Precedes(data, x, d)

Consumes(g, data, supply, D) ==
    g = [T \in D |->
            IF T = {} THEN 0
            ELSE Smaller(g[T \ {Latest(data, T)}] + data[Latest(data, T)].quantity,
                         supply[Latest(data, T)])]

Datable(data) == \A d \in Disposals : data[d].at \in Nat /\ data[d].quantity \in Nat

LEMMA LatestIsLatest ==
    ASSUME NEW data, Datable(data), NEW T \in SUBSET Disposals, T # {}
    PROVE  /\ Latest(data, T) \in T
           /\ \A x \in T \ {Latest(data, T)} : Precedes(data, x, Latest(data, T))
  <1>1. Disposals \in SUBSET Nat /\ IsFiniteSet(Disposals)
    BY IdAssumption, FiniteAssumption
  <1>2. \A d \in Disposals : data[d].at \in Nat
    BY DEF Datable
  <1>3. \E d \in T : \A x \in T \ {d} : Precedes(data, x, d)
    BY <1>1, <1>2, LatestExists
  <1> QED  BY <1>3 DEF Latest

LEMMA LatestIsUnique ==
    ASSUME NEW data, Datable(data), NEW T \in SUBSET Disposals, NEW d \in T,
           \A x \in T \ {d} : Precedes(data, x, d)
    PROVE  Latest(data, T) = d
  <1>1. Disposals \in SUBSET Nat
    BY IdAssumption
  <1>2. \A x \in Disposals : data[x].at \in Nat
    BY DEF Datable
  <1>3. \A x, y \in Disposals : Precedes(data, x, y) => ~Precedes(data, y, x)
    BY <1>1, <1>2, PrecedesIsTotal
  <1>4. Latest(data, T) \in T
        /\ \A x \in T \ {Latest(data, T)} : Precedes(data, x, Latest(data, T))
    BY LatestIsLatest
  <1> QED  BY <1>3, <1>4

LEMMA EarlierBelow ==
    ASSUME NEW data, Datable(data), NEW S \in SUBSET Disposals, NEW n \in Nat,
           NEW T \in UpTo(S, n + 1), T # {}
    PROVE  T \ {Latest(data, T)} \in UpTo(S, n) /\ Latest(data, T) \in Disposals
  <1>1. T \in SUBSET S /\ T \in SUBSET Disposals /\ Cardinality(T) <= n + 1
    BY DEF UpTo
  <1>2. Latest(data, T) \in T
    BY <1>1, LatestIsLatest
  <1>3. IsFiniteSet(T) /\ Cardinality(T) \in Nat
    BY <1>1, FiniteAssumption, FS_Subset, FS_CardinalityType
  <1>4. Cardinality(T \ {Latest(data, T)}) = Cardinality(T) - 1
    BY <1>2, <1>3, FS_RemoveElement
  <1> QED  BY <1>1, <1>2, <1>3, <1>4 DEF UpTo

LEMMA SmallerIsNat == \A a, b \in Nat : Smaller(a, b) \in Nat
  BY DEF Smaller

\* The recursion has a solution, and the solution of a part is part of it.
LEMMA TakenExists ==
    ASSUME NEW data, Datable(data), NEW supply \in [Disposals -> Nat]
    PROVE  \A n \in Nat : \E g \in [UpTo(Disposals, n) -> Nat] :
               Consumes(g, data, supply, UpTo(Disposals, n))
  <1> DEFINE D(n) == UpTo(Disposals, n)
             N == {n \in Nat : \E g \in [D(n) -> Nat] : Consumes(g, data, supply, D(n))}
  <1>0. \A T \in SUBSET Disposals : IsFiniteSet(T) /\ Cardinality(T) \in Nat
    BY FiniteAssumption, FS_Subset, FS_CardinalityType
  <1>1. 0 \in N
    <2> DEFINE g == [T \in D(0) |-> 0]
    <2>1. \A T \in D(0) : T = {}
      BY <1>0, FS_EmptySet DEF UpTo
    <2>2. Consumes(g, data, supply, D(0))
      BY <2>1 DEF Consumes
    <2>3. g \in [D(0) -> Nat]
      OBVIOUS
    <2> QED  BY <2>2, <2>3
  <1>2. ASSUME NEW n \in N
        PROVE  n + 1 \in N
    <2>0. n \in Nat /\ D(n) \subseteq D(n + 1)
      BY <1>0 DEF UpTo
    <2>1. PICK g \in [D(n) -> Nat] : Consumes(g, data, supply, D(n))
      OBVIOUS
    <2> DEFINE h == [T \in D(n + 1) |->
                        IF T = {} THEN 0
                        ELSE Smaller(g[T \ {Latest(data, T)}] + data[Latest(data, T)].quantity,
                                     supply[Latest(data, T)])]
    <2>2. \A T \in D(n) : h[T] = g[T]
      BY <2>0, <2>1 DEF Consumes
    <2>3. \A T \in D(n + 1) : T # {} =>
              T \ {Latest(data, T)} \in D(n) /\ Latest(data, T) \in Disposals
      BY <2>0, EarlierBelow
    <2>4. h \in [D(n + 1) -> Nat]
      <3> SUFFICES ASSUME NEW T \in D(n + 1), T # {}
                   PROVE  Smaller(g[T \ {Latest(data, T)}] + data[Latest(data, T)].quantity,
                                  supply[Latest(data, T)]) \in Nat
        OBVIOUS
      <3>1. g[T \ {Latest(data, T)}] \in Nat /\ supply[Latest(data, T)] \in Nat
        BY <2>1, <2>3
      <3>2. data[Latest(data, T)].quantity \in Nat
        BY <2>3 DEF Datable
      <3>3. g[T \ {Latest(data, T)}] + data[Latest(data, T)].quantity \in Nat
        BY <3>1, <3>2
      <3> QED  BY <3>1, <3>3, SmallerIsNat
    <2>5. h = [T \in D(n + 1) |->
                  IF T = {} THEN 0
                  ELSE Smaller(h[T \ {Latest(data, T)}] + data[Latest(data, T)].quantity,
                               supply[Latest(data, T)])]
      BY <2>2, <2>3
    <2> HIDE DEF h
    <2>6. Consumes(h, data, supply, D(n + 1))
      BY <2>5 DEF Consumes
    <2> QED  BY <2>0, <2>4, <2>6
  <1> HIDE DEF N
  <1>3. N = Nat
    <2>1. N \in SUBSET Nat
      BY DEF N
    <2> QED  BY <1>1, <1>2, <2>1, NaturalsBySteps
  <1> QED  BY <1>3 DEF N

ConsumesAll(g, data, supply) == Consumes(g, data, supply, SUBSET Disposals)

AgreesOnParts(g, data, supply) ==
    \A S \in SUBSET Disposals : \A h :
        Consumes(h, data, supply, SUBSET S) => \A T \in SUBSET S : g[T] = h[T]

LEMMA TakenAgrees ==
    ASSUME NEW data, Datable(data), NEW supply, NEW g, ConsumesAll(g, data, supply)
    PROVE  AgreesOnParts(g, data, supply)
  <1> SUFFICES ASSUME NEW S \in SUBSET Disposals, NEW h, Consumes(h, data, supply, SUBSET S)
               PROVE  \A T \in SUBSET S : g[T] = h[T]
    BY DEF AgreesOnParts
  <1> USE DEF ConsumesAll
  <1> DEFINE N == {n \in Nat : \A T \in UpTo(S, n) : g[T] = h[T]}
  <1>0. \A T \in SUBSET S : IsFiniteSet(T) /\ Cardinality(T) \in Nat
    BY FiniteAssumption, FS_Subset, FS_CardinalityType
  <1>1. 0 \in N
    <2>1. \A T \in UpTo(S, 0) : T = {} /\ T \in SUBSET S
      BY <1>0, FS_EmptySet DEF UpTo
    <2>2. g[{}] = 0 /\ h[{}] = 0
      BY DEF Consumes
    <2> QED  BY <2>1, <2>2
  <1>2. ASSUME NEW n \in N
        PROVE  n + 1 \in N
    <2>0. n \in Nat
      OBVIOUS
    <2> SUFFICES ASSUME NEW T \in UpTo(S, n + 1) PROVE g[T] = h[T]
      BY <2>0
    <2>1. T \in SUBSET S /\ T \in SUBSET Disposals
      BY DEF UpTo
    <2>2. CASE T = {}
      BY <2>1, <2>2 DEF Consumes
    <2>3. CASE T # {}
      <3> DEFINE y == Latest(data, T)
      <3>1. T \ {y} \in UpTo(S, n)
        BY <2>0, <2>3, EarlierBelow
      <3>2. g[T \ {y}] = h[T \ {y}]
        BY <3>1
      <3>3. g[T] = Smaller(g[T \ {y}] + data[y].quantity, supply[y])
        BY <2>1, <2>3 DEF Consumes
      <3>4. h[T] = Smaller(h[T \ {y}] + data[y].quantity, supply[y])
        BY <2>1, <2>3 DEF Consumes
      <3> QED  BY <3>2, <3>3, <3>4
    <2> QED  BY <2>2, <2>3
  <1> HIDE DEF N
  <1>3. N = Nat
    <2>1. N \in SUBSET Nat
      BY DEF N
    <2> QED  BY <1>1, <1>2, <2>1, NaturalsBySteps
  <1> QED  BY <1>0, <1>3 DEF N, UpTo

\* What disposals consume depends on nothing but them and what they may draw on.
SupplyOf == [d \in Disposals |-> Supply(d)]
Taken(data, supply) == CHOOSE g : Consumes(g, data, supply, SUBSET Disposals)

LEMMA TakenTyped ==
    ASSUME NEW data, Datable(data), NEW supply \in [Disposals -> Nat]
    PROVE  /\ Consumes(Taken(data, supply), data, supply, SUBSET Disposals)
           /\ \A T \in SUBSET Disposals : Taken(data, supply)[T] \in Nat
  <1>1. /\ Cardinality(Disposals) \in Nat
        /\ UpTo(Disposals, Cardinality(Disposals)) = SUBSET Disposals
    BY FiniteAssumption, FS_CardinalityType, FS_Subset DEF UpTo
  <1>2. PICK g \in [SUBSET Disposals -> Nat] : Consumes(g, data, supply, SUBSET Disposals)
    <2>1. \E g \in [UpTo(Disposals, Cardinality(Disposals)) -> Nat] :
              Consumes(g, data, supply, UpTo(Disposals, Cardinality(Disposals)))
      BY <1>1, TakenExists
    <2> QED  BY <1>1, <2>1
  <1>3. Consumes(Taken(data, supply), data, supply, SUBSET Disposals)
    BY <1>2 DEF Taken
  <1>4. \A T \in SUBSET Disposals : g[T] = Taken(data, supply)[T]
    <2>1. AgreesOnParts(g, data, supply)
      BY <1>2, TakenAgrees DEF ConsumesAll
    <2> QED  BY <1>3, <2>1 DEF AgreesOnParts
  <1> QED  BY <1>2, <1>3, <1>4

LEMMA InputIsDatable ==
    input \in Snapshots => Datable(input.disposals) /\ SupplyOf \in [Disposals -> Nat]
  <1> SUFFICES ASSUME input \in Snapshots
               PROVE  Datable(input.disposals) /\ SupplyOf \in [Disposals -> Nat]
    OBVIOUS
  <1>1. Datable(input.disposals)
    BY SnapshotTyped DEF Datable, Positive
  <1>2. \A d \in Disposals : Supply(d) \in Nat
    BY SuppliesDoGrow DEF SuppliesGrow
  <1> QED  BY <1>1, <1>2 DEF SupplyOf

LEMMA ConsumedIsTaken ==
    input \in Snapshots =>
        \A S \in SUBSET Disposals : Consumed(S) = Taken(input.disposals, SupplyOf)[S]
  <1> SUFFICES ASSUME input \in Snapshots, NEW S \in SUBSET Disposals
               PROVE  Consumed(S) = Taken(input.disposals, SupplyOf)[S]
    OBVIOUS
  <1> DEFINE F(h) == [T \in SUBSET S |->
                        IF T = {} THEN 0
                        ELSE Smaller(h[T \ {Latest(input.disposals, T)}]
                                        + input.disposals[Latest(input.disposals, T)].quantity,
                                     Supply(Latest(input.disposals, T)))]
             it == CHOOSE h : h = F(h)
             g == Taken(input.disposals, SupplyOf)
             part == [T \in SUBSET S |-> g[T]]
  <1>1. Consumed(S) = it[S]
    BY DEF Consumed, Latest
  <1>2. ASSUME NEW h
        PROVE  F(h) = [T \in SUBSET S |->
                          IF T = {} THEN 0
                          ELSE Smaller(h[T \ {Latest(input.disposals, T)}]
                                          + input.disposals[Latest(input.disposals, T)].quantity,
                                       SupplyOf[Latest(input.disposals, T)])]
    <2>1. \A T \in SUBSET S : T # {} => Latest(input.disposals, T) \in Disposals
      BY InputIsDatable, LatestIsLatest
    <2>2. \A T \in SUBSET S : T # {} =>
              SupplyOf[Latest(input.disposals, T)] = Supply(Latest(input.disposals, T))
      BY <2>1 DEF SupplyOf
    <2> QED  BY <2>2
  <1> HIDE DEF F
  <1>3. Consumes(g, input.disposals, SupplyOf, SUBSET Disposals)
    BY InputIsDatable, TakenTyped
  <1> HIDE DEF g
  <1>4. part = F(part)
    <2>1. \A T \in SUBSET S : T # {} => T \ {Latest(input.disposals, T)} \in SUBSET S
      OBVIOUS
    <2>2. \A T \in SUBSET S :
              part[T] = IF T = {} THEN 0
                        ELSE Smaller(part[T \ {Latest(input.disposals, T)}]
                                        + input.disposals[Latest(input.disposals, T)].quantity,
                                     SupplyOf[Latest(input.disposals, T)])
      BY <1>3, <2>1 DEF Consumes
    <2> QED  BY <1>2, <2>2
  <1> HIDE DEF part
  <1>5. it = F(it)
    BY <1>4
  <1> HIDE DEF it
  <1>6. Consumes(it, input.disposals, SupplyOf, SUBSET S)
    BY <1>2, <1>5 DEF Consumes
  <1>7. \A T \in SUBSET S : g[T] = it[T]
    <2>1. ConsumesAll(g, input.disposals, SupplyOf)
      BY <1>3 DEF ConsumesAll
    <2>2. AgreesOnParts(g, input.disposals, SupplyOf)
      BY <2>1, InputIsDatable, TakenAgrees
    <2> QED  BY <1>6, <2>2 DEF AgreesOnParts
  <1> QED  BY <1>1, <1>7 DEF g

\* What a set of disposals has consumed, and what one more after them adds.
ConsumedInTurn ==
    /\ Consumed({}) = 0
    /\ \A S \in SUBSET Disposals : Consumed(S) \in Nat
    /\ \A S \in SUBSET Disposals : \A d \in Disposals \ S :
          (\A x \in S : Precedes(input.disposals, x, d)) =>
              Consumed(S \cup {d})
                = Smaller(Consumed(S) + input.disposals[d].quantity, Supply(d))

LEMMA ConsumedLaws == input \in Snapshots => ConsumedInTurn
  <1> SUFFICES ASSUME input \in Snapshots PROVE ConsumedInTurn
    OBVIOUS
  <1> DEFINE data == input.disposals
             g == Taken(data, SupplyOf)
  <1>1. Consumes(g, data, SupplyOf, SUBSET Disposals)
        /\ \A T \in SUBSET Disposals : g[T] \in Nat
    BY InputIsDatable, TakenTyped
  <1>2. \A S \in SUBSET Disposals : Consumed(S) = g[S]
    BY ConsumedIsTaken
  <1>3. Datable(data) /\ \A d \in Disposals : SupplyOf[d] = Supply(d)
    BY InputIsDatable DEF SupplyOf
  <1> HIDE DEF g
  <1>4. Consumed({}) = 0
    BY <1>1, <1>2 DEF Consumes
  <1>5. ASSUME NEW S \in SUBSET Disposals, NEW d \in Disposals \ S,
               \A x \in S : Precedes(input.disposals, x, d)
        PROVE  Consumed(S \cup {d})
                 = Smaller(Consumed(S) + input.disposals[d].quantity, Supply(d))
    <2>1. PICK T : T = S \cup {d}
      OBVIOUS
    <2>2. T \in SUBSET Disposals /\ d \in T /\ T \ {d} = S /\ T # {}
      BY <2>1
    <2>3. Latest(data, T) = d
      <3>1. \A x \in T \ {d} : Precedes(data, x, d)
        BY <1>5, <2>2
      <3> HIDE DEF data
      <3> QED  BY <1>3, <2>2, <3>1, LatestIsUnique
    <2>4. g[T] = Smaller(g[T \ {Latest(data, T)}] + data[Latest(data, T)].quantity,
                         SupplyOf[Latest(data, T)])
      BY <1>1, <2>2 DEF Consumes
    <2>5. g[T] = Smaller(g[S] + data[d].quantity, Supply(d))
      BY <1>3, <2>2, <2>3, <2>4
    <2> QED  BY <1>2, <2>1, <2>2, <2>5
  <1> QED  BY <1>1, <1>2, <1>4, <1>5 DEF ConsumedInTurn

\* Within a run neither the lots nor what is consumed of them change.
LEMMA GeometryStays ==
    ASSUME input \in Snapshots, UNCHANGED <<input, period>>
    PROVE  /\ Inventory(period)' = Inventory(period)
           /\ Sales(period)' = Sales(period)
           /\ \A d : Open(d)' = Open(d) /\ Rivals(d)' = Rivals(d) /\ Supply(d)' = Supply(d)
           /\ \A l : LotStart(l)' = LotStart(l) /\ LotEnd(l)' = LotEnd(l)
           /\ \A S \in SUBSET Disposals : Consumed(S)' = Consumed(S)
  <1>1. /\ Inventory(period)' = Inventory(period)
        /\ Sales(period)' = Sales(period)
    BY DEF Inventory, Sales
  <1>2. \A l : Older(l)' = Older(l)
    BY <1>1 DEF Older
  <1>3. \A d : Open(d)' = Open(d) /\ Rivals(d)' = Rivals(d)
    BY <1>1 DEF Open, Rivals
  <1>4. \A l : LotStart(l)' = LotStart(l)
    <2>1. (\A l : LotStart(l) = LotSum(input, Older(l)))'
      BY StartIsSum, PTL
    <2> QED  BY <1>2, <2>1, StartIsSum
  <1>5. \A l : LotEnd(l)' = LotEnd(l)
    BY <1>4 DEF LotEnd
  <1>6. \A d : Supply(d)' = Supply(d)
    <2>1. (\A d : Supply(d) = LotSum(input, Open(d)))'
      BY SupplyIsSum, PTL
    <2> QED  BY <1>3, <2>1, SupplyIsSum
  <1>7. SupplyOf' = SupplyOf
    BY <1>6 DEF SupplyOf
  <1>8. \A S \in SUBSET Disposals : Consumed(S)' = Consumed(S)
    <2>1. (input \in Snapshots =>
              \A S \in SUBSET Disposals : Consumed(S) = Taken(input.disposals, SupplyOf)[S])'
      BY ConsumedIsTaken, PTL
    <2> QED  BY <1>7, <2>1, ConsumedIsTaken
  <1> QED  BY <1>1, <1>3, <1>4, <1>5, <1>6, <1>8

-----------------------------------------------------------------------------
(* Lots against what has been taken of their asset.                        *)

\* The part of the interval between start and end that lies before t.
Covered(t, start, end) == Smaller(t, end) - Smaller(t, start)

\* What two intervals have in common is what is covered at the end and was not at the start.
LEMMA OverlapIsCovered ==
    ASSUME NEW from \in Nat, NEW to \in Nat, NEW start \in Nat, NEW end \in Nat,
           from <= to, start <= end
    PROVE  Overlap(from, to, start, end) = Covered(to, start, end) - Covered(from, start, end)
  <1>1. \A a, b \in Int : Max({a, b}) = IF a <= b THEN b ELSE a
    <2> SUFFICES ASSUME NEW a \in Int, NEW b \in Int
                 PROVE  Max({a, b}) = IF a <= b THEN b ELSE a
      OBVIOUS
    <2>1. \E x \in {a, b} : \A y \in {a, b} : x >= y
      OBVIOUS
    <2>2. Max({a, b}) \in {a, b} /\ \A y \in {a, b} : Max({a, b}) >= y
      BY <2>1 DEF Max
    <2> QED  BY <2>2
  <1>2. Max({from, start}) = IF from <= start THEN start ELSE from
    BY <1>1
  <1>3. Smaller(to, end) - Max({from, start}) \in Int
    BY <1>2 DEF Smaller
  <1>4. Overlap(from, to, start, end)
          = IF 0 <= Smaller(to, end) - Max({from, start})
            THEN Smaller(to, end) - Max({from, start}) ELSE 0
    BY <1>1, <1>3 DEF Overlap
  <1> QED  BY <1>2, <1>4 DEF Smaller, Covered

-----------------------------------------------------------------------------
(* Where the run has got to on each asset.                                 *)

InHand == IF current = None THEN {} ELSE {current}
AssetOf(d) == input.disposals[d].asset
Done(x) == {d \in Calculated : AssetOf(d) = x}

\* How much of an asset the disposals so far have taken, the one in hand included.
Position(x) ==
    Consumed(Done(x)) + (IF \E d \in InHand : AssetOf(d) = x THEN total.quantity ELSE 0)

\* How much of lot l has been taken when the run has got to t on its asset.
Before(t, l) == Covered(t, LotStart(l), LotEnd(l))

TakenFrom(d, l) == FieldSum("quantity", PartsOf(d) \cap PartsFrom(l))
AssetLots(d) == {l \in Inventory(period) : input.lots[l].asset = AssetOf(d)}

\* The disposals of the period come one after another.
SalesInOrder ==
    /\ period # None => Sales(period) = Calculated \cup pending \cup InHand
    /\ \A d \in Calculated : \A e \in pending \cup InHand : Precedes(input.disposals, d, e)
    /\ \A d \in InHand : \A e \in pending : Precedes(input.disposals, d, e)

\* What is missing from the lots is what lies before the position, and there is as much
\* as has been taken.
LotsInPlace ==
    /\ period # None => \A l \in Inventory(period) :
          remaining[l] = input.lots[l].quantity - Before(Position(input.lots[l].asset), l)
    /\ \A d \in pending \cup InHand : Position(AssetOf(d)) <= Supply(d)

\* Each disposal has the pieces between the position it found and the one it left.
Placed(d) ==
    /\ Consumed(Rivals(d)) \in Nat /\ Consumed(Rivals(d) \cup {d}) \in Nat
    /\ Consumed(Rivals(d)) <= Consumed(Rivals(d) \cup {d})
    /\ \A l \in AssetLots(d) :
          TakenFrom(d, l) = Before(Consumed(Rivals(d) \cup {d}), l)
                               - Before(Consumed(Rivals(d)), l)

BeingPlaced(d) ==
    \A l \in AssetLots(d) :
        TakenFrom(d, l) = Before(Position(AssetOf(d)), l) - Before(Consumed(Done(AssetOf(d))), l)

PartsInPlace == (\A d \in Calculated : Placed(d)) /\ (\A d \in InHand : BeingPlaced(d))

PlacesInv == SalesInOrder /\ LotsInPlace /\ PartsInPlace

\* Lots are intervals of the length of their quantity.
LEMMA LotsAreIntervals ==
    ASSUME input \in Snapshots, NEW l \in Inventory(period)
    PROVE  /\ l \in Lots /\ input.lots[l].quantity \in Nat /\ input.lots[l].quantity > 0
           /\ LotStart(l) \in Nat /\ LotEnd(l) \in Nat
           /\ LotEnd(l) = LotStart(l) + input.lots[l].quantity
  <1>1. l \in Lots
    BY DEF Inventory
  <1>2. input.lots[l].quantity \in Nat /\ input.lots[l].quantity > 0
    BY <1>1, SnapshotTyped DEF Positive
  <1>3. LotStart(l) \in Nat
    BY LotsDoTile DEF LotsTile
  <1> QED  BY <1>1, <1>2, <1>3 DEF LotEnd

LEMMA PositionTyped ==
    ASSUME TypeOK
    PROVE  \A x : /\ Done(x) \in SUBSET Disposals
                  /\ Consumed(Done(x)) \in Nat /\ Position(x) \in Nat
  <1>1. input \in Snapshots /\ total.quantity \in Nat
    BY DEF TypeOK, Totals
  <1>2. \A x : Done(x) \in SUBSET Disposals
    BY DEF Done, Calculated
  <1>3. \A S \in SUBSET Disposals : Consumed(S) \in Nat
    BY <1>1, ConsumedLaws DEF ConsumedInTurn
  <1> QED  BY <1>1, <1>2, <1>3 DEF Position

LEMMA InitPlaces == Init => PlacesInv
  BY DEF Init, PlacesInv, SalesInOrder, LotsInPlace, PartsInPlace, InHand, Calculated

-----------------------------------------------------------------------------
(* The order of the disposals.                                             *)

LEMMA SalesStep ==
    ASSUME FifoInv, SalesInOrder, [Next]_vars
    PROVE  SalesInOrder'
  <1>0. TypeOK /\ None \notin Disposals /\ None \notin Periods
    BY IdAssumption DEF FifoInv
  <1>1. ASSUME NEW p \in Periods, StartRun(p) PROVE SalesInOrder'
    <2>1. /\ Calculated' = {} /\ InHand' = {} /\ pending' = Sales(p)
          /\ input' = input /\ period' = p
      BY <1>1 DEF StartRun, Calculated, InHand
    <2>2. Sales(period)' = Sales(p)
      BY <2>1 DEF Sales
    <2> QED  BY <2>1, <2>2 DEF SalesInOrder
  <1>2. ASSUME NEW d \in Disposals, TakeDisposal(d) PROVE SalesInOrder'
    <2>1. /\ IsFirst(input.disposals, pending, d) /\ InHand = {} /\ InHand' = {d}
          /\ pending' = pending \ {d} /\ UNCHANGED <<input, period, calculations>>
      BY <1>0, <1>2 DEF TakeDisposal, InHand, result
    <2>2. Calculated' = Calculated /\ Sales(period)' = Sales(period)
          /\ \A x, y : Precedes(input.disposals, x, y)' = Precedes(input.disposals, x, y)
      BY <2>1 DEF Calculated, Sales, Precedes
    <2>3. d \in pending /\ \A e \in pending \ {d} : Precedes(input.disposals, d, e)
      BY <2>1 DEF IsFirst
    <2> QED  BY <2>1, <2>2, <2>3 DEF SalesInOrder
  <1>3. CASE CloseDisposal
    <2>1. /\ InHand = {current} /\ InHand' = {} /\ current \in Disposals
          /\ UNCHANGED <<input, period, pending>>
          /\ \E made \in Calculation : calculations' = [calculations EXCEPT ![current] = made]
      <3>1. [quantity |-> total.quantity, parts |-> total.parts, cost |-> total.cost,
             proceeds |-> total.proceeds, fee |-> total.fee, resolved |-> FullyAllocated]
               \in Calculation
        BY <1>0 DEF TypeOK, Totals, Calculation, FullyAllocated
      <3> QED  BY <1>0, <1>3, <3>1 DEF CloseDisposal, InHand, TypeOK
    <2>2. Calculated' = Calculated \cup {current}
      BY <1>0, <2>1, NoneAssumption DEF Calculated, TypeOK
    <2>3. Sales(period)' = Sales(period)
          /\ \A x, y : Precedes(input.disposals, x, y)' = Precedes(input.disposals, x, y)
      BY <2>1 DEF Sales, Precedes
    <2> QED  BY <2>1, <2>2, <2>3 DEF SalesInOrder
  <1>4. CASE ReturnResult \/ (\E l \in Lots : Refuse(l) \/ Allocate(l)) \/ UNCHANGED vars
    <2>1. UNCHANGED <<input, period, pending, current, calculations>>
      BY <1>4 DEF ReturnResult, Refuse, Allocate, vars, result
    <2>2. /\ Calculated' = Calculated /\ InHand' = InHand /\ Sales(period)' = Sales(period)
          /\ \A x, y : Precedes(input.disposals, x, y)' = Precedes(input.disposals, x, y)
      BY <2>1 DEF Calculated, InHand, Sales, Precedes
    <2> QED  BY <2>1, <2>2 DEF SalesInOrder
  <1> QED  BY <1>1, <1>2, <1>3, <1>4 DEF Next

-----------------------------------------------------------------------------
(* Every step keeps the places.                                            *)

\* Before the first disposal nothing is taken.
LEMMA StartPlaces ==
    ASSUME FifoInv, FifoInv', NEW p \in Periods, StartRun(p)
    PROVE  LotsInPlace' /\ PartsInPlace'
  <1>1. /\ Calculated' = {} /\ InHand' = {} /\ input' = input /\ period' = p
        /\ input \in Snapshots /\ input' \in Snapshots /\ pending' \subseteq Disposals
        /\ remaining' = [l \in Lots |-> IF l \in Inventory(p) THEN input.lots[l].quantity ELSE 0]
    BY DEF StartRun, Calculated, InHand, FifoInv, TypeOK
  <1>2. \A x : Position(x)' = 0
    <2>1. (input \in Snapshots => ConsumedInTurn)'
      BY ConsumedLaws, PTL
    <2>2. \A x : Done(x)' = {}
      BY <1>1 DEF Done
    <2>3. Consumed({})' = 0
      BY <1>1, <2>1 DEF ConsumedInTurn
    <2> QED  BY <1>1, <2>2, <2>3 DEF Position
  <1>3. Inventory(period)' = Inventory(p) /\ Inventory(p) \subseteq Lots
    BY <1>1 DEF Inventory
  <1>4. ASSUME NEW l \in Inventory(p) PROVE Before(0, l)' = 0
    <2>1. (input \in Snapshots => LotsTile)'
      BY LotsDoTile, PTL
    <2>2. LotStart(l)' \in Nat /\ input.lots[l].quantity \in Nat
      BY <1>1, <1>3, <2>1, SnapshotTyped DEF LotsTile, Positive
    <2>3. LotEnd(l)' \in Nat
      BY <1>1, <2>2 DEF LotEnd
    <2> QED  BY <2>2, <2>3 DEF Before, Covered, Smaller
  <1>5. (input \in Snapshots => SuppliesGrow)'
    BY SuppliesDoGrow, PTL
  <1>6. \A l \in Inventory(p) : /\ remaining'[l] = input.lots[l].quantity
                                /\ input.lots[l].quantity \in Nat
    BY <1>1, <1>3, SnapshotTyped DEF Positive
  <1>7. LotsInPlace'
    BY <1>1, <1>2, <1>3, <1>4, <1>5, <1>6 DEF LotsInPlace, SuppliesGrow
  <1> QED  BY <1>1, <1>7 DEF PartsInPlace

\* What stays the same within a run.
LEMMA StandingStill ==
    ASSUME TypeOK, UNCHANGED <<input, period>>
    PROVE  /\ input \in Snapshots
           /\ \A l : LotStart(l)' = LotStart(l) /\ LotEnd(l)' = LotEnd(l)
           /\ \A t, l : Before(t, l)' = Before(t, l)
           /\ Inventory(period)' = Inventory(period)
           /\ \A d : /\ AssetLots(d)' = AssetLots(d) /\ AssetOf(d)' = AssetOf(d)
                     /\ Rivals(d)' = Rivals(d) /\ Supply(d)' = Supply(d)
           /\ \A S \in SUBSET Disposals : Consumed(S)' = Consumed(S)
           /\ \A d : Rivals(d) \in SUBSET Disposals
  <1>1. input \in Snapshots
    BY DEF TypeOK
  <1>2. /\ Inventory(period)' = Inventory(period)
        /\ \A l : LotStart(l)' = LotStart(l) /\ LotEnd(l)' = LotEnd(l)
        /\ \A d : Rivals(d)' = Rivals(d) /\ Supply(d)' = Supply(d)
        /\ \A S \in SUBSET Disposals : Consumed(S)' = Consumed(S)
    BY <1>1, GeometryStays
  <1>3. \A d : AssetLots(d)' = AssetLots(d) /\ AssetOf(d)' = AssetOf(d)
    BY <1>2 DEF AssetLots, AssetOf
  <1>5. \A t, l : Before(t, l)' = Before(t, l)
    BY <1>2 DEF Before
  <1>6. \A d : Rivals(d) \in SUBSET Disposals
    BY DEF Rivals, Sales
  <1> QED  BY <1>1, <1>2, <1>3, <1>5, <1>6

LEMMA PlacedStays ==
    ASSUME TypeOK, UNCHANGED <<input, period>>, NEW d \in Disposals,
           \A l : TakenFrom(d, l)' = TakenFrom(d, l)
    PROVE  /\ Placed(d) => Placed(d)'
           /\ (\A x : Position(x)' = Position(x) /\ Done(x)' = Done(x)) /\ BeingPlaced(d)
                 => BeingPlaced(d)'
  <1>1. \A S \in SUBSET Disposals : Consumed(S)' = Consumed(S)
    BY StandingStill
  <1>2. /\ Consumed(Rivals(d))' = Consumed(Rivals(d))
        /\ Consumed(Rivals(d) \cup {d})' = Consumed(Rivals(d) \cup {d})
    <2>1. Rivals(d)' = Rivals(d) /\ Rivals(d) \in SUBSET Disposals
      BY StandingStill
    <2>2. Rivals(d) \cup {d} \in SUBSET Disposals
      BY <2>1
    <2> QED  BY <1>1, <2>1, <2>2
  <1>3. \A t, l : Before(t, l)' = Before(t, l)
    BY StandingStill
  <1>4. AssetLots(d)' = AssetLots(d) /\ AssetOf(d)' = AssetOf(d)
    BY StandingStill
  <1>5. \A l : /\ Before(Consumed(Rivals(d)), l)' = Before(Consumed(Rivals(d)), l)
               /\ Before(Consumed(Rivals(d) \cup {d}), l)' = Before(Consumed(Rivals(d) \cup {d}), l)
    BY <1>2, <1>3
  <1>6. Placed(d) => Placed(d)'
    BY <1>2, <1>4, <1>5 DEF Placed
  <1>7. ASSUME \A x : Position(x)' = Position(x) /\ Done(x)' = Done(x), BeingPlaced(d)
        PROVE  BeingPlaced(d)'
    <2>1. \A x : Consumed(Done(x))' = Consumed(Done(x))
      BY <1>1, <1>7, PositionTyped
    <2>2. \A x, l : /\ Before(Position(x), l)' = Before(Position(x), l)
                    /\ Before(Consumed(Done(x)), l)' = Before(Consumed(Done(x)), l)
      BY <1>3, <1>7, <2>1
    <2> QED  BY <1>4, <1>7, <2>2 DEF BeingPlaced
  <1> QED  BY <1>6, <1>7

\* A disposal that is taken up has no parts yet and finds the position of its asset.
LEMMA TakePlaces ==
    ASSUME FifoInv, BooksInv, PlacesInv, NEW d \in Disposals, TakeDisposal(d)
    PROVE  LotsInPlace' /\ PartsInPlace'
  <1>1. /\ InHand = {} /\ InHand' = {d} /\ d \in pending /\ pending' \subseteq pending
        /\ current = None /\ current' = d /\ total'.quantity = 0
        /\ UNCHANGED <<input, period, remaining, allocations, calculations>>
        /\ TypeOK
    BY IdAssumption DEF TakeDisposal, InHand, IsFirst, result, NoTotal, FifoInv
  <1>2. Calculated' = Calculated /\ \A x : Done(x)' = Done(x)
    BY <1>1 DEF Calculated, Done, AssetOf
  <1>3. \A x : Consumed(Done(x))' = Consumed(Done(x))
    BY <1>1, <1>2, PositionTyped, StandingStill
  <1>4. \A x : Position(x)' = Position(x) /\ Position(x) = Consumed(Done(x))
               /\ Position(x) \in Nat
    BY <1>1, <1>2, <1>3, PositionTyped DEF Position
  <1>5. LotsInPlace'
    BY <1>1, <1>4, StandingStill DEF PlacesInv, LotsInPlace
  <1>6. \A l : TakenFrom(d, l)' = 0
    <2>1. calculations[d] = None
      BY <1>1 DEF FifoInv, EachOnce, AwaitsCalculation
    <2>2. PartsOf(d)' = {}
      BY <1>1, <2>1, IdAssumption DEF BooksInv, PartsOf, TypeOK, Allocation
    <2>3. FieldSum("quantity", {}) = 0
      BY FieldNone DEF AmountFields
    <2> QED  BY <2>2, <2>3 DEF TakenFrom
  <1>7. ASSUME NEW l \in AssetLots(d) PROVE Before(Position(AssetOf(d)), l) \in Int
    <2>1. l \in Inventory(period) /\ input \in Snapshots
      BY <1>1 DEF AssetLots, TypeOK
    <2> QED  BY <1>4, <2>1, LotsAreIntervals DEF Before, Covered, Smaller
  <1>8. \A l \in AssetLots(d)' :
            TakenFrom(d, l)' = (Before(Position(AssetOf(d)), l)
                                  - Before(Consumed(Done(AssetOf(d))), l))'
    <2> SUFFICES ASSUME NEW l \in AssetLots(d)
                 PROVE  Before(Position(AssetOf(d)), l)' - Before(Consumed(Done(AssetOf(d))), l)' = 0
      BY <1>1, <1>6, StandingStill
    <2>1. Before(Position(AssetOf(d)), l)' = Before(Position(AssetOf(d)), l)
      BY <1>1, <1>4, StandingStill
    <2>2. Before(Consumed(Done(AssetOf(d))), l)' = Before(Position(AssetOf(d)), l)
      BY <1>1, <1>3, <1>4, StandingStill
    <2> QED  BY <1>7, <2>1, <2>2
  <1>9. PartsInPlace'
    <2>1. \A c, l : TakenFrom(c, l)' = TakenFrom(c, l)
      BY <1>1 DEF TakenFrom, PartsOf, PartsFrom
    <2>2. ASSUME NEW c \in Calculated PROVE Placed(c)'
      <3>1. c \in Disposals /\ Placed(c)
        BY DEF Calculated, PlacesInv, PartsInPlace
      <3> QED  BY <1>1, <2>1, <3>1, PlacedStays
    <2>3. BeingPlaced(d)'
      BY <1>8 DEF BeingPlaced
    <2> QED  BY <1>1, <1>2, <2>2, <2>3 DEF PartsInPlace
  <1> QED  BY <1>5, <1>9

\* Leaving the loops, with a result or without.
LEMMA EndPlaces ==
    ASSUME FifoInv, PlacesInv, ReturnResult \/ (\E l \in Lots : Refuse(l)) \/ UNCHANGED vars
    PROVE  LotsInPlace' /\ PartsInPlace'
  <1>1. /\ UNCHANGED <<input, period, remaining, allocations, calculations, current, total, pending>>
        /\ TypeOK
    BY DEF ReturnResult, Refuse, vars, result, FifoInv
  <1>2. /\ Calculated' = Calculated /\ InHand' = InHand
        /\ \A x : Done(x)' = Done(x)
    BY <1>1 DEF Calculated, InHand, Done, AssetOf
  <1>3. \A x : Consumed(Done(x))' = Consumed(Done(x))
    BY <1>1, <1>2, PositionTyped, StandingStill
  <1>4. \A x : Position(x)' = Position(x)
    BY <1>1, <1>2, <1>3 DEF Position, AssetOf
  <1>5. LotsInPlace'
    BY <1>1, <1>2, <1>4, StandingStill DEF PlacesInv, LotsInPlace
  <1>6. PartsInPlace'
    <2>1. \A c, l : TakenFrom(c, l)' = TakenFrom(c, l)
      BY <1>1 DEF TakenFrom, PartsOf, PartsFrom
    <2>2. Calculated \subseteq Disposals /\ InHand \subseteq Disposals
      BY <1>1 DEF Calculated, InHand, TypeOK
    <2> QED  BY <1>1, <1>2, <1>4, <2>1, <2>2, PlacedStays DEF PlacesInv, PartsInPlace
  <1> QED  BY <1>5, <1>6

LEMMA CoveredCases ==
    ASSUME NEW t \in Nat, NEW start \in Nat, NEW end \in Nat, start < end
    PROVE  /\ t <= start => Covered(t, start, end) = 0
           /\ end <= t => Covered(t, start, end) = end - start
           /\ start <= t /\ t <= end => Covered(t, start, end) = t - start
           /\ (end - start) - Covered(t, start, end) = 0 => end <= t
           /\ (end - start) - Covered(t, start, end) > 0 => t < end
           /\ Covered(t, start, end) \in Int
  BY DEF Covered, Smaller

\* The lot to take from is the one the position lies in.
LEMMA TakesAtPosition ==
    ASSUME FifoInv, PlacesInv, NEW l \in Lots, Allocate(l)
    PROVE  /\ l \in AssetLots(current) /\ l \in Open(current)
           /\ LotStart(l) <= Position(AssetOf(current))
           /\ remaining[l] = LotEnd(l) - Position(AssetOf(current))
  <1>1. /\ TypeOK /\ LoopInv /\ input \in Snapshots /\ current \in Disposals
        /\ current # None /\ period # None /\ left > 0
        /\ IsFirst(input.lots, eligible, l)
    BY IdAssumption DEF FifoInv, TypeOK, LoopInv, Allocate, NextLot
  <1>2. /\ l \in eligible /\ l \in Open(current) /\ remaining[l] > 0
        /\ \A x \in Open(current) \ eligible : remaining[x] = 0
    BY <1>1 DEF LoopInv, IsFirst
  <1>3. l \in AssetLots(current) /\ l \in Inventory(period)
        /\ input.lots[l].asset = AssetOf(current)
    BY <1>2 DEF Open, AssetLots, AssetOf
  <1> DEFINE t == Position(AssetOf(current))
  <1>4. t \in Nat
    BY <1>1, PositionTyped
  <1>5. \A x \in Inventory(period) : input.lots[x].asset = AssetOf(current) =>
            remaining[x] = (LotEnd(x) - LotStart(x)) - Covered(t, LotStart(x), LotEnd(x))
    <2> SUFFICES ASSUME NEW x \in Inventory(period), input.lots[x].asset = AssetOf(current)
                 PROVE  remaining[x]
                          = (LotEnd(x) - LotStart(x)) - Covered(t, LotStart(x), LotEnd(x))
      OBVIOUS
    <2>1. remaining[x] = input.lots[x].quantity - Covered(t, LotStart(x), LotEnd(x))
      BY <1>1 DEF PlacesInv, LotsInPlace, Before
    <2>2. input.lots[x].quantity = LotEnd(x) - LotStart(x)
      BY <1>1, LotsAreIntervals
    <2> QED  BY <2>1, <2>2
  <1> HIDE DEF t
  <1>6. LotStart(l) \in Nat /\ LotEnd(l) \in Nat /\ LotStart(l) < LotEnd(l)
    BY <1>1, <1>3, LotsAreIntervals
  <1>7. t < LotEnd(l)
    <2>1. (LotEnd(l) - LotStart(l)) - Covered(t, LotStart(l), LotEnd(l)) > 0
      BY <1>2, <1>3, <1>5
    <2> QED  BY <1>4, <1>6, <2>1, CoveredCases
  <1>8. LotStart(l) <= t
    <2>1. CASE LotStart(l) = 0
      BY <1>4, <2>1
    <2>2. CASE \E x \in Older(l) : LotEnd(x) = LotStart(l)
      <3>1. PICK x \in Older(l) : LotEnd(x) = LotStart(l)
        BY <2>2
      <3>2. /\ x \in Inventory(period) /\ input.lots[x].asset = input.lots[l].asset
            /\ Precedes(input.lots, x, l)
        BY DEF Older
      <3>3. ~Precedes(input.lots, l, x) /\ x # l /\ input.lots[x].at <= input.lots[l].at
            /\ x \in Lots
        BY <1>1, <3>2, LotOrder
      <3>4. x \notin eligible
        BY <1>1, <3>3 DEF IsFirst
      <3>5. x \in Open(current)
        <4>1. /\ input.lots[x].at \in Nat /\ input.lots[l].at \in Nat
              /\ input.disposals[current].at \in Nat
          BY <1>1, <3>3, SnapshotTyped
        <4> QED  BY <1>2, <3>2, <3>3, <4>1 DEF Open
      <3>6. remaining[x] = 0
        BY <1>2, <3>4, <3>5
      <3>7. LotStart(x) \in Nat /\ LotEnd(x) \in Nat /\ LotStart(x) < LotEnd(x)
        BY <1>1, <3>2, LotsAreIntervals
      <3>8. LotEnd(x) <= t
        <4>1. (LotEnd(x) - LotStart(x)) - Covered(t, LotStart(x), LotEnd(x)) = 0
          BY <1>3, <1>5, <3>2, <3>6
        <4> QED  BY <1>4, <3>7, <4>1, CoveredCases
      <3> QED  BY <3>1, <3>8
    <2> QED  BY <1>1, <1>3, <2>1, <2>2, LotsDoTile DEF LotsTile
  <1>9. remaining[l] = LotEnd(l) - t
    <2>1. Covered(t, LotStart(l), LotEnd(l)) = t - LotStart(l)
      BY <1>4, <1>6, <1>7, <1>8, CoveredCases
    <2> QED  BY <1>3, <1>4, <1>5, <1>6, <2>1
  <1> QED  BY <1>2, <1>3, <1>8, <1>9 DEF t

\* A part moves the position of its asset on by its quantity.
LEMMA AllocateMoves ==
    ASSUME FifoInv, NEW l \in Lots, Allocate(l)
    PROVE  \E k \in Nat :
              /\ k = Part(current, l).quantity /\ k <= remaining[l]
              /\ Position(AssetOf(current))' = Position(AssetOf(current)) + k
              /\ \A x : x # AssetOf(current) => Position(x)' = Position(x)
              /\ \A x : Done(x)' = Done(x) /\ Consumed(Done(x))' = Consumed(Done(x))
              /\ remaining' = [remaining EXCEPT ![l] = @ - k]
  <1>1. /\ TypeOK /\ current # None /\ left > 0 /\ l \in eligible /\ current \in Disposals
        /\ UNCHANGED <<input, period, current, calculations>>
    BY DEF FifoInv, TypeOK, Allocate, NextLot, IsFirst
  <1>2. PICK k : k = Part(current, l).quantity
    OBVIOUS
  <1>3. k \in Nat /\ k <= remaining[l]
    BY <1>1, <1>2, PartTyped DEF Positive
  <1>4. remaining' = [remaining EXCEPT ![l] = @ - k] /\ total'.quantity = total.quantity + k
    BY <1>2 DEF Allocate
  <1>5. /\ InHand = {current} /\ InHand' = {current} /\ Calculated' = Calculated
        /\ \A d : AssetOf(d)' = AssetOf(d)
        /\ \A x : Done(x)' = Done(x)
    BY <1>1 DEF InHand, Calculated, AssetOf, Done
  <1>6. \A x : Consumed(Done(x))' = Consumed(Done(x)) /\ Consumed(Done(x)) \in Nat
    BY <1>1, <1>5, PositionTyped, StandingStill
  <1>7. total.quantity \in Nat
    BY <1>1 DEF TypeOK, Totals
  <1>8. Position(AssetOf(current))' = Position(AssetOf(current)) + k
    <2>1. Position(AssetOf(current)) = Consumed(Done(AssetOf(current))) + total.quantity
      BY <1>5 DEF Position
    <2>2. Position(AssetOf(current))' = Consumed(Done(AssetOf(current))) + (total.quantity + k)
      BY <1>1, <1>4, <1>5, <1>6 DEF Position
    <2>3. PICK c \in Nat : c = Consumed(Done(AssetOf(current)))
      BY <1>6
    <2> QED  BY <1>3, <1>7, <2>1, <2>2, <2>3
  <1>9. \A x : x # AssetOf(current) => Position(x)' = Position(x)
    BY <1>5, <1>6 DEF Position
  <1> QED  BY <1>2, <1>3, <1>4, <1>5, <1>6, <1>8, <1>9

\* The lots before the one taken from are used up, those after it untouched.
LEMMA OthersStay ==
    ASSUME FifoInv, PlacesInv, NEW l \in Lots, Allocate(l), NEW k \in Nat, k <= remaining[l],
           NEW x \in AssetLots(current), x # l
    PROVE  Before(Position(AssetOf(current)) + k, x) = Before(Position(AssetOf(current)), x)
  <1>1. /\ TypeOK /\ input \in Snapshots
        /\ l \in AssetLots(current)
        /\ LotStart(l) <= Position(AssetOf(current))
        /\ remaining[l] = LotEnd(l) - Position(AssetOf(current))
    BY TakesAtPosition DEF FifoInv, TypeOK
  <1>2. PICK t : t = Position(AssetOf(current))
    OBVIOUS
  <1>3. t \in Nat
    BY <1>1, <1>2, PositionTyped
  <1>4. /\ l \in Inventory(period) /\ x \in Inventory(period)
        /\ input.lots[x].asset = input.lots[l].asset
    BY <1>1 DEF AssetLots
  <1>5. /\ LotStart(l) \in Nat /\ LotEnd(l) \in Nat /\ LotStart(l) < LotEnd(l)
        /\ LotStart(x) \in Nat /\ LotEnd(x) \in Nat /\ LotStart(x) < LotEnd(x)
        /\ l \in Lots /\ x \in Lots
    <2>1. \A y \in Inventory(period) :
              /\ LotStart(y) \in Nat /\ LotEnd(y) \in Nat /\ y \in Lots
              /\ input.lots[y].quantity \in Nat /\ input.lots[y].quantity > 0
              /\ LotEnd(y) = LotStart(y) + input.lots[y].quantity
      BY <1>1, LotsAreIntervals
    <2>2. \A y \in Inventory(period) : LotStart(y) < LotEnd(y)
      BY <2>1
    <2> QED  BY <1>4, <2>1, <2>2
  <1>6. t + k <= LotEnd(l) /\ LotStart(l) <= t
    BY <1>1, <1>2, <1>3, <1>5
  <1>7. CASE Precedes(input.lots, x, l)
    <2>1. LotEnd(x) <= LotStart(l)
      BY <1>1, <1>4, <1>7, LotsDoTile DEF LotsTile, Older
    <2>2. LotEnd(x) <= t /\ LotEnd(x) <= t + k /\ t + k \in Nat
      BY <1>3, <1>5, <1>6, <2>1
    <2> QED  BY <1>2, <1>3, <1>5, <2>2, CoveredCases DEF Before
  <1>8. CASE Precedes(input.lots, l, x)
    <2>1. LotEnd(l) <= LotStart(x)
      BY <1>1, <1>4, <1>8, LotsDoTile DEF LotsTile, Older
    <2>2. t <= LotStart(x) /\ t + k <= LotStart(x) /\ t + k \in Nat
      BY <1>3, <1>5, <1>6, <2>1
    <2> QED  BY <1>2, <1>3, <1>5, <2>2, CoveredCases DEF Before
  <1> QED  BY <1>1, <1>5, <1>7, <1>8, LotOrder

\* The part fills the lot from the position on.
LEMMA AllocatePlaces ==
    ASSUME FifoInv, BooksInv, PlacesInv, NEW l \in Lots, Allocate(l)
    PROVE  LotsInPlace' /\ PartsInPlace'
  <1> DEFINE a == AssetOf(current)
             t == Position(AssetOf(current))
  <1>1. /\ TypeOK /\ input \in Snapshots /\ current \in Disposals /\ current # None
        /\ left > 0 /\ l \in eligible /\ period # None
        /\ UNCHANGED <<input, period, current, calculations, pending>>
        /\ allocations' = allocations \cup {Part(current, l)}
        /\ Valid(Part(current, l))
    BY IdAssumption DEF FifoInv, TypeOK, LoopInv, Allocate, NextLot, IsFirst
  <1>2. PICK k \in Nat :
              /\ k = Part(current, l).quantity /\ k <= remaining[l]
              /\ Position(AssetOf(current))' = Position(AssetOf(current)) + k
              /\ \A x : x # AssetOf(current) => Position(x)' = Position(x)
              /\ \A x : Done(x)' = Done(x) /\ Consumed(Done(x))' = Consumed(Done(x))
              /\ remaining' = [remaining EXCEPT ![l] = @ - k]
    BY AllocateMoves
  <1>3. /\ l \in AssetLots(current) /\ l \in Open(current) /\ LotStart(l) <= t
        /\ remaining[l] = LotEnd(l) - t
    BY TakesAtPosition
  <1>4. /\ t \in Nat /\ LotStart(l) \in Nat /\ LotEnd(l) \in Nat /\ LotStart(l) < LotEnd(l)
        /\ LotEnd(l) = LotStart(l) + input.lots[l].quantity
        /\ input.lots[l].quantity \in Nat
        /\ l \in Inventory(period) /\ input.lots[l].asset = a
    <2>1. l \in Inventory(period) /\ input.lots[l].asset = a
      BY <1>3 DEF AssetLots
    <2>2. /\ LotStart(l) \in Nat /\ LotEnd(l) \in Nat
          /\ LotEnd(l) = LotStart(l) + input.lots[l].quantity
          /\ input.lots[l].quantity \in Nat /\ input.lots[l].quantity > 0
      BY <1>1, <2>1, LotsAreIntervals
    <2>3. LotStart(l) < LotEnd(l)
      BY <2>2
    <2> QED  BY <1>1, <2>1, <2>2, <2>3, PositionTyped
  <1>5. Before(t, l) = t - LotStart(l) /\ Before(t + k, l) = t + k - LotStart(l)
        /\ t + k <= LotEnd(l)
    <2> HIDE DEF t
    <2>1. t + k <= LotEnd(l) /\ LotStart(l) <= t + k /\ t + k \in Nat /\ t <= LotEnd(l)
      BY <1>2, <1>3, <1>4
    <2>2. /\ Covered(t, LotStart(l), LotEnd(l)) = t - LotStart(l)
          /\ Covered(t + k, LotStart(l), LotEnd(l)) = (t + k) - LotStart(l)
      <3>1. PICK u, start, end :
                u = t + k /\ start = LotStart(l) /\ end = LotEnd(l)
        OBVIOUS
      <3>2. /\ t \in Nat /\ u \in Nat /\ start \in Nat /\ end \in Nat /\ start < end
            /\ start <= t /\ t <= end /\ start <= u /\ u <= end
        BY <1>3, <1>4, <2>1, <3>1 DEF t
      <3>3. Covered(t, start, end) = t - start
        BY <3>2, CoveredCases
      <3>4. Covered(u, start, end) = u - start
        BY <3>2, CoveredCases
      <3> QED  BY <3>1, <3>3, <3>4
    <2> QED  BY <1>2, <1>4, <2>1, <2>2 DEF Before
  <1>6. \A x \in AssetLots(current) : x # l => Before(t + k, x) = Before(t, x)
    BY <1>2, OthersStay
  <1>7. /\ InHand' = InHand /\ InHand = {current} /\ Calculated' = Calculated
        /\ Inventory(period)' = Inventory(period)
        /\ \A u, x : Before(u, x)' = Before(u, x)
        /\ \A d : AssetOf(d)' = AssetOf(d) /\ AssetLots(d)' = AssetLots(d) /\ Supply(d)' = Supply(d)
    BY <1>1, StandingStill DEF InHand, Calculated
  <1>8. LotsInPlace'
    <2>1. ASSUME NEW x \in Inventory(period)
          PROVE  remaining'[x] = input.lots[x].quantity - Before(Position(input.lots[x].asset), x)'
      <3>1. remaining[x] = input.lots[x].quantity - Before(Position(input.lots[x].asset), x)
        BY <1>1 DEF PlacesInv, LotsInPlace
      <3>2. x \in Lots /\ remaining \in [Lots -> Nat]
        BY <1>1 DEF Inventory, TypeOK
      <3>3. CASE input.lots[x].asset # a
        <4>1. Before(Position(input.lots[x].asset), x)' = Before(Position(input.lots[x].asset), x)
          BY <1>1, <1>2, <1>7, <3>3
        <4>2. x # l
          BY <1>4, <3>3
        <4> QED  BY <1>2, <3>1, <3>2, <4>1, <4>2
      <3>4. CASE input.lots[x].asset = a
        <4>1. Before(Position(input.lots[x].asset), x)' = Before(t + k, x)
          BY <1>1, <1>2, <1>7, <3>4
        <4>2. CASE x # l
          <5>1. x \in AssetLots(current)
            BY <3>4 DEF AssetLots
          <5>2. Before(t + k, x) = Before(t, x)
            BY <1>6, <4>2, <5>1
          <5> QED  BY <1>2, <3>1, <3>2, <3>4, <4>1, <4>2, <5>2
        <4>3. CASE x = l
          <5>1. remaining'[l] = remaining[l] - k
            BY <1>2, <3>2
          <5> HIDE DEF t
          <5> QED  BY <1>2, <1>3, <1>4, <1>5, <4>1, <4>3, <5>1
        <4> QED  BY <4>2, <4>3
      <3> QED  BY <3>3, <3>4
    <2>2. ASSUME NEW d \in pending \cup InHand
          PROVE  Position(AssetOf(d))' <= Supply(d)
      <3>1. Position(AssetOf(d)) <= Supply(d) /\ d \in Disposals
        BY <1>1, <1>7 DEF PlacesInv, LotsInPlace, TypeOK
      <3>2. CASE AssetOf(d) # a
        BY <1>2, <1>7, <3>1, <3>2
      <3>3. CASE AssetOf(d) = a
        <4>1. Position(AssetOf(d))' = t + k
          <5>1. AssetOf(d)' = AssetOf(current)'
            BY <1>1, <1>7, <3>3
          <5> QED  BY <1>2, <5>1
        <4>2. LotEnd(l) <= Supply(current) /\ Supply(current) \in Nat /\ Supply(d) \in Nat
          BY <1>1, <1>3, <3>1, SuppliesDoGrow DEF SuppliesGrow
        <4>3. Supply(current) <= Supply(d)
          <5>1. CASE d = current
            BY <4>2, <5>1
          <5>2. CASE d # current
            <6>1. Precedes(input.disposals, current, d)
              BY <1>7, <5>2 DEF PlacesInv, SalesInOrder
            <6> QED  BY <1>1, <3>1, <3>3, <6>1, SuppliesDoGrow DEF SuppliesGrow, AssetOf
          <5> QED  BY <5>1, <5>2
        <4> HIDE DEF t
        <4> QED  BY <1>4, <1>5, <4>1, <4>2, <4>3
      <3> QED  BY <3>2, <3>3
    <2> QED  BY <1>1, <1>7, <2>1, <2>2 DEF LotsInPlace
  <1>9. \A d, x : d # current \/ x # l => TakenFrom(d, x)' = TakenFrom(d, x)
    <2>1. Part(current, l).disposal = current /\ Part(current, l).lot = l
      BY DEF Part
    <2>2. \A d, x : d # current \/ x # l =>
              (PartsOf(d) \cap PartsFrom(x))' = PartsOf(d) \cap PartsFrom(x)
      BY <1>1, <2>1 DEF PartsOf, PartsFrom
    <2> QED  BY <2>2 DEF TakenFrom
  <1>10. TakenFrom(current, l)' = TakenFrom(current, l) + k /\ TakenFrom(current, l) \in Nat
    <2> DEFINE part == Part(current, l)
               S == PartsOf(current) \cap PartsFrom(l)
    <2>1. part.disposal = current /\ part.lot = l
      BY DEF Part
    <2>2. part \in Allocation
      BY <1>1, PartTyped
    <2>3. /\ S \in SUBSET Allocation /\ IsFiniteSet(S) /\ part \notin S
      <3>1. IsFiniteSet(allocations) /\ allocations \in SUBSET Allocation
        BY <1>1 DEF BooksInv, TypeOK
      <3>2. S \in SUBSET allocations
        BY DEF PartsOf, PartsFrom
      <3>3. part \notin S
        BY <1>1, <2>1 DEF BooksInv, PartsOf
      <3> QED  BY <3>1, <3>2, <3>3, FS_Subset
    <2>4. S' = S \cup {part}
      BY <1>1, <2>1 DEF PartsOf, PartsFrom
    <2> HIDE DEF part, S
    <2>5. FieldSum("quantity", S) \in Nat
          /\ FieldSum("quantity", S \cup {part}) = FieldSum("quantity", S) + part.quantity
      BY <2>2, <2>3, FieldAdd DEF AmountFields
    <2> QED  BY <1>2, <2>4, <2>5 DEF TakenFrom, S, part
  <1>11. BeingPlaced(current)'
    <2> SUFFICES ASSUME NEW x \in AssetLots(current)
                 PROVE  TakenFrom(current, x)'
                          = Before(Position(AssetOf(current)), x)'
                              - Before(Consumed(Done(AssetOf(current))), x)'
      BY <1>1, <1>7 DEF BeingPlaced
    <2>1. TakenFrom(current, x) = Before(t, x) - Before(Consumed(Done(a)), x)
      BY <1>7 DEF PlacesInv, PartsInPlace, BeingPlaced
    <2>2. /\ Before(Position(AssetOf(current)), x)' = Before(t + k, x)
          /\ Before(Consumed(Done(AssetOf(current))), x)' = Before(Consumed(Done(a)), x)
      BY <1>1, <1>2, <1>7
    <2>3. CASE x # l
      BY <1>1, <1>6, <1>9, <2>1, <2>2, <2>3
    <2>4. CASE x = l
      <3>1. Before(Consumed(Done(a)), l) \in Int
        <4>1. Consumed(Done(a)) \in Nat
          BY <1>1, PositionTyped
        <4> QED  BY <1>4, <4>1, CoveredCases DEF Before
      <3>2. PICK b \in Int : b = Before(Consumed(Done(a)), l)
        BY <3>1
      <3>3. /\ TakenFrom(current, l) = (t - LotStart(l)) - b
            /\ TakenFrom(current, l)' = TakenFrom(current, l) + k
        BY <1>5, <1>10, <2>1, <2>4, <3>2
      <3>4. /\ Before(Position(AssetOf(current)), x)' = t + k - LotStart(l)
            /\ Before(Consumed(Done(AssetOf(current))), x)' = b
        BY <1>5, <2>2, <2>4, <3>2
      <3>5. (t - LotStart(l)) - b + k = (t + k - LotStart(l)) - b
        <4> HIDE DEF t
        <4> QED  BY <1>2, <1>4
      <3>6. TakenFrom(current, x)' = TakenFrom(current, l)'
        BY <2>4
      <3>7. TakenFrom(current, l)' = (t - LotStart(l)) - b + k
        BY <3>3
      <3> HIDE DEF t
      <3> QED  BY <3>4, <3>5, <3>6, <3>7
    <2> QED  BY <2>3, <2>4
  <1>12. \A d \in Calculated : Placed(d)'
    <2> SUFFICES ASSUME NEW d \in Calculated PROVE Placed(d)'
      OBVIOUS
    <2>1. d \in Disposals /\ d # current /\ Placed(d)
      BY <1>1 DEF Calculated, FifoInv, EachOnce, AwaitsCalculation, PlacesInv, PartsInPlace
    <2>2. \A x : TakenFrom(d, x)' = TakenFrom(d, x)
      BY <1>9, <2>1
    <2> QED  BY <1>1, <2>1, <2>2, PlacedStays
  <1>13. PartsInPlace'
    BY <1>1, <1>7, <1>11, <1>12 DEF PartsInPlace
  <1> QED  BY <1>8, <1>13

\* The disposals that compete with the one in hand are those that are done.
LEMMA RivalsAreDone ==
    ASSUME FifoInv, PlacesInv, NEW d \in InHand
    PROVE  /\ d \in Disposals /\ d \notin Calculated
           /\ Rivals(d) = Done(AssetOf(d))
           /\ \A c \in Done(AssetOf(d)) : Precedes(input.disposals, c, d)
  <1>1. /\ TypeOK /\ input \in Snapshots /\ d \in Disposals /\ d = current /\ d \notin Calculated
        /\ period # None /\ LoopInv
    BY IdAssumption DEF InHand, FifoInv, TypeOK, EachOnce, AwaitsCalculation, LoopInv, Calculated
  <1>2. PICK data : data = input.disposals
    OBVIOUS
  <1>3. Disposals \in SUBSET Nat /\ \A x \in Disposals : data[x].at \in Nat
    BY <1>1, <1>2, IdAssumption, SnapshotTyped
  <1>4. \A x, y \in Disposals : Precedes(data, x, y) => ~Precedes(data, y, x) /\ x # y
    BY <1>3, PrecedesIsTotal
  <1>5. /\ Sales(period) = Calculated \cup pending \cup InHand
        /\ \A c \in Calculated : Precedes(data, c, d)
        /\ \A e \in pending : Precedes(data, d, e)
        /\ Calculated \subseteq Disposals /\ pending \subseteq Disposals
        /\ InHand = {d}
    BY <1>1, <1>2 DEF PlacesInv, SalesInOrder, TypeOK, Calculated, InHand
  <1>6. ASSUME NEW x PROVE x \in Rivals(d) <=> x \in Done(AssetOf(d))
    <2>1. x \in Rivals(d) <=> /\ x \in Calculated \cup pending \cup {d}
                              /\ AssetOf(x) = AssetOf(d) /\ Precedes(data, x, d)
      BY <1>2, <1>5 DEF Rivals, AssetOf
    <2>2. x \in Done(AssetOf(d)) <=> x \in Calculated /\ AssetOf(x) = AssetOf(d)
      BY DEF Done
    <2>3. x \in pending \cup {d} => ~Precedes(data, x, d)
      BY <1>1, <1>4, <1>5
    <2> QED  BY <1>5, <2>1, <2>2, <2>3
  <1>7. \A c \in Done(AssetOf(d)) : Precedes(input.disposals, c, d)
    BY <1>2, <1>5 DEF Done
  <1> QED  BY <1>1, <1>6, <1>7

\* Where the inner loop ends, the disposal has consumed what the reference definition
\* gives it: all it asks for, or all there was.
LEMMA ConsumedAtEnd ==
    ASSUME FifoInv, PlacesInv, NEW d \in InHand, left = 0 \/ eligible = {}
    PROVE  Consumed(Done(AssetOf(d)) \cup {d}) = Position(AssetOf(d))
  <1>1. /\ TypeOK /\ input \in Snapshots /\ d \in Disposals /\ d = current
        /\ period # None /\ LoopInv /\ current # None /\ left \in Nat
    BY IdAssumption DEF InHand, FifoInv, TypeOK, LoopInv
  <1> DEFINE a == AssetOf(d)
  <1>2. /\ Done(a) \in SUBSET Disposals /\ d \notin Done(a)
        /\ \A c \in Done(a) : Precedes(input.disposals, c, d)
    BY <1>1, RivalsAreDone, PositionTyped DEF Done
  <1>3. Consumed(Done(a) \cup {d})
          = Smaller(Consumed(Done(a)) + input.disposals[d].quantity, Supply(d))
    BY <1>1, <1>2, ConsumedLaws DEF ConsumedInTurn
  <1>4. PICK c \in Nat : c = Consumed(Done(a))
    BY <1>1, PositionTyped
  <1>5. Position(a) = c + total.quantity /\ total.quantity \in Nat
    BY <1>1, <1>4 DEF Position, TypeOK, Totals
  <1>6. /\ total.quantity + left = input.disposals[d].quantity
        /\ left > 0 => \A l \in Open(d) \ eligible : remaining[l] = 0
    BY <1>1 DEF LoopInv
  <1>7. Position(a) <= Supply(d) /\ Supply(d) \in Nat
    BY <1>1, SuppliesDoGrow DEF PlacesInv, LotsInPlace, SuppliesGrow
  <1>8. CASE left = 0
    BY <1>3, <1>4, <1>5, <1>6, <1>7, <1>8 DEF Smaller
  <1>9. CASE left > 0
    <2>1. \A l \in Open(d) : LotEnd(l) <= Position(a)
      <3> SUFFICES ASSUME NEW l \in Open(d) PROVE LotEnd(l) <= Position(a)
        OBVIOUS
      <3>1. remaining[l] = 0 /\ l \in Inventory(period) /\ input.lots[l].asset = a
        BY <1>6, <1>9 DEF Open, AssetOf
      <3>2. remaining[l] = input.lots[l].quantity - Covered(Position(a), LotStart(l), LotEnd(l))
        BY <1>1, <3>1 DEF PlacesInv, LotsInPlace, Before
      <3>3. PICK start, end, t : start = LotStart(l) /\ end = LotEnd(l) /\ t = Position(a)
        OBVIOUS
      <3>4. /\ start \in Nat /\ end \in Nat /\ t \in Nat
            /\ input.lots[l].quantity \in Nat /\ input.lots[l].quantity > 0
            /\ end = start + input.lots[l].quantity
        BY <1>1, <3>1, <3>3, LotsAreIntervals, PositionTyped
      <3>5. start < end /\ input.lots[l].quantity = end - start
        BY <3>4
      <3>6. (end - start) - Covered(t, start, end) = 0
        BY <3>1, <3>2, <3>3, <3>5
      <3>7. end <= t
        BY <3>4, <3>5, <3>6, CoveredCases
      <3> QED  BY <3>3, <3>7
    <2>2. Supply(d) = 0 \/ \E l \in Open(d) : LotEnd(l) = Supply(d)
      BY <1>1, SuppliesDoGrow DEF SuppliesGrow
    <2>3. Supply(d) <= Position(a)
      <3>1. CASE Supply(d) = 0
        BY <1>4, <1>5, <3>1
      <3>2. CASE \E l \in Open(d) : LotEnd(l) = Supply(d)
        BY <2>1, <3>2
      <3> QED  BY <2>2, <3>1, <3>2
    <2>4. Position(a) = Supply(d)
      <3> HIDE DEF a
      <3> QED  BY <1>4, <1>5, <1>7, <2>3
    <2>5. input.disposals[d].quantity \in Nat
      BY <1>1, SnapshotTyped DEF Positive
    <2>6. PICK q, s : q = input.disposals[d].quantity /\ s = Supply(d)
      OBVIOUS
    <2>7. c + q > s /\ c + q \in Nat /\ s \in Nat
      BY <1>1, <1>5, <1>6, <1>7, <1>9, <2>4, <2>5, <2>6
    <2>8. Smaller(c + q, s) = s
      BY <2>7 DEF Smaller
    <2> QED  BY <1>3, <1>4, <2>4, <2>6, <2>8
  <1> QED  BY <1>1, <1>8, <1>9

\* The position an inner loop ends at is the one the next disposal finds.
LEMMA ClosePlaces ==
    ASSUME FifoInv, PlacesInv, CloseDisposal
    PROVE  LotsInPlace' /\ PartsInPlace'
  <1>1. PICK d \in Disposals : d = current
    BY DEF FifoInv, TypeOK, CloseDisposal
  <1>2. /\ TypeOK /\ InHand = {d} /\ InHand' = {}
        /\ UNCHANGED <<input, period, remaining, allocations, pending>>
        /\ left = 0 \/ eligible = {}
    BY <1>1 DEF FifoInv, CloseDisposal, InHand
  <1>3. Calculated' = Calculated \cup {d}
    <2>1. PICK made \in Calculation : calculations' = [calculations EXCEPT ![d] = made]
      <3>1. [quantity |-> total.quantity, parts |-> total.parts, cost |-> total.cost,
             proceeds |-> total.proceeds, fee |-> total.fee, resolved |-> FullyAllocated]
               \in Calculation
        BY <1>2 DEF TypeOK, Totals, Calculation, FullyAllocated
      <3> QED  BY <1>1, <3>1 DEF CloseDisposal
    <2> QED  BY <1>1, <1>2, <2>1, NoneAssumption DEF Calculated, TypeOK
  <1>4. /\ \A x : AssetOf(x)' = AssetOf(x)
        /\ Done(AssetOf(d))' = Done(AssetOf(d)) \cup {d}
        /\ \A x : x # AssetOf(d) => Done(x)' = Done(x)
    BY <1>2, <1>3 DEF Done, AssetOf
  <1>5. \A x : Position(x)' = Position(x)
    <2> SUFFICES ASSUME NEW x PROVE Position(x)' = Position(x)
      OBVIOUS
    <2>1. \A S \in SUBSET Disposals : Consumed(S)' = Consumed(S)
      BY <1>2, StandingStill
    <2>2. Done(x) \in SUBSET Disposals /\ Consumed(Done(x)) \in Nat
      BY <1>2, PositionTyped
    <2>3. Position(x)' = Consumed(Done(x))'
      <3>1. PICK S \in SUBSET Disposals : S = Done(x)'
        BY <1>1, <1>4, <2>2
      <3>2. (input \in Snapshots => ConsumedInTurn)'
        BY ConsumedLaws, PTL
      <3>3. Consumed(Done(x))' \in Nat
        BY <1>2, <3>1, <3>2 DEF ConsumedInTurn, TypeOK
      <3> QED  BY <1>2, <3>3 DEF Position
    <2>4. CASE x # AssetOf(d)
      <3>1. Position(x) = Consumed(Done(x))
        BY <1>2, <2>2, <2>4 DEF Position
      <3> QED  BY <1>4, <2>1, <2>2, <2>3, <2>4, <3>1
    <2>5. CASE x = AssetOf(d)
      <3>1. PICK S \in SUBSET Disposals : S = Done(x) \cup {d}
        BY <2>2
      <3>2. Done(x)' = S
        BY <1>4, <2>5, <3>1
      <3>3. Consumed(Done(x))' = Consumed(S)
        BY <2>1, <3>2
      <3>4. Consumed(S) = Position(x)
        BY <1>2, <2>5, <3>1, ConsumedAtEnd
      <3> QED  BY <2>3, <3>3, <3>4
    <2> QED  BY <2>4, <2>5
  <1>6. LotsInPlace'
    BY <1>2, <1>4, <1>5, StandingStill DEF PlacesInv, LotsInPlace
  <1>7. \A c, l : TakenFrom(c, l)' = TakenFrom(c, l)
    BY <1>2 DEF TakenFrom, PartsOf, PartsFrom
  <1>8. Placed(d)
    <2>1. Rivals(d) = Done(AssetOf(d))
      BY <1>2, RivalsAreDone
    <2>2. Consumed(Rivals(d) \cup {d}) = Position(AssetOf(d))
      BY <1>2, <2>1, ConsumedAtEnd
    <2>3. /\ Consumed(Done(AssetOf(d))) \in Nat /\ Position(AssetOf(d)) \in Nat
          /\ Consumed(Done(AssetOf(d))) <= Position(AssetOf(d))
      <3>1. Position(AssetOf(d)) = Consumed(Done(AssetOf(d))) + total.quantity
        BY <1>2 DEF Position
      <3>2. Consumed(Done(AssetOf(d))) \in Nat /\ total.quantity \in Nat
        BY <1>2, PositionTyped DEF TypeOK, Totals
      <3> QED  BY <3>1, <3>2
    <2>4. BeingPlaced(d)
      BY <1>2 DEF PlacesInv, PartsInPlace
    <2> QED  BY <2>1, <2>2, <2>3, <2>4 DEF Placed, BeingPlaced
  <1>9. \A c \in Calculated \cup {d} : c \in Disposals /\ Placed(c)
    BY <1>8 DEF Calculated, PlacesInv, PartsInPlace
  <1>10. PartsInPlace'
    BY <1>2, <1>3, <1>7, <1>9, PlacedStays DEF PartsInPlace
  <1> QED  BY <1>6, <1>10

LEMMA PlacesStep == FifoInv /\ FifoInv' /\ BooksInv /\ PlacesInv /\ [Next]_vars => PlacesInv'
  <1> SUFFICES ASSUME FifoInv, FifoInv', BooksInv, PlacesInv, [Next]_vars PROVE PlacesInv'
    OBVIOUS
  <1>1. SalesInOrder'
    BY SalesStep DEF PlacesInv
  <1>2. LotsInPlace' /\ PartsInPlace'
    <2>1. ASSUME NEW p \in Periods, StartRun(p) PROVE LotsInPlace' /\ PartsInPlace'
      BY <2>1, StartPlaces
    <2>2. ASSUME NEW d \in Disposals, TakeDisposal(d) PROVE LotsInPlace' /\ PartsInPlace'
      BY <2>2, TakePlaces
    <2>3. ASSUME NEW l \in Lots, Allocate(l) PROVE LotsInPlace' /\ PartsInPlace'
      BY <2>3, AllocatePlaces
    <2>4. CASE CloseDisposal
      BY <2>4, ClosePlaces
    <2>5. CASE ReturnResult \/ (\E l \in Lots : Refuse(l)) \/ UNCHANGED vars
      BY <2>5, EndPlaces
    <2> QED  BY <2>1, <2>2, <2>3, <2>4, <2>5 DEF Next
  <1> QED  BY <1>1, <1>2 DEF PlacesInv

LEMMA PlacedIsOverlap ==
    ASSUME TypeOK, PlacesInv
    PROVE  \A d \in Calculated : \A l \in Inventory(period) :
              input.lots[l].asset = input.disposals[d].asset =>
                  TakenFrom(d, l)
                    = Overlap(Consumed(Rivals(d)), Consumed(Rivals(d) \cup {d}),
                              LotStart(l), LotStart(l) + input.lots[l].quantity)
  <1> SUFFICES ASSUME NEW d \in Calculated, NEW l \in Inventory(period),
                      input.lots[l].asset = input.disposals[d].asset
               PROVE  TakenFrom(d, l)
                        = Overlap(Consumed(Rivals(d)), Consumed(Rivals(d) \cup {d}),
                                  LotStart(l), LotStart(l) + input.lots[l].quantity)
    OBVIOUS
  <1>1. Placed(d) /\ l \in AssetLots(d)
    BY DEF PlacesInv, PartsInPlace, AssetLots, AssetOf
  <1>2. PICK from, to, start, end :
            /\ from = Consumed(Rivals(d)) /\ to = Consumed(Rivals(d) \cup {d})
            /\ start = LotStart(l) /\ end = LotEnd(l)
    OBVIOUS
  <1>3. /\ start \in Nat /\ end \in Nat /\ start <= end
        /\ end = LotStart(l) + input.lots[l].quantity
    <2>1. /\ LotStart(l) \in Nat /\ LotEnd(l) \in Nat
          /\ input.lots[l].quantity \in Nat
          /\ LotEnd(l) = LotStart(l) + input.lots[l].quantity
      BY LotsAreIntervals DEF TypeOK
    <2> QED  BY <1>2, <2>1
  <1>4. /\ from \in Nat /\ to \in Nat /\ from <= to
        /\ TakenFrom(d, l) = Covered(to, start, end) - Covered(from, start, end)
    BY <1>1, <1>2 DEF Placed, Before
  <1>5. TakenFrom(d, l) = Overlap(from, to, start, end)
    BY <1>3, <1>4, OverlapIsCovered
  <1> QED  BY <1>2, <1>3, <1>5

\* What AllocationsAreOverlaps says, with the field named.
OverlapsTaken ==
    \A d \in Calculated : \A l \in Inventory(period) :
        input.lots[l].asset = input.disposals[d].asset =>
            TakenFrom(d, l) = Overlap(Consumed(Rivals(d)), Consumed(Rivals(d) \cup {d}),
                                      LotStart(l), LotStart(l) + input.lots[l].quantity)

LEMMA OverlapsAreTaken == AllocationsAreOverlaps <=> OverlapsTaken
  BY DEF AllocationsAreOverlaps, OverlapsTaken, TakenFrom, FieldSum, Quantity, SumOver,
         MapThenSumSet, MapThenFoldSet

\* calculate_fifo computes the reference definition: whatever partial takes, late lots and
\* shortages there are, a disposal takes from a lot exactly what the two have in common
\* when the lots and the disposals of an asset are laid end to end.
THEOREM AllocatesOverlaps == Spec => []AllocationsAreOverlaps
  <1>1. FifoInv /\ PlacesInv => OverlapsTaken
    BY PlacedIsOverlap DEF FifoInv, OverlapsTaken
  <1> QED  BY <1>1, OverlapsAreTaken, FifoInductive, InitBooks, BooksStep, InitPlaces, PlacesStep,
              PTL DEF Spec

-----------------------------------------------------------------------------
(* Simulated sales: the inventory they are computed on.                    *)

\* Between two runs nothing is in hand.
IdleIsDone == phase = "idle" => current = None /\ pending = {}

LEMMA IdleInvariant == Spec => []IdleIsDone
  <1>1. Init => IdleIsDone
    BY DEF Init, IdleIsDone
  <1>2. IdleIsDone /\ [Next]_vars => IdleIsDone'
    <2> SUFFICES ASSUME IdleIsDone, [Next]_vars PROVE IdleIsDone'
      OBVIOUS
    <2>1. ASSUME NEW p \in Periods, StartRun(p) PROVE IdleIsDone'
      BY <2>1 DEF IdleIsDone, StartRun
    <2>2. ASSUME NEW d \in Disposals, TakeDisposal(d) PROVE IdleIsDone'
      BY <2>2 DEF IdleIsDone, TakeDisposal
    <2>3. ASSUME NEW l \in Lots, Allocate(l) \/ Refuse(l) PROVE IdleIsDone'
      BY <2>3 DEF IdleIsDone, Allocate, Refuse
    <2>4. CASE CloseDisposal
      BY <2>4 DEF IdleIsDone, CloseDisposal
    <2>5. CASE ReturnResult \/ UNCHANGED vars
      BY <2>5 DEF IdleIsDone, ReturnResult, vars
    <2> QED  BY <2>1, <2>2, <2>3, <2>4, <2>5 DEF Next
  <1> QED  BY <1>1, <1>2, PTL DEF Spec

\* A request that something is proposed for, once a run over everything is done.
Selling(r) ==
    /\ FifoInv /\ PlacesInv /\ IdleIsDone /\ SnapshotTaken
    /\ r \in Sellable /\ Proposable(r)

\* What all disposals so far have taken of the asset.
Origin(r) == Consumed({d \in Sales(period) : input.disposals[d].asset = r.asset})

LEMMA StockOnScale ==
    ASSUME NEW r, Selling(r)
    PROVE  /\ input \in Snapshots /\ period \in Periods
           /\ Origin(r) \in Nat
           /\ \A l \in LotsOf(r.asset) :
                 /\ l \in Inventory(period) /\ l \in Lots
                 /\ LotStart(l) \in Nat /\ LotEnd(l) \in Nat /\ LotStart(l) < LotEnd(l)
                 /\ remaining[l] = (LotEnd(l) - LotStart(l)) - Before(Origin(r), l)
  <1>1. /\ TypeOK /\ LotsInPlace /\ SalesInOrder
        /\ current = None /\ pending = {} /\ period # None
    BY DEF Selling, FifoInv, PlacesInv, IdleIsDone, SnapshotTaken
  <1>2. input \in Snapshots /\ period \in Periods
    BY <1>1 DEF TypeOK
  <1>3. InHand = {} /\ Calculated = Sales(period)
    BY <1>1 DEF InHand, SalesInOrder
  <1>4. Done(r.asset) = {d \in Sales(period) : input.disposals[d].asset = r.asset}
    BY <1>3 DEF Done, AssetOf
  <1>5. Consumed(Done(r.asset)) = Origin(r)
    BY <1>4 DEF Origin
  <1>6. Origin(r) \in Nat
    BY <1>1, <1>5, PositionTyped
  <1>7. Position(r.asset) = Origin(r)
    <2>1. Position(r.asset) = Consumed(Done(r.asset)) + 0
      BY <1>3 DEF Position
    <2> QED  BY <1>5, <1>6, <2>1
  <1>8. ASSUME NEW l \in LotsOf(r.asset)
        PROVE  /\ l \in Inventory(period) /\ l \in Lots
               /\ LotStart(l) \in Nat /\ LotEnd(l) \in Nat /\ LotStart(l) < LotEnd(l)
               /\ remaining[l] = (LotEnd(l) - LotStart(l)) - Before(Origin(r), l)
    <2>1. l \in Inventory(period) /\ input.lots[l].asset = r.asset
      BY DEF LotsOf
    <2>2. /\ l \in Lots /\ input.lots[l].quantity \in Nat /\ input.lots[l].quantity > 0
          /\ LotStart(l) \in Nat /\ LotEnd(l) \in Nat
          /\ LotEnd(l) = LotStart(l) + input.lots[l].quantity
      BY <1>2, <2>1, LotsAreIntervals
    <2>3. LotStart(l) < LotEnd(l) /\ input.lots[l].quantity = LotEnd(l) - LotStart(l)
      BY <2>2
    <2>4. remaining[l] = input.lots[l].quantity - Before(Position(input.lots[l].asset), l)
      BY <1>1, <2>1 DEF LotsInPlace
    <2> QED  BY <1>7, <2>1, <2>2, <2>3, <2>4
  <1> QED  BY <1>2, <1>6, <1>8

LEMMA StockIsSum == \A x : Stock(x) = SumOf(remaining, InStock(x))
  BY DEF Stock, SumOver, SumOf, MapThenSumSet, MapThenFoldSet

\* The numbers of a sale.
LEMMA SaleTyped ==
    ASSUME NEW r, Selling(r)
    PROVE  /\ InStock(r.asset) \in SUBSET Lots /\ IsFiniteSet(InStock(r.asset))
           /\ InStock(r.asset) \subseteq LotsOf(r.asset)
           /\ \A l \in Lots : remaining[l] \in Nat /\ restCost[l] \in Int
           /\ \A l \in InStock(r.asset) : remaining[l] > 0
           /\ Stock(r.asset) \in Nat
           /\ Proposed(r) \in Nat /\ 0 < Proposed(r) /\ Proposed(r) <= Stock(r.asset)
           /\ Gross(r) \in Nat
           /\ r.fee # None => r.fee \in Nat
           /\ \A q \in 1 .. Proposed(r) :
                 /\ Share(Gross(r), q, Proposed(r)) \in Nat
                 /\ r.fee # None => Share(r.fee, q, Proposed(r)) \in Nat
  <1> DEFINE S == InStock(r.asset)
             P == Proposed(r)
  <1>1. TypeOK /\ LotsBounded /\ r \in Sellable /\ input \in Snapshots /\ Feasible(r)
    BY StockOnScale DEF Selling, FifoInv, Proposable
  <1>2. S \in SUBSET Lots /\ IsFiniteSet(S) /\ S \subseteq LotsOf(r.asset)
    <2>1. S \subseteq Lots /\ S \subseteq LotsOf(r.asset)
      BY DEF InStock, LotsOf, Inventory
    <2> QED  BY <2>1, FiniteAssumption, FS_Subset
  <1>3. \A l \in Lots : remaining[l] \in Nat /\ restCost[l] \in Int
    BY <1>1 DEF TypeOK
  <1>4. \A l \in S : remaining[l] > 0
    BY DEF InStock
  <1>5. Stock(r.asset) = SumOf(remaining, S) /\ SumOf(remaining, S) \in Nat
    BY <1>2, <1>3, StockIsSum, SumPositive
  <1>6. P \in Nat /\ 0 < P /\ P <= Stock(r.asset)
    BY <1>1, <1>5 DEF Feasible
  <1>7. r.price \in Nat /\ r.fee \in Nat \cup {None}
    BY <1>1, SellableAssumption DEF WellFormed, Positive
  <1>8. Gross(r) = P * r.price /\ P * r.price \in Nat
    BY <1>6, <1>7 DEF Gross
  <1>9. P \in Quantities(input)
    <2>1. /\ \A T \in SUBSET Lots : LotSum(input, T) = SumOf(QuantitiesOf(input), T)
          /\ LotSum(input, Lots) \in Nat /\ LotSum(input, S) \in Nat
          /\ LotSum(input, S) <= LotSum(input, Lots)
      BY <1>1, <1>2, LotSumIsSum, LotSums
    <2>2. \A l \in S : /\ remaining[l] \in Int /\ QuantitiesOf(input)[l] \in Int
                       /\ remaining[l] <= QuantitiesOf(input)[l]
      <3> SUFFICES ASSUME NEW l \in S
                   PROVE  /\ remaining[l] \in Int /\ QuantitiesOf(input)[l] \in Int
                          /\ remaining[l] <= QuantitiesOf(input)[l]
        OBVIOUS
      <3> HIDE DEF S
      <3>1. l \in Lots
        BY <1>2
      <3>2. input.lots[l].quantity \in Nat
        BY <1>1, <3>1, LotOrder
      <3>3. remaining[l] <= input.lots[l].quantity
        BY <1>1, <3>1 DEF LotsBounded
      <3>4. QuantitiesOf(input)[l] = input.lots[l].quantity
        BY <3>1 DEF QuantitiesOf
      <3>5. remaining[l] \in Nat
        BY <1>3, <3>1
      <3> QED  BY <3>2, <3>3, <3>4, <3>5
    <2>3. SumOf(remaining, S) <= SumOf(QuantitiesOf(input), S)
      BY <1>2, <2>2, SumMonotone
    <2>4. SumOf(remaining, S) <= LotSum(input, S)
      BY <1>2, <2>1, <2>3
    <2>5. P <= LotSum(input, Lots)
      BY <1>5, <1>6, <2>1, <2>4
    <2>6. Quantities(input) = 1 .. LotSum(input, Lots)
      BY DEF Quantities, LotSum
    <2> QED  BY <1>6, <2>1, <2>5, <2>6
  <1>10. ASSUME NEW q \in 1 .. P
         PROVE  /\ Share(Gross(r), q, P) \in Nat
                /\ r.fee # None => Share(r.fee, q, P) \in Nat
    <2>1. /\ Share(P * r.price, q, P) \in Nat
          /\ r.fee # None => Share(r.fee, q, P) \in Nat
      BY <1>1, <1>9, SaleShareAssumption
    <2> QED  BY <1>8, <2>1
  <1> QED  BY <1>2, <1>3, <1>4, <1>5, <1>6, <1>7, <1>8, <1>10

-----------------------------------------------------------------------------
(* Simulated sales: the loop.                                              *)

\* Any set of lots has a last one.
LEMMA LastIsLast ==
    ASSUME input \in Snapshots, NEW T \in SUBSET Lots, T # {}
    PROVE  LastLot(T) \in T /\ \A x \in T \ {LastLot(T)} : Precedes(input.lots, x, LastLot(T))
  BY LotOrder DEF LastLot

\* What a sale can be on the way.
Costs == {restCost[l] : l \in Lots} \cup
         {Share(restCost[l], q, remaining[l]) : l \in Lots, q \in Nat}
Pieces == [lot : Lots, quantity : Nat, cost : Costs, proceeds : Int, fee : Int]
SaleSoFar(r) == [left : 0 .. Proposed(r), pieces : SUBSET Pieces, proceeds : Int, fee : Int]

\* One turn of the loop.
LEMMA PieceTyped ==
    ASSUME NEW r, Selling(r), NEW sale \in SaleSoFar(r), sale.left # 0, NEW l \in InStock(r.asset),
           NEW q, q = Smaller(sale.left, remaining[l])
    PROVE  /\ q \in Nat /\ 0 < q /\ q <= sale.left /\ q <= remaining[l]
           /\ Piece(sale, l, q, r) \in Pieces
           /\ q = sale.left => /\ Piece(sale, l, q, r).proceeds = Gross(r) - sale.proceeds
                               /\ r.fee # None => Piece(sale, l, q, r).fee = r.fee - sale.fee
           /\ q = remaining[l] => Piece(sale, l, q, r).cost = restCost[l]
  <1>1. /\ l \in Lots /\ remaining[l] \in Nat /\ remaining[l] > 0
        /\ sale.left \in Nat /\ sale.left > 0 /\ sale.left <= Proposed(r)
        /\ Proposed(r) \in Nat /\ Gross(r) \in Nat /\ sale.proceeds \in Int /\ sale.fee \in Int
        /\ r.fee # None => r.fee \in Nat
    BY SaleTyped DEF SaleSoFar
  <1>2. q \in Nat /\ 0 < q /\ q <= sale.left /\ q <= remaining[l] /\ q \in 1 .. Proposed(r)
    BY <1>1 DEF Smaller
  <1>3. Rest(Gross(r), sale.proceeds, q, sale, r) \in Int
    BY <1>1, <1>2, SaleTyped DEF Rest
  <1>4. r.fee # None => Rest(r.fee, sale.fee, q, sale, r) \in Int
    BY <1>1, <1>2, SaleTyped DEF Rest
  <1>5. (IF q = remaining[l] THEN restCost[l] ELSE Share(restCost[l], q, remaining[l])) \in Costs
    BY <1>1, <1>2 DEF Costs
  <1>6. Piece(sale, l, q, r) \in Pieces
    BY <1>1, <1>2, <1>3, <1>4, <1>5 DEF Piece, Pieces
  <1>7. q = sale.left => /\ Piece(sale, l, q, r).proceeds = Gross(r) - sale.proceeds
                         /\ r.fee # None => Piece(sale, l, q, r).fee = r.fee - sale.fee
    BY DEF Piece, Rest
  <1>8. q = remaining[l] => Piece(sale, l, q, r).cost = restCost[l]
    BY DEF Piece
  <1> QED  BY <1>2, <1>6, <1>7, <1>8

LEMMA SellTyped ==
    ASSUME NEW r, Selling(r), NEW sale \in SaleSoFar(r), NEW l \in InStock(r.asset)
    PROVE  Sell(sale, l, r) \in SaleSoFar(r)
  <1>1. CASE sale.left = 0
    BY <1>1 DEF Sell
  <1>2. CASE sale.left # 0
    <2>1. PICK q : q = Smaller(sale.left, remaining[l])
      OBVIOUS
    <2>2. PICK piece \in Pieces : piece = Piece(sale, l, q, r)
      BY <1>2, <2>1, PieceTyped
    <2>3. q \in Nat /\ 0 < q /\ q <= sale.left
      BY <1>2, <2>1, PieceTyped
    <2>4. piece.quantity = q /\ piece.proceeds \in Int /\ piece.fee \in Int
      BY <2>2 DEF Piece, Pieces
    <2>5. Sell(sale, l, r) = Sold(sale, piece)
      BY <1>2, <2>1, <2>2 DEF Sell
    <2>6. Sold(sale, piece) \in SaleSoFar(r)
      <3>1. Proposed(r) \in Nat
        BY SaleTyped
      <3>2. /\ sale.left \in 0 .. Proposed(r) /\ sale.pieces \in SUBSET Pieces
            /\ sale.proceeds \in Int /\ sale.fee \in Int
        BY DEF SaleSoFar
      <3>3. sale.left - q \in 0 .. Proposed(r)
        BY <2>3, <3>1, <3>2
      <3>4. sale.pieces \cup {piece} \in SUBSET Pieces
        BY <3>2
      <3> QED  BY <2>4, <3>2, <3>3, <3>4 DEF Sold, SaleSoFar
    <2> QED  BY <2>5, <2>6
  <1> QED  BY <1>1, <1>2

\* The loop, as a function of the lots it has visited.
LEMMA ProposalIsLoop ==
    ASSUME NEW r, Selling(r)
    PROVE  \E loop \in [SUBSET InStock(r.asset) -> SaleSoFar(r)] :
              /\ loop[{}] = Unsold(r)
              /\ \A T \in SUBSET InStock(r.asset) : T # {} =>
                    loop[T] = Sell(loop[T \ {LastLot(T)}], LastLot(T), r)
              /\ Proposal(r) = loop[InStock(r.asset)].pieces
  <1> DEFINE S == InStock(r.asset)
             V == SaleSoFar(r)
             pick == [T \in SUBSET S |-> LastLot(T)]
             next == [y \in S \X V |-> Sell(y[2], y[1], r)]
             F(h) == [T \in SUBSET S |->
                         IF T = {} THEN Unsold(r) ELSE Sell(h[T \ {LastLot(T)}], LastLot(T), r)]
             it == CHOOSE h : h = F(h)
  <1>1. input \in Snapshots /\ S \in SUBSET Lots /\ IsFiniteSet(S)
    BY SaleTyped, StockOnScale
  <1>2. \A T \in SUBSET S : T # {} => LastLot(T) \in T
    BY <1>1, LastIsLast
  <1>3. Unsold(r) \in V
    BY SaleTyped DEF Unsold, SaleSoFar
  <1>4. next \in [S \X V -> V]
    BY SellTyped
  <1>5. \A T \in SUBSET S : T # {} => pick[T] \in T
    BY <1>2
  <1>6. PICK g \in [SUBSET S -> V] : Folds(g, Unsold(r), next, pick, SUBSET S)
    <2> HIDE DEF S, V, pick, next
    <2> QED  BY <1>1, <1>3, <1>4, <1>5, FoldsExist
  <1>7. g = F(g)
    <2>1. \A T \in SUBSET S : T # {} =>
              next[<<pick[T], g[T \ {pick[T]}]>>] = Sell(g[T \ {LastLot(T)}], LastLot(T), r)
      BY <1>2
    <2>2. g = [T \in SUBSET S |-> IF T = {} THEN Unsold(r)
                                  ELSE next[<<pick[T], g[T \ {pick[T]}]>>]]
      BY <1>6 DEF Folds
    <2> HIDE DEF next, pick, V, S
    <2> QED  BY <2>1, <2>2
  <1>8. Proposal(r) = it[S].pieces
    BY DEF Proposal, MapThenFoldSet
  <1>9. it = F(it)
    <2> HIDE DEF F
    <2> QED  BY <1>7
  <1> HIDE DEF it
  <1>10. \A T \in SUBSET S : it[T] = IF T = {} THEN Unsold(r)
                                     ELSE Sell(it[T \ {LastLot(T)}], LastLot(T), r)
    BY <1>9
  <1>11. it \in [SUBSET S -> V]
    <2> DEFINE N == {n \in Nat : \A T \in UpTo(S, n) : it[T] \in V}
    <2>0. \A T \in SUBSET S : IsFiniteSet(T) /\ Cardinality(T) \in Nat
      BY <1>1, FS_Subset, FS_CardinalityType
    <2>1. 0 \in N
      <3>1. \A T \in UpTo(S, 0) : T = {} /\ T \in SUBSET S
        BY <2>0, FS_EmptySet DEF UpTo
      <3> HIDE DEF V, S
      <3> QED  BY <1>3, <1>10, <3>1
    <2>2. ASSUME NEW n \in N
          PROVE  n + 1 \in N
      <3> SUFFICES ASSUME NEW T \in UpTo(S, n + 1) PROVE it[T] \in V
        OBVIOUS
      <3>1. T \in SUBSET S /\ Cardinality(T) <= n + 1 /\ n \in Nat
        BY DEF UpTo
      <3>2. CASE T = {}
        <4> HIDE DEF V, S
        <4> QED  BY <1>3, <1>10, <3>1, <3>2
      <3>3. CASE T # {}
        <4>1. LastLot(T) \in T
          BY <1>2, <3>1, <3>3
        <4>2. Cardinality(T \ {LastLot(T)}) = Cardinality(T) - 1 /\ Cardinality(T) \in Nat
          BY <2>0, <3>1, <4>1, FS_RemoveElement
        <4>3. T \ {LastLot(T)} \in UpTo(S, n)
          BY <3>1, <4>2 DEF UpTo
        <4>4. it[T \ {LastLot(T)}] \in V
          BY <4>3
        <4>5. Sell(it[T \ {LastLot(T)}], LastLot(T), r) \in V
          BY <3>1, <4>1, <4>4, SellTyped
        <4> HIDE DEF V, S
        <4> QED  BY <1>10, <3>1, <3>3, <4>5
      <3> QED  BY <3>2, <3>3
    <2> HIDE DEF N
    <2>3. N = Nat
      <3>1. N \in SUBSET Nat
        BY DEF N
      <3> QED  BY <2>1, <2>2, <3>1, NaturalsBySteps
    <2>4. \A T \in SUBSET S : it[T] \in V
      BY <2>0, <2>3 DEF N, UpTo
    <2> HIDE DEF V, S
    <2> QED  BY <1>9, <2>4
  <1> QED  BY <1>8, <1>10, <1>11

-----------------------------------------------------------------------------
(* Simulated sales: what the loop has sold.                                *)

\* Sums of a field over records whatever else they hold: one record more, and none.
LEMMA FieldSumAdd ==
    ASSUME NEW k, NEW S, IsFiniteSet(S), NEW a, a \notin S, \A x \in S \cup {a} : x[k] \in Int
    PROVE  FieldSum(k, S) \in Int /\ FieldSum(k, S \cup {a}) = FieldSum(k, S) + a[k]
  <1> DEFINE f == [x \in S |-> x[k]]
             h == [x \in S \cup {a} |-> x[k]]
  <1>1. IsFiniteSet(S \cup {a})
    BY FS_AddElement
  <1>2. FieldSum(k, S) = SumOf(f, S) /\ FieldSum(k, S \cup {a}) = SumOf(h, S \cup {a})
    BY <1>1, FieldSumIsSum
  <1>3. \A x \in S : f[x] \in Int /\ f[x] = h[x]
    OBVIOUS
  <1>4. h[a] = a[k] /\ \A x \in S \cup {a} : h[x] \in Int
    OBVIOUS
  <1> HIDE DEF f, h
  <1>5. SumOf(f, S) = SumOf(h, S) /\ SumOf(f, S) \in Int
    BY <1>3, SumSame, SumType
  <1>6. SumOf(h, S \cup {a}) = h[a] + SumOf(h, S)
    BY <1>4, SumAdd
  <1>7. a[k] \in Int
    OBVIOUS
  <1> QED  BY <1>2, <1>4, <1>5, <1>6, <1>7

LEMMA FieldSumNone == ASSUME NEW k PROVE FieldSum(k, {}) = 0
  BY FieldSumIsSum, SumEmpty, FS_EmptySet

\* The lots visited so far are the oldest in stock.
Front(T, r) ==
    /\ T \subseteq InStock(r.asset)
    /\ \A y \in T : \A z \in InStock(r.asset) : Precedes(input.lots, z, y) => z \in T

\* Where on the scale of the lots the sale has got to.
Reached(sale, r) == Origin(r) + (Proposed(r) - sale.left)

\* Amounts: the pieces are those of the lots visited, add up to what the loop has added
\* up, and to everything once nothing is left to sell.
SaleBooked(sale, T, r) ==
    /\ IsFiniteSet(sale.pieces)
    /\ \A p \in sale.pieces : p.lot \in T
    /\ FieldSum("proceeds", sale.pieces) = sale.proceeds
    /\ FieldSum("fee", sale.pieces) = sale.fee
    /\ sale.left = IF SumOf(remaining, T) <= Proposed(r)
                   THEN Proposed(r) - SumOf(remaining, T) ELSE 0
    /\ sale.left = 0 => /\ sale.proceeds = Gross(r)
                        /\ r.fee # None => sale.fee = r.fee

\* Places: each lot has given what lies between the origin and where the sale has got to,
\* and the lots visited are used up as long as there is something left to sell.
SalePlaced(sale, T, r) ==
    /\ \A l \in LotsOf(r.asset) :
          FieldSum("quantity", {p \in sale.pieces : p.lot = l})
            = Before(Reached(sale, r), l) - Before(Origin(r), l)
    /\ Reached(sale, r) = Origin(r) \/ \E y \in T : Reached(sale, r) <= LotEnd(y)
    /\ sale.left > 0 => \A y \in T : LotEnd(y) <= Reached(sale, r)

\* Cost: if everything is sold it is that of the lots visited.
SaleCosted(sale, T, r) ==
    Proposed(r) = Stock(r.asset) =>
        /\ \A p \in sale.pieces : p.cost \in Int
        /\ FieldSum("cost", sale.pieces) = SumOf(restCost, T)

\* Stock as numbers: what a set of lots holds, and one lot more.
LEMMA StockAdds ==
    ASSUME NEW r, Selling(r), NEW T \in SUBSET InStock(r.asset), NEW l \in InStock(r.asset) \ T
    PROVE  /\ SumOf(remaining, T) \in Nat /\ remaining[l] \in Nat /\ remaining[l] > 0
           /\ SumOf(remaining, T \cup {l}) = remaining[l] + SumOf(remaining, T)
           /\ SumOf(remaining, T \cup {l}) <= Stock(r.asset)
           /\ SumOf(restCost, T \cup {l}) = restCost[l] + SumOf(restCost, T)
           /\ SumOf(restCost, T) \in Int /\ restCost[l] \in Int
  <1>1. PICK S : S = InStock(r.asset)
    OBVIOUS
  <1>2. /\ S \in SUBSET Lots /\ IsFiniteSet(S) /\ T \in SUBSET S /\ l \in S \ T
        /\ \A x \in Lots : remaining[x] \in Nat /\ restCost[x] \in Int
        /\ \A x \in S : remaining[x] > 0
    BY <1>1, SaleTyped
  <1>3. /\ IsFiniteSet(T) /\ T \cup {l} \in SUBSET S
        /\ \A x \in T : remaining[x] \in Nat /\ restCost[x] \in Int
        /\ \A x \in T \cup {l} : remaining[x] \in Int /\ restCost[x] \in Int
        /\ \A x \in S : remaining[x] \in Nat
    BY <1>2, FS_Subset
  <1>4. SumOf(remaining, T) \in Nat /\ SumOf(restCost, T) \in Int
    BY <1>3, SumPositive, SumType
  <1>5. /\ SumOf(remaining, T \cup {l}) = remaining[l] + SumOf(remaining, T)
        /\ SumOf(restCost, T \cup {l}) = restCost[l] + SumOf(restCost, T)
    BY <1>2, <1>3, SumAdd
  <1>6. SumOf(remaining, T \cup {l}) <= SumOf(remaining, S)
    BY <1>2, <1>3, SumOfSubset
  <1>7. Stock(r.asset) = SumOf(remaining, S)
    BY <1>1, StockIsSum
  <1> QED  BY <1>2, <1>4, <1>5, <1>6, <1>7

\* The next lot to visit.
IsNext(l, T, r) ==
    /\ T \in SUBSET InStock(r.asset) /\ l \in InStock(r.asset) \ T
    /\ \A z \in InStock(r.asset) : Precedes(input.lots, z, l) <=> z \in T

LEMMA ReachTyped ==
    ASSUME NEW r, Selling(r), NEW sale \in SaleSoFar(r)
    PROVE  /\ Reached(sale, r) \in Nat /\ Origin(r) \in Nat /\ Origin(r) <= Reached(sale, r)
           /\ sale.left \in Nat /\ sale.left <= Proposed(r) /\ Proposed(r) \in Nat
           /\ sale.proceeds \in Int /\ sale.fee \in Int /\ sale.pieces \in SUBSET Pieces
  <1>1. Origin(r) \in Nat /\ Proposed(r) \in Nat
    BY StockOnScale, SaleTyped
  <1>2. /\ sale.left \in 0 .. Proposed(r) /\ sale.proceeds \in Int /\ sale.fee \in Int
        /\ sale.pieces \in SUBSET Pieces
    BY DEF SaleSoFar
  <1> QED  BY <1>1, <1>2 DEF Reached

\* The next lot is the one the sale has reached.
LEMMA SellsWhereReached ==
    ASSUME NEW r, Selling(r), NEW sale \in SaleSoFar(r), NEW T, NEW l, IsNext(l, T, r),
           SalePlaced(sale, T, r), sale.left > 0
    PROVE  /\ LotStart(l) <= Reached(sale, r)
           /\ remaining[l] = LotEnd(l) - Reached(sale, r)
  <1>1. PICK b, t : b = Origin(r) /\ t = Reached(sale, r)
    OBVIOUS
  <1>2. b \in Nat /\ t \in Nat /\ b <= t
    BY <1>1, ReachTyped
  <1>3. input \in Snapshots /\ l \in LotsOf(r.asset) /\ remaining[l] > 0
        /\ InStock(r.asset) \subseteq LotsOf(r.asset)
    BY SaleTyped, StockOnScale DEF IsNext
  <1>4. \A x \in LotsOf(r.asset) :
            /\ x \in Inventory(period) /\ x \in Lots /\ input.lots[x].asset = r.asset
            /\ LotStart(x) \in Nat /\ LotEnd(x) \in Nat /\ LotStart(x) < LotEnd(x)
            /\ remaining[x] = (LotEnd(x) - LotStart(x)) - Covered(b, LotStart(x), LotEnd(x))
    BY <1>1, StockOnScale DEF Before, LotsOf
  <1>5. t = b \/ \E y \in T : t <= LotEnd(y)
    BY <1>1 DEF SalePlaced
  <1>6. \A y \in T : LotEnd(y) <= t
    BY <1>1 DEF SalePlaced
  <1>7. LotStart(l) = 0 \/ \E x \in Older(l) : LotEnd(x) = LotStart(l)
    BY <1>3, <1>4, LotsDoTile DEF LotsTile
  <1>8. LotStart(l) <= t
    <2>1. CASE LotStart(l) = 0
      BY <1>2, <2>1
    <2>2. CASE \E x \in Older(l) : LotEnd(x) = LotStart(l)
      <3>1. PICK x \in Older(l) : LotEnd(x) = LotStart(l)
        BY <2>2
      <3>2. x \in LotsOf(r.asset) /\ Precedes(input.lots, x, l)
        BY <1>3, <1>4 DEF Older, LotsOf
      <3>3. CASE x \in InStock(r.asset)
        BY <1>6, <3>1, <3>2, <3>3 DEF IsNext
      <3>4. CASE x \notin InStock(r.asset)
        <4>1. remaining[x] \in Nat /\ ~(remaining[x] > 0)
          BY <1>4, <3>2, <3>4, SaleTyped DEF InStock
        <4>2. (LotEnd(x) - LotStart(x)) - Covered(b, LotStart(x), LotEnd(x)) = 0
          BY <1>4, <3>2, <4>1
        <4>3. LotEnd(x) <= b
          BY <1>2, <1>4, <3>2, <4>2, CoveredCases
        <4> QED  BY <1>2, <1>4, <3>1, <3>2, <4>3
      <3> QED  BY <3>3, <3>4
    <2> QED  BY <1>7, <2>1, <2>2
  <1>9. t = b \/ t = LotStart(l)
    <2> SUFFICES ASSUME NEW y \in T, t <= LotEnd(y) PROVE t = LotStart(l)
      BY <1>5
    <2>1. y \in LotsOf(r.asset) /\ Precedes(input.lots, y, l)
      BY <1>3 DEF IsNext
    <2>2. y \in Older(l)
      BY <1>3, <1>4, <2>1 DEF Older
    <2>3. LotEnd(y) <= LotStart(l)
      BY <1>3, <1>4, <2>2, LotsDoTile DEF LotsTile
    <2> QED  BY <1>2, <1>3, <1>4, <1>8, <2>1, <2>3
  <1>10. PICK start, end, rest : start = LotStart(l) /\ end = LotEnd(l) /\ rest = remaining[l]
    OBVIOUS
  <1>11. /\ start \in Nat /\ end \in Nat /\ start < end /\ rest > 0
         /\ rest = (end - start) - Covered(b, start, end)
         /\ start <= t /\ (t = b \/ t = start)
    BY <1>3, <1>4, <1>8, <1>9, <1>10
  <1>12. rest = end - t
    <2>1. CASE t = b
      <3>1. b < end
        BY <1>2, <1>11, CoveredCases
      <3>2. Covered(b, start, end) = b - start
        BY <1>2, <1>11, <2>1, <3>1, CoveredCases
      <3> QED  BY <1>2, <1>11, <2>1, <3>2
    <2>2. CASE t = start
      <3>1. Covered(b, start, end) = 0
        BY <1>2, <1>11, <2>2, CoveredCases
      <3> QED  BY <1>2, <1>11, <2>2, <3>1
    <2> QED  BY <1>11, <2>1, <2>2
  <1> QED  BY <1>1, <1>10, <1>11, <1>12

\* Selling from it leaves the others as they are.
LEMMA OthersKeep ==
    ASSUME NEW r, Selling(r), NEW l \in LotsOf(r.asset), NEW t \in Nat, NEW u \in Nat,
           LotStart(l) <= t, t <= u, u <= LotEnd(l)
    PROVE  /\ Before(u, l) = Before(t, l) + (u - t)
           /\ \A x \in LotsOf(r.asset) : x # l => Before(u, x) = Before(t, x)
           /\ \A x \in LotsOf(r.asset) : Before(t, x) \in Int
  <1>1. input \in Snapshots
    BY StockOnScale
  <1>2. \A x \in LotsOf(r.asset) :
            /\ x \in Inventory(period) /\ x \in Lots /\ input.lots[x].asset = r.asset
            /\ LotStart(x) \in Nat /\ LotEnd(x) \in Nat /\ LotStart(x) < LotEnd(x)
    BY StockOnScale DEF LotsOf
  <1>3. Before(u, l) = Before(t, l) + (u - t)
    <2>1. PICK start, end : start = LotStart(l) /\ end = LotEnd(l)
      OBVIOUS
    <2>2. start \in Nat /\ end \in Nat /\ start < end /\ start <= t /\ u <= end
      BY <1>2, <2>1
    <2>3. Covered(u, start, end) = u - start /\ Covered(t, start, end) = t - start
      BY <2>2, CoveredCases
    <2> QED  BY <2>1, <2>2, <2>3 DEF Before
  <1>4. ASSUME NEW x \in LotsOf(r.asset), x # l
        PROVE  Before(u, x) = Before(t, x)
    <2>1. CASE Precedes(input.lots, x, l)
      <3>1. LotEnd(x) <= LotStart(l)
        BY <1>1, <1>2, <2>1, LotsDoTile DEF LotsTile, Older
      <3>2. LotEnd(x) <= t /\ LotEnd(x) <= u
        BY <1>2, <3>1
      <3> QED  BY <1>2, <3>2, CoveredCases DEF Before
    <2>2. CASE Precedes(input.lots, l, x)
      <3>1. LotEnd(l) <= LotStart(x)
        BY <1>1, <1>2, <2>2, LotsDoTile DEF LotsTile, Older
      <3>2. t <= LotStart(x) /\ u <= LotStart(x)
        BY <1>2, <3>1
      <3> QED  BY <1>2, <3>2, CoveredCases DEF Before
    <2> QED  BY <1>1, <1>2, <1>4, <2>1, <2>2, LotOrder
  <1>5. \A x \in LotsOf(r.asset) : Before(t, x) \in Int
    BY <1>2, CoveredCases DEF Before
  <1> QED  BY <1>3, <1>4, <1>5

\* A turn with something left to sell adds a piece of the lot.
LEMMA SellsAPiece ==
    ASSUME NEW r, Selling(r), NEW sale \in SaleSoFar(r), sale.left > 0,
           NEW T, NEW l, IsNext(l, T, r), SaleBooked(sale, T, r)
    PROVE  \E q \in Nat, piece \in Pieces :
              /\ 0 < q /\ q <= sale.left /\ q <= remaining[l]
              /\ q = sale.left \/ q = remaining[l]
              /\ piece.lot = l /\ piece.quantity = q
              /\ piece.proceeds \in Int /\ piece.fee \in Int
              /\ q = sale.left => /\ piece.proceeds = Gross(r) - sale.proceeds
                                  /\ r.fee # None => piece.fee = r.fee - sale.fee
              /\ q = remaining[l] => piece.cost = restCost[l]
              /\ piece \notin sale.pieces
              /\ Sell(sale, l, r).left = sale.left - q
              /\ Sell(sale, l, r).pieces = sale.pieces \cup {piece}
              /\ Sell(sale, l, r).proceeds = sale.proceeds + piece.proceeds
              /\ Sell(sale, l, r).fee = sale.fee + piece.fee
  <1>1. l \in InStock(r.asset) /\ l \notin T /\ sale.left # 0
    BY ReachTyped DEF IsNext
  <1>2. PICK q : q = Smaller(sale.left, remaining[l])
    OBVIOUS
  <1>3. PICK piece \in Pieces : piece = Piece(sale, l, q, r)
    BY <1>1, <1>2, PieceTyped
  <1>4. q \in Nat /\ 0 < q /\ q <= sale.left /\ q <= remaining[l]
    BY <1>1, <1>2, PieceTyped
  <1>5. q = sale.left \/ q = remaining[l]
    BY <1>2 DEF Smaller
  <1>6. /\ q = sale.left => /\ piece.proceeds = Gross(r) - sale.proceeds
                            /\ r.fee # None => piece.fee = r.fee - sale.fee
        /\ q = remaining[l] => piece.cost = restCost[l]
    BY <1>1, <1>2, <1>3, PieceTyped
  <1>7. piece.lot = l /\ piece.quantity = q /\ piece.proceeds \in Int /\ piece.fee \in Int
    BY <1>3 DEF Piece, Pieces
  <1>8. piece \notin sale.pieces
    BY <1>1, <1>7 DEF SaleBooked
  <1>9. Sell(sale, l, r) = Sold(sale, piece)
    BY <1>1, <1>2, <1>3 DEF Sell
  <1>10. /\ Sold(sale, piece).left = sale.left - q
         /\ Sold(sale, piece).pieces = sale.pieces \cup {piece}
         /\ Sold(sale, piece).proceeds = sale.proceeds + piece.proceeds
         /\ Sold(sale, piece).fee = sale.fee + piece.fee
    BY <1>7 DEF Sold
  <1> QED  BY <1>4, <1>5, <1>6, <1>7, <1>8, <1>9, <1>10

LEMMA SellBooks ==
    ASSUME NEW r, Selling(r), NEW sale \in SaleSoFar(r), sale.left > 0,
           NEW T, NEW l, IsNext(l, T, r), SaleBooked(sale, T, r)
    PROVE  SaleBooked(Sell(sale, l, r), T \cup {l}, r)
  <1>1. PICK q \in Nat, piece \in Pieces :
              /\ 0 < q /\ q <= sale.left /\ q <= remaining[l]
              /\ q = sale.left \/ q = remaining[l]
              /\ piece.lot = l
              /\ piece.proceeds \in Int /\ piece.fee \in Int
              /\ q = sale.left => /\ piece.proceeds = Gross(r) - sale.proceeds
                                  /\ r.fee # None => piece.fee = r.fee - sale.fee
              /\ piece \notin sale.pieces
              /\ Sell(sale, l, r).left = sale.left - q
              /\ Sell(sale, l, r).pieces = sale.pieces \cup {piece}
              /\ Sell(sale, l, r).proceeds = sale.proceeds + piece.proceeds
              /\ Sell(sale, l, r).fee = sale.fee + piece.fee
    BY SellsAPiece
  <1>2. PICK now : now = Sell(sale, l, r)
    OBVIOUS
  <1>3. /\ IsFiniteSet(sale.pieces) /\ \A p \in sale.pieces : p.lot \in T
        /\ FieldSum("proceeds", sale.pieces) = sale.proceeds
        /\ FieldSum("fee", sale.pieces) = sale.fee
        /\ sale.left = IF SumOf(remaining, T) <= Proposed(r)
                       THEN Proposed(r) - SumOf(remaining, T) ELSE 0
    BY DEF SaleBooked
  <1>4. /\ sale.left \in Nat /\ Proposed(r) \in Nat
        /\ sale.proceeds \in Int /\ sale.fee \in Int /\ sale.pieces \in SUBSET Pieces
    BY ReachTyped
  <1>5. IsFiniteSet(now.pieces) /\ \A p \in now.pieces : p.lot \in T \cup {l}
    BY <1>1, <1>2, <1>3, FS_AddElement
  <1>6. /\ FieldSum("proceeds", now.pieces) = now.proceeds
        /\ FieldSum("fee", now.pieces) = now.fee
    <2>1. \A p \in sale.pieces \cup {piece} : p.proceeds \in Int /\ p.fee \in Int
      BY <1>4 DEF Pieces
    <2>2. FieldSum("proceeds", sale.pieces \cup {piece})
            = FieldSum("proceeds", sale.pieces) + piece.proceeds
      BY <1>1, <1>3, <2>1, FieldSumAdd
    <2>3. FieldSum("fee", sale.pieces \cup {piece}) = FieldSum("fee", sale.pieces) + piece.fee
      BY <1>1, <1>3, <2>1, FieldSumAdd
    <2> QED  BY <1>1, <1>2, <1>3, <2>2, <2>3
  <1>7. now.left = IF SumOf(remaining, T \cup {l}) <= Proposed(r)
                   THEN Proposed(r) - SumOf(remaining, T \cup {l}) ELSE 0
    <2>1. /\ SumOf(remaining, T) \in Nat /\ remaining[l] \in Nat
          /\ SumOf(remaining, T \cup {l}) = remaining[l] + SumOf(remaining, T)
      BY StockAdds DEF IsNext
    <2>2. sale.left = Proposed(r) - SumOf(remaining, T)
      BY <1>3
    <2> QED  BY <1>1, <1>2, <1>4, <2>1, <2>2
  <1>8. now.left = 0 => now.proceeds = Gross(r) /\ (r.fee # None => now.fee = r.fee)
    <2> SUFFICES ASSUME now.left = 0
                 PROVE  now.proceeds = Gross(r) /\ (r.fee # None => now.fee = r.fee)
      OBVIOUS
    <2>1. q = sale.left
      <3>1. now.left = sale.left - q
        BY <1>1, <1>2
      <3>2. sale.left \in Nat
        BY <1>4
      <3> QED  BY <3>1, <3>2
    <2>2. Gross(r) \in Int /\ (r.fee # None => r.fee \in Int)
      BY SaleTyped
    <2> QED  BY <1>1, <1>2, <1>4, <2>1, <2>2
  <1> QED  BY <1>2, <1>5, <1>6, <1>7, <1>8 DEF SaleBooked

LEMMA SellPlaces ==
    ASSUME NEW r, Selling(r), NEW sale \in SaleSoFar(r), sale.left > 0,
           NEW T, NEW l, IsNext(l, T, r), SaleBooked(sale, T, r), SalePlaced(sale, T, r)
    PROVE  SalePlaced(Sell(sale, l, r), T \cup {l}, r)
  <1>1. PICK q \in Nat, piece \in Pieces :
              /\ 0 < q /\ q <= sale.left /\ q <= remaining[l]
              /\ q = sale.left \/ q = remaining[l]
              /\ piece.lot = l /\ piece.quantity = q
              /\ piece \notin sale.pieces
              /\ Sell(sale, l, r).left = sale.left - q
              /\ Sell(sale, l, r).pieces = sale.pieces \cup {piece}
    BY SellsAPiece
  <1>2. PICK now, t, u : now = Sell(sale, l, r) /\ t = Reached(sale, r) /\ u = Reached(now, r)
    OBVIOUS
  <1>3. /\ t \in Nat /\ u = t + q /\ u \in Nat
    <2>1. /\ Reached(sale, r) \in Nat /\ Origin(r) \in Nat
          /\ sale.left \in Nat /\ Proposed(r) \in Nat
      BY ReachTyped
    <2>2. /\ u = Origin(r) + (Proposed(r) - (sale.left - q))
          /\ t = Origin(r) + (Proposed(r) - sale.left)
      BY <1>1, <1>2 DEF Reached
    <2> QED  BY <1>2, <2>1, <2>2
  <1>4. LotStart(l) <= t /\ remaining[l] = LotEnd(l) - t
    BY <1>2, SellsWhereReached
  <1>5. /\ l \in InStock(r.asset) /\ l \notin T /\ l \in LotsOf(r.asset)
        /\ T \subseteq LotsOf(r.asset)
    BY SaleTyped DEF IsNext
  <1>6. \A x \in LotsOf(r.asset) : LotStart(x) \in Nat /\ LotEnd(x) \in Nat
    BY StockOnScale
  <1>7. u <= LotEnd(l) /\ t <= u
    BY <1>1, <1>3, <1>4, <1>5, <1>6
  <1>8. /\ Before(u, l) = Before(t, l) + (u - t)
        /\ \A x \in LotsOf(r.asset) : x # l => Before(u, x) = Before(t, x)
        /\ \A x \in LotsOf(r.asset) : Before(t, x) \in Int
    BY <1>3, <1>4, <1>5, <1>7, OthersKeep
  <1>9. ASSUME NEW x \in LotsOf(r.asset)
        PROVE  FieldSum("quantity", {p \in now.pieces : p.lot = x})
                 = Before(u, x) - Before(Origin(r), x)
    <2>1. FieldSum("quantity", {p \in sale.pieces : p.lot = x})
            = Before(t, x) - Before(Origin(r), x)
      BY <1>2 DEF SalePlaced
    <2>2. CASE x # l
      <3>1. {p \in now.pieces : p.lot = x} = {p \in sale.pieces : p.lot = x}
        BY <1>1, <1>2, <2>2
      <3> QED  BY <1>8, <2>1, <2>2, <3>1
    <2>3. CASE x = l
      <3>1. PICK S : S = {p \in sale.pieces : p.lot = x}
        OBVIOUS
      <3>2. {p \in now.pieces : p.lot = x} = S \cup {piece} /\ piece \notin S
        BY <1>1, <1>2, <2>3, <3>1
      <3>3. IsFiniteSet(S) /\ \A p \in S \cup {piece} : p.quantity \in Int
        <4>1. IsFiniteSet(sale.pieces) /\ sale.pieces \in SUBSET Pieces
          BY ReachTyped DEF SaleBooked
        <4>2. S \subseteq sale.pieces
          BY <3>1
        <4> QED  BY <4>1, <4>2, FS_Subset DEF Pieces
      <3>4. FieldSum("quantity", S \cup {piece}) = FieldSum("quantity", S) + q
        BY <1>1, <3>2, <3>3, FieldSumAdd
      <3>5. Before(Origin(r), x) \in Int /\ Before(t, x) \in Int
        <4>1. /\ LotStart(x) \in Nat /\ LotEnd(x) \in Nat /\ LotStart(x) < LotEnd(x)
              /\ Origin(r) \in Nat
          BY StockOnScale
        <4> QED  BY <1>8, <4>1, CoveredCases DEF Before
      <3>6. PICK a, b, c : a = Before(Origin(r), x) /\ b = Before(t, x) /\ c = Before(u, x)
        OBVIOUS
      <3>7. a \in Int /\ b \in Int /\ c = b + (u - t)
        BY <1>8, <2>3, <3>5, <3>6
      <3>8. FieldSum("quantity", S \cup {piece}) = (b - a) + q
        BY <2>1, <3>1, <3>4, <3>6
      <3>9. (b - a) + q = c - a
        BY <1>3, <3>7
      <3> QED  BY <3>2, <3>6, <3>8, <3>9
    <2> QED  BY <2>2, <2>3
  <1>10. \E y \in T \cup {l} : u <= LotEnd(y)
    BY <1>7
  <1>11. ASSUME now.left > 0
         PROVE  \A y \in T \cup {l} : LotEnd(y) <= u
    <2>1. q = remaining[l]
      <3>1. now.left = sale.left - q /\ sale.left \in Nat
        BY <1>1, <1>2, ReachTyped
      <3>2. q # sale.left
        BY <1>11, <3>1
      <3> QED  BY <1>1, <3>2
    <2>2. u = LotEnd(l)
      BY <1>3, <1>4, <1>5, <1>6, <2>1
    <2>3. \A y \in T : LotEnd(y) <= t
      BY <1>2 DEF SalePlaced
    <2> QED  BY <1>3, <1>5, <1>6, <1>7, <2>2, <2>3
  <1> QED  BY <1>2, <1>9, <1>10, <1>11 DEF SalePlaced

LEMMA SellCosts ==
    ASSUME NEW r, Selling(r), NEW sale \in SaleSoFar(r), sale.left > 0,
           NEW T, NEW l, IsNext(l, T, r), SaleBooked(sale, T, r), SaleCosted(sale, T, r)
    PROVE  SaleCosted(Sell(sale, l, r), T \cup {l}, r)
  <1> SUFFICES ASSUME Proposed(r) = Stock(r.asset)
               PROVE  /\ \A p \in Sell(sale, l, r).pieces : p.cost \in Int
                      /\ FieldSum("cost", Sell(sale, l, r).pieces) = SumOf(restCost, T \cup {l})
    BY DEF SaleCosted
  <1>1. PICK q \in Nat, piece \in Pieces :
              /\ q <= sale.left /\ q <= remaining[l]
              /\ q = sale.left \/ q = remaining[l]
              /\ q = remaining[l] => piece.cost = restCost[l]
              /\ piece \notin sale.pieces
              /\ Sell(sale, l, r).pieces = sale.pieces \cup {piece}
    BY SellsAPiece
  <1>2. /\ SumOf(remaining, T) \in Nat /\ remaining[l] \in Nat
        /\ SumOf(remaining, T \cup {l}) = remaining[l] + SumOf(remaining, T)
        /\ SumOf(remaining, T \cup {l}) <= Proposed(r)
        /\ SumOf(restCost, T \cup {l}) = restCost[l] + SumOf(restCost, T)
        /\ SumOf(restCost, T) \in Int /\ restCost[l] \in Int
    BY StockAdds DEF IsNext
  <1>3. q = remaining[l]
    <2>1. sale.left = Proposed(r) - SumOf(remaining, T)
      BY DEF SaleBooked
    <2>2. sale.left \in Nat /\ Proposed(r) \in Nat
      BY ReachTyped
    <2>3. remaining[l] <= sale.left
      BY <1>2, <2>1, <2>2
    <2>4. q <= remaining[l] /\ (q = sale.left \/ q = remaining[l])
      BY <1>1
    <2> QED  BY <1>2, <2>2, <2>3, <2>4
  <1>4. /\ IsFiniteSet(sale.pieces)
        /\ \A p \in sale.pieces : p.cost \in Int
        /\ FieldSum("cost", sale.pieces) = SumOf(restCost, T)
    BY DEF SaleBooked, SaleCosted
  <1>5. \A p \in sale.pieces \cup {piece} : p.cost \in Int
    BY <1>1, <1>2, <1>3, <1>4
  <1>6. FieldSum("cost", sale.pieces \cup {piece}) = FieldSum("cost", sale.pieces) + piece.cost
    BY <1>1, <1>4, <1>5, FieldSumAdd
  <1> QED  BY <1>1, <1>2, <1>3, <1>4, <1>5, <1>6

\* What the loop has reached after the lots T.
SaleSound(sale, T, r) == SaleBooked(sale, T, r) /\ SalePlaced(sale, T, r) /\ SaleCosted(sale, T, r)

LEMMA SellSound ==
    ASSUME NEW r, Selling(r), NEW sale \in SaleSoFar(r),
           NEW T, NEW l, IsNext(l, T, r), SaleSound(sale, T, r)
    PROVE  SaleSound(Sell(sale, l, r), T \cup {l}, r)
  <1>1. CASE sale.left > 0
    BY <1>1, SellBooks, SellPlaces, SellCosts DEF SaleSound
  <1>2. CASE sale.left = 0
    <2>1. Sell(sale, l, r) = sale
      BY <1>2 DEF Sell
    <2>2. /\ SumOf(remaining, T) \in Nat /\ remaining[l] \in Nat /\ remaining[l] > 0
          /\ SumOf(remaining, T \cup {l}) = remaining[l] + SumOf(remaining, T)
          /\ SumOf(remaining, T \cup {l}) <= Stock(r.asset)
          /\ Proposed(r) \in Nat
      BY StockAdds, SaleTyped DEF IsNext
    <2>3. sale.left = IF SumOf(remaining, T) <= Proposed(r)
                      THEN Proposed(r) - SumOf(remaining, T) ELSE 0
      BY DEF SaleSound, SaleBooked
    <2>4. SumOf(remaining, T \cup {l}) > Proposed(r)
      BY <1>2, <2>2, <2>3
    <2>5. SaleBooked(sale, T \cup {l}, r)
      <3>1. sale.left = IF SumOf(remaining, T \cup {l}) <= Proposed(r)
                        THEN Proposed(r) - SumOf(remaining, T \cup {l}) ELSE 0
        BY <1>2, <2>2, <2>4
      <3> QED  BY <3>1 DEF SaleSound, SaleBooked
    <2>6. SalePlaced(sale, T \cup {l}, r)
      BY <1>2 DEF SaleSound, SalePlaced
    <2>7. SaleCosted(sale, T \cup {l}, r)
      <3>1. Proposed(r) # Stock(r.asset)
        BY <2>2, <2>4
      <3> QED  BY <3>1 DEF SaleCosted
    <2> QED  BY <2>1, <2>5, <2>6, <2>7 DEF SaleSound
  <1> QED  BY <1>1, <1>2, ReachTyped

\* Before the first lot nothing is sold.
LEMMA UnsoldSound ==
    ASSUME NEW r, Selling(r)
    PROVE  SaleSound(Unsold(r), {}, r)
  <1>1. Proposed(r) \in Nat /\ 0 < Proposed(r) /\ Origin(r) \in Nat
    BY SaleTyped, StockOnScale
  <1>2. PICK sale : sale = Unsold(r)
    OBVIOUS
  <1>3. sale.left = Proposed(r) /\ sale.pieces = {} /\ sale.proceeds = 0 /\ sale.fee = 0
    BY <1>2 DEF Unsold
  <1>4. /\ SumOf(remaining, {}) = 0 /\ SumOf(restCost, {}) = 0
        /\ \A k : FieldSum(k, {}) = 0
    BY SumEmpty, FieldSumNone
  <1>5. SaleBooked(sale, {}, r)
    <2>1. IsFiniteSet(sale.pieces) /\ \A p \in sale.pieces : p.lot \in {}
      BY <1>3, FS_EmptySet
    <2>2. /\ FieldSum("proceeds", sale.pieces) = sale.proceeds
          /\ FieldSum("fee", sale.pieces) = sale.fee
      BY <1>3, <1>4
    <2>3. /\ sale.left # 0
          /\ sale.left = IF SumOf(remaining, {}) <= Proposed(r)
                         THEN Proposed(r) - SumOf(remaining, {}) ELSE 0
      BY <1>1, <1>3, <1>4
    <2> QED  BY <2>1, <2>2, <2>3 DEF SaleBooked
  <1>6. SalePlaced(sale, {}, r)
    <2>1. Reached(sale, r) = Origin(r)
      BY <1>1, <1>3 DEF Reached
    <2>2. ASSUME NEW l \in LotsOf(r.asset)
          PROVE  FieldSum("quantity", {p \in sale.pieces : p.lot = l})
                   = Before(Reached(sale, r), l) - Before(Origin(r), l)
      <3>1. {p \in sale.pieces : p.lot = l} = {}
        BY <1>3
      <3>2. Before(Origin(r), l) \in Int
        <4>1. LotStart(l) \in Nat /\ LotEnd(l) \in Nat /\ LotStart(l) < LotEnd(l)
          BY StockOnScale
        <4> QED  BY <1>1, <4>1, CoveredCases DEF Before
      <3>3. Before(Origin(r), l) - Before(Origin(r), l) = 0
        BY <3>2
      <3> QED  BY <1>4, <2>1, <3>1, <3>3
    <2> QED  BY <2>1, <2>2 DEF SalePlaced
  <1>7. SaleCosted(sale, {}, r)
    BY <1>3, <1>4 DEF SaleCosted
  <1> QED  BY <1>2, <1>5, <1>6, <1>7 DEF SaleSound

\* So after all lots the loop has sold what is proposed.
LEMMA LoopSound ==
    ASSUME NEW r, Selling(r), NEW loop \in [SUBSET InStock(r.asset) -> SaleSoFar(r)],
           loop[{}] = Unsold(r),
           \A T \in SUBSET InStock(r.asset) : T # {} =>
               loop[T] = Sell(loop[T \ {LastLot(T)}], LastLot(T), r)
    PROVE  SaleSound(loop[InStock(r.asset)], InStock(r.asset), r)
  <1>1. PICK S : S = InStock(r.asset)
    OBVIOUS
  <1>2. S \in SUBSET Lots /\ IsFiniteSet(S) /\ input \in Snapshots
    BY <1>1, SaleTyped, StockOnScale
  <1>3. \A T \in SUBSET S : IsFiniteSet(T) /\ Cardinality(T) \in Nat
    BY <1>2, FS_Subset, FS_CardinalityType
  <1> DEFINE N == {n \in Nat : \A T \in UpTo(S, n) : Front(T, r) => SaleSound(loop[T], T, r)}
  <1>4. 0 \in N
    <2>1. \A T \in UpTo(S, 0) : T = {}
      BY <1>3, FS_EmptySet DEF UpTo
    <2> QED  BY <2>1, UnsoldSound
  <1>5. ASSUME NEW n \in N
        PROVE  n + 1 \in N
    <2> SUFFICES ASSUME NEW T \in UpTo(S, n + 1), Front(T, r)
                 PROVE  SaleSound(loop[T], T, r)
      OBVIOUS
    <2>1. T \in SUBSET S /\ Cardinality(T) <= n + 1 /\ n \in Nat
      BY DEF UpTo
    <2>2. CASE T = {}
      BY <2>2, UnsoldSound
    <2>3. CASE T # {}
      <3>1. PICK l, R : l = LastLot(T) /\ R = T \ {l}
        OBVIOUS
      <3>2. l \in T /\ \A x \in R : Precedes(input.lots, x, l)
        BY <1>2, <2>1, <2>3, <3>1, LastIsLast
      <3>3. R \in UpTo(S, n)
        <4>1. Cardinality(R) = Cardinality(T) - 1 /\ Cardinality(T) \in Nat
          BY <1>3, <2>1, <3>1, <3>2, FS_RemoveElement
        <4> QED  BY <2>1, <3>1, <4>1 DEF UpTo
      <3>4. \A x, y \in Lots : Precedes(input.lots, x, y) => ~Precedes(input.lots, y, x) /\ x # y
        BY <1>2, LotOrder
      <3>5. Front(R, r)
        <4> SUFFICES ASSUME NEW y \in R, NEW z \in S, Precedes(input.lots, z, y) PROVE z \in R
          BY <1>1, <2>1, <3>1 DEF Front
        <4>1. z \in T
          BY <1>1, <3>1 DEF Front
        <4>2. z # l
          BY <1>2, <2>1, <3>1, <3>2, <3>4
        <4> QED  BY <3>1, <4>1, <4>2
      <3>6. IsNext(l, R, r)
        <4>1. \A z \in S : Precedes(input.lots, z, l) => z \in R
          BY <1>1, <1>2, <2>1, <3>1, <3>2, <3>4 DEF Front
        <4> QED  BY <1>1, <2>1, <3>1, <3>2, <4>1 DEF IsNext
      <3>7. SaleSound(loop[R], R, r)
        BY <3>3, <3>5
      <3>8. loop[R] \in SaleSoFar(r) /\ loop[T] = Sell(loop[R], l, r) /\ T = R \cup {l}
        BY <1>1, <2>1, <2>3, <3>1, <3>2
      <3> QED  BY <3>6, <3>7, <3>8, SellSound
    <2> QED  BY <2>2, <2>3
  <1> HIDE DEF N
  <1>6. N = Nat
    <2>1. N \in SUBSET Nat
      BY DEF N
    <2> QED  BY <1>4, <1>5, <2>1, NaturalsBySteps
  <1>7. S \in UpTo(S, Cardinality(S)) /\ Cardinality(S) \in N /\ Front(S, r)
    BY <1>1, <1>3, <1>6 DEF UpTo, Front
  <1> QED  BY <1>1, <1>7 DEF N

\* What TakenAsByFifo says, with the fields named.
SoldAsByFifo(r, pieces) ==
    /\ \A l \in LotsOf(r.asset) :
          FieldSum("quantity", {p \in pieces : p.lot = l})
            = Overlap(Origin(r), Origin(r) + Proposed(r),
                      LotStart(l), LotStart(l) + input.lots[l].quantity)
    /\ FieldSum("proceeds", pieces) = Gross(r)
    /\ r.fee # None => FieldSum("fee", pieces) = r.fee
    /\ Proposed(r) = Stock(r.asset) =>
          FieldSum("cost", pieces) = SumOf(restCost, InStock(r.asset))

LEMMA SalesAreSold == \A r, pieces : TakenAsByFifo(r, pieces) <=> SoldAsByFifo(r, pieces)
  BY DEF TakenAsByFifo, SoldAsByFifo, Origin, PieceQuantity, FieldSum, SumOf, SumOver,
         MapThenSumSet, MapThenFoldSet

LEMMA ProposalSold ==
    ASSUME NEW r, Selling(r)
    PROVE  SoldAsByFifo(r, Proposal(r))
  <1>1. PICK loop \in [SUBSET InStock(r.asset) -> SaleSoFar(r)] :
              /\ loop[{}] = Unsold(r)
              /\ \A T \in SUBSET InStock(r.asset) : T # {} =>
                    loop[T] = Sell(loop[T \ {LastLot(T)}], LastLot(T), r)
              /\ Proposal(r) = loop[InStock(r.asset)].pieces
    BY ProposalIsLoop
  <1>2. PICK sale, S : sale = loop[InStock(r.asset)] /\ S = InStock(r.asset)
    OBVIOUS
  <1>3. sale \in SaleSoFar(r)
    BY <1>1, <1>2
  <1>4. SaleBooked(sale, S, r) /\ SalePlaced(sale, S, r) /\ SaleCosted(sale, S, r)
    BY <1>1, <1>2, LoopSound DEF SaleSound
  <1>5. Proposal(r) = sale.pieces
    BY <1>1, <1>2
  <1>6. Proposed(r) \in Nat /\ Stock(r.asset) \in Nat /\ Proposed(r) <= Stock(r.asset)
        /\ Stock(r.asset) = SumOf(remaining, S)
    BY <1>2, SaleTyped, StockIsSum
  <1>7. sale.left = 0
    BY <1>4, <1>6 DEF SaleBooked
  <1>8. Reached(sale, r) = Origin(r) + Proposed(r)
    BY <1>6, <1>7 DEF Reached
  <1>9. ASSUME NEW l \in LotsOf(r.asset)
        PROVE  FieldSum("quantity", {p \in sale.pieces : p.lot = l})
                 = Overlap(Origin(r), Origin(r) + Proposed(r),
                           LotStart(l), LotStart(l) + input.lots[l].quantity)
    <2>1. PICK from, to, start, end : /\ from = Origin(r) /\ to = Origin(r) + Proposed(r)
                                      /\ start = LotStart(l) /\ end = LotEnd(l)
      OBVIOUS
    <2>2. from \in Nat /\ to \in Nat /\ from <= to /\ start \in Nat /\ end \in Nat /\ start <= end
      BY <1>6, <2>1, StockOnScale
    <2>3. Overlap(from, to, start, end) = Covered(to, start, end) - Covered(from, start, end)
      BY <2>2, OverlapIsCovered
    <2>4. FieldSum("quantity", {p \in sale.pieces : p.lot = l})
            = Covered(to, start, end) - Covered(from, start, end)
      BY <1>4, <1>8, <2>1 DEF SalePlaced, Before
    <2> QED  BY <2>1, <2>3, <2>4 DEF LotEnd
  <1>10. FieldSum("proceeds", sale.pieces) = Gross(r)
         /\ (r.fee # None => FieldSum("fee", sale.pieces) = r.fee)
    BY <1>4, <1>7 DEF SaleBooked
  <1>11. Proposed(r) = Stock(r.asset) => FieldSum("cost", sale.pieces) = SumOf(restCost, S)
    BY <1>4 DEF SaleCosted
  <1> QED  BY <1>2, <1>5, <1>9, <1>10, <1>11 DEF SoldAsByFifo

\* Nothing is proposed that the exchange does not have available.
LEMMA ProposalAvailable ==
    ASSUME NEW r, Selling(r), Bounded(r)
    PROVE  Proposed(r) <= Spot(r.balances)
  <1>1. WellFormed(r) /\ r.balances \notin {NotAsked, NoBalance}
    BY SellableAssumption DEF Selling, Proposable, Permitted, Bounded
  <1>2. PICK rows : rows = {b \in r.balances : b.spot}
    OBVIOUS
  <1>3. IsFiniteSet(rows) /\ \A b \in rows : b.available \in Int
    <2>1. /\ IsFiniteSet(r.balances)
          /\ \A b \in r.balances : {b.balance, b.available} \subseteq Int
      BY <1>1 DEF WellFormed
    <2>2. rows \subseteq r.balances
      BY <1>2
    <2> QED  BY <2>1, <2>2, FS_Subset
  <1>4. Spot(r.balances) = FieldSum("available", rows)
    BY <1>2 DEF Spot, FieldSum, SumOver, MapThenSumSet, MapThenFoldSet
  <1>5. Spot(r.balances) \in Int
    <2> DEFINE f == [b \in rows |-> b.available]
    <2>1. FieldSum("available", rows) = SumOf(f, rows)
      BY <1>3, FieldSumIsSum
    <2>2. \A b \in rows : f[b] \in Int
      BY <1>3
    <2> HIDE DEF f
    <2> QED  BY <1>3, <1>4, <2>1, <2>2, SumType
  <1>6. Stock(r.asset) \in Nat
    BY SaleTyped
  <1>7. CASE r.mode = "all_available_inventory"
    <2>1. Proposed(r) = Smaller(Stock(r.asset), Spot(r.balances))
      BY <1>7 DEF Proposed
    <2> QED  BY <1>5, <1>6, <2>1 DEF Smaller
  <1>8. CASE r.mode # "all_available_inventory"
    BY <1>8 DEF Selling, Proposable, Feasible
  <1> QED  BY <1>7, <1>8

\* Whatever has happened before, a simulated sale takes exactly what FIFO would give the next
\* disposal, its amounts add up to the totals shown, and the exchange has the quantity.
THEOREM ProposalsFollowFifo == Spec => []ProposalsMatchFifo
  <1>1. FifoInv /\ PlacesInv /\ IdleIsDone => ProposalsMatchFifo
    <2> SUFFICES ASSUME FifoInv, PlacesInv, IdleIsDone, SnapshotTaken,
                        NEW r \in Sellable, Proposable(r)
                 PROVE  /\ \E pieces \in {Proposal(r)} : TakenAsByFifo(r, pieces)
                        /\ Bounded(r) => Proposed(r) <= Spot(r.balances)
      BY DEF ProposalsMatchFifo
    <2>1. Selling(r)
      BY DEF Selling
    <2>2. TakenAsByFifo(r, Proposal(r))
      BY <2>1, ProposalSold, SalesAreSold
    <2>3. Bounded(r) => Proposed(r) <= Spot(r.balances)
      BY <2>1, ProposalAvailable
    <2> QED  BY <2>2, <2>3
  <1> QED  BY <1>1, IdleInvariant, FifoInductive, InitBooks, BooksStep, InitPlaces, PlacesStep,
              PTL DEF Spec
=============================================================================
