------------------------- MODULE KrakenReadingProofs -------------------------
(***************************************************************************)
(* Proofs about the two halves of KrakenPrivateClient.  LedgerPagination,  *)
(* for any ledger, order and page size: what a ready read and two agreeing *)
(* reads show.  KrakenPrivateClient, for any number of clients: the nonces *)
(* of one process, and the waits Kraken asks for.                          *)
(***************************************************************************)
EXTENDS LedgerPagination, KrakenPrivateClient, FiniteSetTheorems, TLAPS

USE PagingAssumption, ClientAssumption

-----------------------------------------------------------------------------
(* The pages of a window: types.                                           *)

LEMMA LedgersAreFinite ==
    ASSUME NEW S \in SUBSET LedgerIds
    PROVE  IsFiniteSet(S) /\ Cardinality(S) \in Nat
  BY FS_Subset, FS_CardinalityType

PagesLeft == pc = "paging" => pages < MaxPages

LEMMA PagingTypeInit == Init => TypeOK /\ PagesLeft
  <1>1. NoVersions \in [LedgerIds -> Nat]
    BY DEF NoVersions
  <1>2. NoResult \in Results
    BY <1>1 DEF NoResult, Results
  <1>3. MaxPages \in Nat /\ 0 < MaxPages /\ 0 \in 0 .. MaxPages
    OBVIOUS
  <1>4. ASSUME Init
        PROVE  /\ ledger \subseteq LedgerIds /\ version \in [LedgerIds -> Nat]
               /\ value \in [LedgerIds -> Nat] /\ first \in Results
               /\ removals = 0 /\ amends = 0 /\ pc = "paging" /\ round = 1
               /\ offset = 0 /\ pages = 0 /\ total = 0 /\ ~complete /\ ~malformed
               /\ complete \in BOOLEAN /\ malformed \in BOOLEAN
               /\ found = {} /\ conflicts = {} /\ last = {} /\ outcome = "none"
    BY <1>1, <1>2, <1>4 DEF Init
  <1> QED  BY <1>3, <1>4 DEF TypeOK, PagesLeft

LEMMA PagingTypeNext ==
    ASSUME TypeOK, PagesLeft, [Next]_vars
    PROVE  TypeOK' /\ PagesLeft'
  <1>1. ASSUME NEW i \in LedgerIds, Insert(i) \/ Remove(i) \/ Amend(i)
        PROVE  TypeOK' /\ PagesLeft'
    BY <1>1 DEF Insert, Remove, Amend, TypeOK, PagesLeft, paging
  <1>2. ASSUME NEW size \in 0 .. PageSize, ReadPage(size)
        PROVE  TypeOK' /\ PagesLeft'
    <2> DEFINE page == Page(size)
    <2>1. page \subseteq LedgerIds
      BY DEF Page, TypeOK
    <2>2. Cardinality(page) \in Nat /\ Cardinality(ledger) \in Nat
      BY <2>1, LedgersAreFinite DEF TypeOK
    <2>3. /\ pages' = pages + 1 /\ pages < MaxPages
          /\ total' \in Nat
          /\ last' \subseteq LedgerIds
          /\ malformed' \in BOOLEAN
          /\ conflicts' \subseteq LedgerIds
          /\ value' \in [LedgerIds -> Nat]
          /\ found' \subseteq LedgerIds
      BY <1>2, <2>1, <2>2 DEF ReadPage, TypeOK, PagesLeft
    <2>4. complete' \in BOOLEAN
      BY <1>2, <2>2 DEF ReadPage, Complete
    <2>5. /\ offset' \in Nat /\ pc' \in {"paging", "judging"}
          /\ pc' = "paging" => pages + 1 # MaxPages
      BY <1>2, <2>2 DEF ReadPage, Stops, TypeOK
    <2> QED  BY <1>2, <2>3, <2>4, <2>5 DEF ReadPage, TypeOK, PagesLeft, world
  <1>3. CASE Judge
    <2>1. NoVersions \in [LedgerIds -> Nat]
      BY DEF NoVersions
    <2>2. [ids |-> Records, value |-> value, last |-> last, version |-> version] \in Results
      BY DEF Records, Results, TypeOK
    <2>3. CASE pc' = "done" /\ UNCHANGED <<round, paging, first>>
      <3>1. outcome' \in {"none", "accepted", "not_ready", "changed"}
        BY <1>3 DEF Judge, TypeOK
      <3> QED  BY <1>3, <2>3, <3>1 DEF Judge, TypeOK, PagesLeft, world, paging
    <2>4. CASE pc' = "paging"
      <3>1. /\ first' \in Results /\ value' \in [LedgerIds -> Nat]
            /\ round' = 2 /\ offset' = 0 /\ pages' = 0 /\ total' = 0
            /\ complete' = FALSE /\ malformed' = FALSE
            /\ found' = {} /\ conflicts' = {} /\ last' = {}
            /\ UNCHANGED <<world, outcome>>
        BY <1>3, <2>1, <2>2, <2>4 DEF Judge
      <3>2. MaxPages \in Nat /\ 0 < MaxPages /\ 0 \in 0 .. MaxPages
        OBVIOUS
      <3> QED  BY <2>4, <3>1, <3>2 DEF TypeOK, PagesLeft, world
    <2> QED  BY <1>3, <2>3, <2>4 DEF Judge
  <1>4. CASE UNCHANGED vars
    BY <1>4 DEF vars, world, paging, TypeOK, PagesLeft
  <1> QED  BY <1>1, <1>2, <1>3, <1>4 DEF Next

LEMMA PagingTypes == Spec => [](TypeOK /\ PagesLeft)
  <1>1. TypeOK /\ PagesLeft /\ [Next]_vars => (TypeOK /\ PagesLeft)'
    BY PagingTypeNext
  <1> QED  BY PagingTypeInit, <1>1, PTL DEF Spec

\* Offsets, counts, results and versions of a read are always of their types,
\* and no read asks for more than max_pages pages.
THEOREM PagingTypeCorrect == Spec => []TypeOK
  BY PagingTypes, PTL

-----------------------------------------------------------------------------
(* The pages of a window: what a read has found.                           *)

\* What is found was listed, and is listed still if nothing is taken back.
FoundStillListed == found \subseteq ledger /\ found \subseteq last

CountIsOfLast == total = Cardinality(last)

UndisturbedSoFar == removals = 0 => FoundStillListed

\* The first read was exact, or something was taken back before it ended; what
\* is found since is then all listed unless something is taken back again.
FirstExactOrDisturbed ==
    round = 2 =>
        \/ first.ids = first.last \cap InWindow
        \/ removals >= 1 /\ (removals = 1 => FoundStillListed)

\* A kept version is one the entry had: the first read's at its end or earlier,
\* the second read's after the first had ended.
VersionsInOrder ==
    /\ \A i \in LedgerIds : value[i] <= version[i]
    /\ round = 2 =>
          /\ \A i \in LedgerIds : /\ first.value[i] <= first.version[i]
                                  /\ first.version[i] <= version[i]
          /\ \A i \in found : first.version[i] <= value[i]

AcceptedIsConfirmed ==
    outcome = "accepted" => pc = "done" /\ round = 2 /\ Ready /\ SameAsFirst

ReadInv ==
    /\ CountIsOfLast
    /\ UndisturbedSoFar
    /\ FirstExactOrDisturbed
    /\ VersionsInOrder
    /\ AcceptedIsConfirmed

\* A ready answer that contains nothing the provider no longer lists is all it
\* listed: the counts agree.
LEMMA ReadyIsExact ==
    ASSUME TypeOK, CountIsOfLast, Ready, found \subseteq last
    PROVE  found = last
  <1>1. IsFiniteSet(last)
    BY LedgersAreFinite DEF TypeOK
  <1>2. Cardinality(last) = Cardinality(found)
    BY DEF Ready, CountIsOfLast
  <1> QED  BY <1>1, <1>2, FS_Subset

LEMMA ReadInit == Init => ReadInv
  <1>1. Cardinality({}) = 0
    BY FS_EmptySet
  <1> QED  BY <1>1 DEF Init, ReadInv, CountIsOfLast, UndisturbedSoFar, FirstExactOrDisturbed,
                      VersionsInOrder, AcceptedIsConfirmed, FoundStillListed, NoVersions

LEMMA ReadProvider ==
    ASSUME TypeOK, TypeOK', ReadInv, NEW i \in LedgerIds, Insert(i) \/ Remove(i) \/ Amend(i)
    PROVE  ReadInv'
  <1>0. UNCHANGED <<pc, round, paging, first, outcome>>
    BY DEF Insert, Remove, Amend
  <1>1. CountIsOfLast'
    BY <1>0 DEF ReadInv, CountIsOfLast, paging
  <1>2. /\ removals' \in {removals, removals + 1} /\ removals \in Nat
        /\ removals' = removals => ledger \subseteq ledger'
    BY DEF Insert, Remove, Amend, TypeOK
  <1>3. removals' = removals /\ FoundStillListed => FoundStillListed'
    BY <1>0, <1>2 DEF FoundStillListed, paging
  <1>4. UndisturbedSoFar'
    BY <1>2, <1>3 DEF ReadInv, UndisturbedSoFar
  <1>5. FirstExactOrDisturbed'
    BY <1>0, <1>2, <1>3 DEF ReadInv, UndisturbedSoFar, FirstExactOrDisturbed
  <1>6. VersionsInOrder'
    <2>1. \A j \in LedgerIds : version[j] <= version'[j]
      BY DEF Insert, Remove, Amend, TypeOK
    <2>2. \A j \in LedgerIds : /\ value[j] \in Nat /\ version[j] \in Nat /\ version'[j] \in Nat
                               /\ first.version[j] \in Nat
      BY DEF TypeOK, Results
    <2> QED  BY <1>0, <2>1, <2>2 DEF ReadInv, VersionsInOrder, paging
  <1>7. AcceptedIsConfirmed'
    BY <1>0 DEF ReadInv, AcceptedIsConfirmed, Ready, SameAsFirst, Records, paging
  <1> QED  BY <1>1, <1>4, <1>5, <1>6, <1>7 DEF ReadInv

LEMMA ReadOnePage ==
    ASSUME TypeOK, TypeOK', ReadInv, NEW size \in 0 .. PageSize, ReadPage(size)
    PROVE  ReadInv'
  <1> DEFINE page == Page(size)
  <1>0. /\ pc = "paging" /\ UNCHANGED <<world, round, first, outcome>>
        /\ page \subseteq ledger /\ page \subseteq LedgerIds
    BY DEF ReadPage, Page, TypeOK
  <1>1. CountIsOfLast'
    BY DEF ReadPage, CountIsOfLast
  <1>2. FoundStillListed => FoundStillListed'
    BY <1>0 DEF ReadPage, FoundStillListed, world
  <1>3. UndisturbedSoFar' /\ FirstExactOrDisturbed'
    BY <1>0, <1>2 DEF ReadInv, UndisturbedSoFar, FirstExactOrDisturbed, world
  <1>4. VersionsInOrder'
    <2>1. \A i \in LedgerIds : value'[i] = IF i \in (page \ Unparsable) \ found
                                           THEN version[i] ELSE value[i]
      BY DEF ReadPage
    <2>2. found' = found \cup (page \ Unparsable) /\ found \subseteq LedgerIds
      BY DEF ReadPage, TypeOK
    <2>3. \A i \in LedgerIds : value[i] \in Nat /\ version[i] \in Nat
      BY DEF TypeOK
    <2> HIDE DEF page
    <2>4. \A i \in LedgerIds : value'[i] <= version'[i]
      BY <1>0, <2>1, <2>3 DEF ReadInv, VersionsInOrder, world
    <2>5. round = 2 => \A i \in found' : first.version[i] <= value'[i]
      BY <1>0, <2>1, <2>2, <2>3 DEF ReadInv, VersionsInOrder
    <2> QED  BY <1>0, <2>4, <2>5 DEF ReadInv, VersionsInOrder, world
  <1>5. AcceptedIsConfirmed'
    BY <1>0 DEF ReadInv, AcceptedIsConfirmed
  <1> QED  BY <1>1, <1>3, <1>4, <1>5 DEF ReadInv

LEMMA ReadJudged ==
    ASSUME TypeOK, TypeOK', ReadInv, Judge
    PROVE  ReadInv'
  <1>0. pc = "judging" /\ UNCHANGED world
    BY DEF Judge
  <1>1. ASSUME pc' = "done", UNCHANGED <<round, paging, first>>,
               outcome' # "accepted" \/ (round = 2 /\ Ready /\ SameAsFirst)
        PROVE  ReadInv'
    <2>1. CountIsOfLast' /\ UndisturbedSoFar' /\ FirstExactOrDisturbed' /\ VersionsInOrder'
      BY <1>0, <1>1 DEF ReadInv, CountIsOfLast, UndisturbedSoFar, FirstExactOrDisturbed,
                        VersionsInOrder, FoundStillListed, world, paging
    <2>2. AcceptedIsConfirmed'
      BY <1>1 DEF AcceptedIsConfirmed, Ready, SameAsFirst, Records, paging
    <2> QED  BY <2>1, <2>2 DEF ReadInv
  <1>2. CASE ~Ready
    BY <1>1, <1>2 DEF Judge
  <1>3. CASE Ready /\ round = 2
    BY <1>1, <1>3 DEF Judge
  <1>4. CASE Ready /\ round = 1
    <2>1. /\ first' = [ids |-> Records, value |-> value, last |-> last, version |-> version]
          /\ round' = 2 /\ found' = {} /\ last' = {} /\ total' = 0
          /\ value' = NoVersions /\ pc' = "paging"
          /\ UNCHANGED outcome
      BY <1>4 DEF Judge
    <2>2. /\ first'.ids = Records /\ first'.last = last
          /\ first'.value = value /\ first'.version = version
      BY <2>1
    <2>3. CountIsOfLast'
      BY <2>1, FS_EmptySet DEF CountIsOfLast
    <2>4. FoundStillListed'
      BY <2>1 DEF FoundStillListed
    <2>5. FirstExactOrDisturbed'
      <3>1. CASE removals = 0
        <4>1. found = last
          BY <1>4, <3>1, ReadyIsExact DEF ReadInv, UndisturbedSoFar, FoundStillListed
        <4> QED  BY <2>2, <4>1 DEF FirstExactOrDisturbed, Records
      <3>2. CASE removals # 0
        BY <1>0, <2>4, <3>2 DEF FirstExactOrDisturbed, world, TypeOK
      <3> QED  BY <3>1, <3>2
    <2>6. VersionsInOrder'
      <3>1. \A i \in LedgerIds : value[i] <= version[i] /\ version[i] \in Nat
        BY DEF ReadInv, VersionsInOrder, TypeOK
      <3> QED  BY <1>0, <2>1, <2>2, <3>1 DEF VersionsInOrder, NoVersions, world
    <2>7. AcceptedIsConfirmed'
      BY <1>0, <2>1 DEF ReadInv, AcceptedIsConfirmed
    <2> QED  BY <2>3, <2>4, <2>5, <2>6, <2>7 DEF ReadInv, UndisturbedSoFar
  <1> QED  BY <1>2, <1>3, <1>4 DEF TypeOK

LEMMA ReadAlways == Spec => []ReadInv
  <1>1. ASSUME TypeOK, TypeOK', ReadInv, [Next]_vars
        PROVE  ReadInv'
    <2>1. CASE UNCHANGED vars
      BY <1>1, <2>1 DEF vars, world, paging, ReadInv, CountIsOfLast, UndisturbedSoFar,
                        FirstExactOrDisturbed, VersionsInOrder, AcceptedIsConfirmed,
                        FoundStillListed, Ready, SameAsFirst, Records
    <2> QED  BY <1>1, <2>1, ReadProvider, ReadOnePage, ReadJudged DEF Next
  <1> QED  BY <1>1, ReadInit, PagingTypeCorrect, PTL DEF Spec

\* A read that is ready found exactly what the provider listed at its last page,
\* however entries are inserted between the pages (ready_for_import).
THEOREM SingleReadCorrect == Spec => []SingleReadExact
  <1>1. TypeOK /\ ReadInv => SingleReadExact
    BY ReadyIsExact DEF ReadInv, UndisturbedSoFar, FoundStillListed, SingleReadExact
  <1> QED  BY <1>1, PagingTypeCorrect, ReadAlways, PTL

\* Two reads that agree show what the provider listed at one moment, when one
\* of them ended, as long as it has taken back no more than one entry: of two
\* reads at most one can have been disturbed (run_sync, _validate_preview).
THEOREM ConfirmedReadCorrect == Spec => [](removals <= 1 => ConfirmedReadIsASnapshot)
  <1>1. ASSUME TypeOK, ReadInv, removals <= 1, outcome = "accepted"
        PROVE  Records \in {first.last \cap InWindow, last \cap InWindow}
    <2>1. round = 2 /\ Ready /\ SameAsFirst
      BY <1>1 DEF ReadInv, AcceptedIsConfirmed
    <2>2. CASE first.ids = first.last \cap InWindow
      BY <2>1, <2>2 DEF SameAsFirst
    <2>3. CASE first.ids # first.last \cap InWindow
      <3>1. found \subseteq last
        BY <1>1, <2>1, <2>3 DEF ReadInv, FirstExactOrDisturbed, FoundStillListed, TypeOK
      <3> QED  BY <1>1, <2>1, <3>1, ReadyIsExact DEF ReadInv, Records
    <2> QED  BY <2>2, <2>3
  <1>2. TypeOK /\ ReadInv => (removals <= 1 => ConfirmedReadIsASnapshot)
    BY <1>1 DEF ConfirmedReadIsASnapshot
  <1> QED  BY <1>2, PagingTypeCorrect, ReadAlways, PTL

\* What two agreeing reads keep of an entry is what the provider said of it when
\* the first read had ended: neither an older version nor a newer one
\* (the canonical fingerprints run_sync compares).
THEOREM ConfirmedContentsCorrect == Spec => []ConfirmedContentsCurrent
  <1>1. ASSUME TypeOK, ReadInv, outcome = "accepted", NEW i \in Records
        PROVE  value[i] = first.version[i]
    <2>1. round = 2 /\ SameAsFirst
      BY <1>1 DEF ReadInv, AcceptedIsConfirmed
    <2>2. i \in found /\ i \in LedgerIds
      BY <1>1 DEF Records, TypeOK
    <2>3. /\ value[i] = first.value[i]
          /\ first.value[i] <= first.version[i] /\ first.version[i] <= value[i]
      BY <1>1, <2>1, <2>2 DEF ReadInv, SameAsFirst, VersionsInOrder
    <2>4. value[i] \in Nat /\ first.version[i] \in Nat
      BY <1>1, <2>2 DEF TypeOK, Results
    <2> QED  BY <2>3, <2>4
  <1>2. TypeOK /\ ReadInv => ConfirmedContentsCurrent
    BY <1>1 DEF ConfirmedContentsCurrent
  <1> QED  BY <1>2, PagingTypeCorrect, ReadAlways, PTL

-----------------------------------------------------------------------------
(* The calls of all clients: types.                                        *)

LEMMA LargerOfTwo ==
    ASSUME NEW a \in Int, NEW b \in Int
    PROVE  Max({a, b}) = IF a >= b THEN a ELSE b
  BY DEF Max

LEMMA SmallerOfTwo ==
    ASSUME NEW a \in Int, NEW b \in Int
    PROVE  Min({a, b}) = IF a <= b THEN a ELSE b
  BY DEF Min

\* As many subsets as a set of that size has.
LEMMA PowersOfTwo ==
    ASSUME NEW n \in Nat
    PROVE  2 ^ n \in Nat
  <1>1. IsFiniteSet(1 .. n) /\ Cardinality(1 .. n) = n
    BY FS_Interval
  <1>2. IsFiniteSet(SUBSET (1 .. n)) /\ Cardinality(SUBSET (1 .. n)) = 2 ^ n
    BY <1>1, FS_SUBSET
  <1> QED  BY <1>2, FS_CardinalityType

Activities == {"idle", "ready", "pacing", "waiting", "backing_off", "failed"}
Answers == {"none", "result", "rate_limited", "refused", "invalid_nonce", "lost", "broken"}
Request == [by : Clients, nonce : Nat]

ClientTypeOK ==
    /\ lastNonce \in Nat
    /\ doing \in [Clients -> Activities]
    /\ path \in [Clients -> Paths]
    /\ attempt \in [Clients -> Nat]
    /\ sleep \in [Clients -> Nat]
    /\ since \in [Clients -> 0 .. LedgerInterval]
    /\ sent \in [Clients -> Nat]
    /\ answer \in [Clients -> Answers]
    /\ after \in [Clients -> Nat]
    /\ asked \in [Clients -> Nat]
    /\ transit \subseteq Request
    /\ high = [by |-> "nobody", nonce |-> 0] \/ high \in Request

LEMMA NonceGrows ==
    ASSUME ClientTypeOK, NEW reading \in WallClock
    PROVE  NextNonce(reading) \in Nat /\ NextNonce(reading) > lastNonce
  <1>1. reading \in Int /\ lastNonce + 1 \in Int
    BY DEF ClientTypeOK
  <1>2. NextNonce(reading) = IF reading >= lastNonce + 1 THEN reading ELSE lastNonce + 1
    BY <1>1, LargerOfTwo DEF NextNonce
  <1> QED  BY <1>2 DEF ClientTypeOK

LEMMA DelayLongEnough ==
    ASSUME ClientTypeOK, NEW c \in Clients
    PROVE  /\ Delay(c) \in Nat
           /\ answer[c] = "rate_limited" => Delay(c) >= after[c]
  <1>1. attempt[c] \in Nat /\ after[c] \in Nat
    BY DEF ClientTypeOK
  <1>2. 2 ^ attempt[c] \in Nat
    BY <1>1, PowersOfTwo
  <1> DEFINE p == 2 ^ attempt[c]
  <1> HIDE DEF p
  <1>3. p \in Nat /\ RateLimitBase * p \in Nat
    BY <1>2 DEF p
  <1>4. Delay(c) = IF answer[c] = "rate_limited" THEN Max({RateLimitBase * p, after[c]})
                                                 ELSE Min({p, 4})
    BY DEF Delay, p
  <1>5. /\ Max({RateLimitBase * p, after[c]})
               = IF RateLimitBase * p >= after[c] THEN RateLimitBase * p ELSE after[c]
        /\ Min({p, 4}) = IF p <= 4 THEN p ELSE 4
    BY <1>1, <1>3, LargerOfTwo, SmallerOfTwo
  <1> QED  BY <1>1, <1>3, <1>4, <1>5

LEMMA OneTickLess ==
    ASSUME NEW n \in Nat
    PROVE  Less(n) \in Nat /\ Less(n) = IF n = 0 THEN 0 ELSE n - 1
  BY LargerOfTwo DEF Less

LEMMA ClientTypeInit == ClientInit => ClientTypeOK
  BY DEF ClientInit, ClientTypeOK, Activities, Answers, Paths

LEMMA ClientTypeSend ==
    ASSUME ClientTypeOK, NEW c \in Clients, Send(c)
    PROVE  ClientTypeOK'
  <1>1. PICK reading \in WallClock :
            /\ lastNonce' = NextNonce(reading)
            /\ sent' = [sent EXCEPT ![c] = NextNonce(reading)]
            /\ transit' = transit \cup {[by |-> c, nonce |-> NextNonce(reading)]}
    BY DEF Send
  <1>2. NextNonce(reading) \in Nat
    BY NonceGrows
  <1>3. lastNonce' \in Nat /\ sent' \in [Clients -> Nat] /\ transit' \subseteq Request
    BY <1>1, <1>2 DEF ClientTypeOK, Request
  <1> QED  BY <1>3 DEF Send, ClientTypeOK, Activities

LEMMA ClientTypeReceive ==
    ASSUME ClientTypeOK, NEW c \in Clients, Receive(c)
    PROVE  ClientTypeOK'
  <1>1. Delay(c) \in Nat
    BY DelayLongEnough
  <1>2. sleep' \in [Clients -> Nat] /\ attempt' \in [Clients -> Nat]
        /\ doing' \in [Clients -> Activities]
    BY <1>1 DEF Receive, ClientTypeOK, Activities
  <1> QED  BY <1>2 DEF Receive, ClientTypeOK, Answers

LEMMA ClientTypeArrive ==
    ASSUME ClientTypeOK, NEW q \in transit, Arrive(q)
    PROVE  ClientTypeOK'
  <1>1. q \in Request /\ q.by \in Clients
    BY DEF ClientTypeOK, Request
  <1>2. ASSUME NEW a \in Answers, NEW wait \in Nat, Replies(q, a, wait)
        PROVE  /\ answer' \in [Clients -> Answers] /\ after' \in [Clients -> Nat]
               /\ asked' \in [Clients -> Nat]
    BY <1>1, <1>2 DEF Replies, ClientTypeOK
  <1>3. /\ answer' \in [Clients -> Answers] /\ after' \in [Clients -> Nat]
        /\ asked' \in [Clients -> Nat]
    BY <1>2 DEF Arrive, Accept, Refuse, Answers
  <1>4. high' = high \/ high' \in Request
    BY <1>1 DEF Arrive, Accept, Refuse
  <1> QED  BY <1>3, <1>4 DEF Arrive, ClientTypeOK, client

LEMMA ClientTypeTick ==
    ASSUME ClientTypeOK, Tick
    PROVE  ClientTypeOK'
  <1>1. ASSUME NEW c \in Clients
        PROVE  /\ Less(sleep[c]) \in Nat /\ Less(asked[c]) \in Nat
               /\ Min({since[c] + 1, LedgerInterval}) \in 0 .. LedgerInterval
    <2>1. since[c] \in 0 .. LedgerInterval /\ sleep[c] \in Nat /\ asked[c] \in Nat
      BY DEF ClientTypeOK
    <2>2. since[c] + 1 \in Int /\ LedgerInterval \in Int
      BY <2>1, ClientAssumption DEF ClientAssumption
    <2>3. Min({since[c] + 1, LedgerInterval})
             = IF since[c] + 1 <= LedgerInterval THEN since[c] + 1 ELSE LedgerInterval
      BY <2>2, SmallerOfTwo
    <2> QED  BY <2>1, <2>2, <2>3, OneTickLess, ClientAssumption
  <1> QED  BY <1>1 DEF Tick, ClientTypeOK, wire

LEMMA ClientTypeNext ==
    ASSUME ClientTypeOK, [ClientNext]_clientVars
    PROVE  ClientTypeOK'
  <1>1. ASSUME NEW c \in Clients, NEW p \in Paths, Call(c, p)
        PROVE  ClientTypeOK'
    BY <1>1 DEF Call, ClientTypeOK, Activities, wire
  <1>2. ASSUME NEW c \in Clients, Pace(c)
        PROVE  ClientTypeOK'
    <2>1. LedgerInterval - since[c] \in Nat
      BY <1>2 DEF Pace, TooEarly, ClientTypeOK
    <2> QED  BY <1>2, <2>1 DEF Pace, ClientTypeOK, Activities, wire
  <1>3. ASSUME NEW c \in Clients, GiveUp(c)
        PROVE  ClientTypeOK'
    BY <1>3 DEF GiveUp, ClientTypeOK, Answers, client
  <1>4. ASSUME NEW c \in Clients, Retry(c)
        PROVE  ClientTypeOK'
    BY <1>4 DEF Retry, ClientTypeOK, Activities, wire
  <1>5. CASE UNCHANGED clientVars
    BY <1>5 DEF clientVars, client, wire, ClientTypeOK
  <1> QED  BY <1>1, <1>2, <1>3, <1>4, <1>5, ClientTypeSend, ClientTypeReceive, ClientTypeArrive,
              ClientTypeTick DEF ClientNext, Step

\* Nonces, sleeps, answers and requests are always of their types; the time
\* since the last ledger request never exceeds the interval it is compared with.
THEOREM ClientTypeCorrect == ClientSpec => []ClientTypeOK
  <1>1. ClientTypeOK /\ [ClientNext]_clientVars => ClientTypeOK'
    BY ClientTypeNext
  <1> QED  BY <1>1, ClientTypeInit, PTL DEF ClientSpec

-----------------------------------------------------------------------------
(* The calls of all clients: nonces.                                       *)

\* Every request in transit has a nonce of its own, which its client drew at some
\* time and which Kraken has not accepted yet.
NoncesDistinct ==
    /\ \A c \in Clients : sent[c] <= lastNonce
    /\ \A q \in transit : 0 < q.nonce /\ q.nonce <= sent[q.by] /\ q.nonce # high.nonce
    /\ \A q, r \in transit : q.nonce = r.nonce => q = r

HighWasSent ==
    high.nonce > 0 => high.by \in Clients /\ high.nonce <= sent[high.by]

NonceInv == NoncesDistinct /\ HighWasSent

LEMMA NoncesSend ==
    ASSUME ClientTypeOK, NonceInv, NEW c \in Clients, Send(c)
    PROVE  NonceInv'
  <1>1. PICK reading \in WallClock :
            /\ lastNonce' = NextNonce(reading)
            /\ sent' = [sent EXCEPT ![c] = NextNonce(reading)]
            /\ transit' = transit \cup {[by |-> c, nonce |-> NextNonce(reading)]}
    BY DEF Send
  <1> DEFINE n == NextNonce(reading)
             new == [by |-> c, nonce |-> n]
  <1>2. n \in Nat /\ n > lastNonce /\ lastNonce \in Nat /\ UNCHANGED high
    BY NonceGrows DEF Send, ClientTypeOK
  <1>3. new.by = c /\ new.nonce = n /\ transit' = transit \cup {new} /\ lastNonce' = n
    BY <1>1
  <1> HIDE DEF n, new
  <1>4. \A d \in Clients : /\ sent[d] \in Nat /\ sent[d] <= lastNonce
                           /\ sent'[d] = IF d = c THEN n ELSE sent[d]
    BY <1>1 DEF NonceInv, NoncesDistinct, ClientTypeOK, n
  <1>5. \A q \in transit : q.by \in Clients /\ q.nonce \in Nat /\ q.nonce <= lastNonce
    <2>1. \A q \in transit : q.by \in Clients /\ q.nonce \in Nat /\ q.nonce <= sent[q.by]
      BY DEF ClientTypeOK, Request, NonceInv, NoncesDistinct
    <2> QED  BY <1>2, <1>4, <2>1
  <1>6. high.nonce \in Nat /\ high.nonce <= lastNonce
    <2>1. high.nonce \in Nat
      BY DEF ClientTypeOK, Request
    <2> QED  BY <1>2, <1>4, <2>1 DEF NonceInv, HighWasSent
  <1>7. \A d \in Clients : sent'[d] <= lastNonce'
    BY <1>2, <1>3, <1>4
  <1>8. \A q \in transit' : 0 < q.nonce /\ q.nonce <= sent'[q.by] /\ q.nonce # high'.nonce
    BY <1>2, <1>3, <1>4, <1>5, <1>6 DEF NonceInv, NoncesDistinct
  <1>9. \A q, r \in transit' : q.nonce = r.nonce => q = r
    BY <1>2, <1>3, <1>5 DEF NonceInv, NoncesDistinct
  <1>10. HighWasSent'
    BY <1>2, <1>4, <1>6 DEF NonceInv, HighWasSent
  <1> QED  BY <1>7, <1>8, <1>9, <1>10 DEF NonceInv, NoncesDistinct

LEMMA NoncesArrive ==
    ASSUME ClientTypeOK, NonceInv, NEW q \in transit, Arrive(q)
    PROVE  NonceInv'
  <1>1. /\ UNCHANGED <<lastNonce, sent>> /\ transit' = transit \ {q}
        /\ high' = high \/ high' = q
    BY DEF Arrive, Accept, Refuse
  <1>2. NoncesDistinct'
    BY <1>1 DEF NonceInv, NoncesDistinct
  <1>3. HighWasSent'
    <2>1. q.by \in Clients /\ q.nonce <= sent[q.by]
      BY DEF ClientTypeOK, Request, NonceInv, NoncesDistinct
    <2> QED  BY <1>1, <2>1 DEF NonceInv, HighWasSent
  <1> QED  BY <1>2, <1>3 DEF NonceInv

LEMMA NoncesNext ==
    ASSUME ClientTypeOK, NonceInv, [ClientNext]_clientVars
    PROVE  NonceInv'
  <1>1. ASSUME UNCHANGED <<lastNonce, sent, transit, high>>
        PROVE  NonceInv'
    BY <1>1 DEF NonceInv, NoncesDistinct, HighWasSent
  <1>2. ASSUME NEW c \in Clients, NEW p \in Paths, Call(c, p)
        PROVE  NonceInv'
    BY <1>1, <1>2 DEF Call, wire
  <1>3. ASSUME NEW c \in Clients, Pace(c) \/ GiveUp(c) \/ Receive(c) \/ Retry(c)
        PROVE  NonceInv'
    BY <1>1, <1>3 DEF Pace, GiveUp, Receive, Retry, wire
  <1>4. CASE Tick \/ UNCHANGED clientVars
    BY <1>1, <1>4 DEF Tick, clientVars, wire
  <1> QED  BY <1>2, <1>3, <1>4, NoncesSend, NoncesArrive DEF ClientNext, Step

\* A request that is still waited for is refused for its nonce only if another
\* client drew a higher one meanwhile and came first: the late arrival of an
\* attempt its client has given up never spoils the retry, whatever the clock
\* shows (MonotonicNonce, _private_post).
THEOREM RefusalCorrect == ClientSpec => []RefusedOnlyWhenOvertaken
  <1>1. ClientInit => NonceInv
    BY DEF ClientInit, NonceInv, NoncesDistinct, HighWasSent
  <1>2. ClientTypeOK /\ NonceInv /\ [ClientNext]_clientVars => NonceInv'
    BY NoncesNext
  <1>3. ClientTypeOK /\ NonceInv => RefusedOnlyWhenOvertaken
    <2> SUFFICES ASSUME ClientTypeOK, NonceInv, NEW q \in transit, Awaited(q),
                        q.nonce <= high.nonce
                 PROVE  high.by # q.by /\ high.nonce > q.nonce
      BY DEF RefusedOnlyWhenOvertaken
    <2>2. q.nonce \in Nat /\ high.nonce \in Nat
      BY DEF ClientTypeOK, Request
    <2>3. 0 < q.nonce /\ q.nonce # high.nonce /\ sent[q.by] = q.nonce
      BY DEF NonceInv, NoncesDistinct, Awaited
    <2>4. high.nonce <= sent[high.by]
      BY <2>2, <2>3 DEF NonceInv, HighWasSent
    <2> QED  BY <2>2, <2>3, <2>4
  <1> QED  BY <1>1, <1>2, <1>3, ClientTypeCorrect, PTL DEF ClientSpec

-----------------------------------------------------------------------------
(* The calls of all clients: the waits Kraken asks for.                    *)

\* A wait that is not over is still in the answer, or the client sleeps for it,
\* or the call has failed.
WaitKnown(c) ==
    asked[c] > 0 => \/ doing[c] = "failed"
                    \/ doing[c] = "backing_off" /\ asked[c] <= sleep[c]
                    \/ /\ doing[c] = "waiting" /\ answer[c] = "rate_limited"
                       /\ asked[c] <= after[c]

WaitsKnown == \A c \in Clients : WaitKnown(c)

LEMMA WaitsClient ==
    ASSUME ClientTypeOK, WaitsKnown, NEW c \in Clients,
           Step(c) \/ \E p \in Paths : Call(c, p)
    PROVE  WaitsKnown'
  <1>1. ASSUME NEW d \in Clients \ {c}
        PROVE  WaitKnown(d)'
    <2>1. /\ asked'[d] = asked[d] /\ doing'[d] = doing[d] /\ sleep'[d] = sleep[d]
          /\ answer'[d] = answer[d] /\ after'[d] = after[d]
      BY DEF Step, Call, Pace, Send, GiveUp, Receive, Retry, wire, client, ClientTypeOK
    <2> QED  BY <2>1 DEF WaitsKnown, WaitKnown
  <1>2. WaitKnown(c)'
    <2>0. asked[c] \in Nat /\ sleep[c] \in Nat /\ UNCHANGED asked
      BY DEF ClientTypeOK, Step, Call, Pace, Send, GiveUp, Receive, Retry
    <2>1. CASE asked[c] = 0
      BY <2>0, <2>1 DEF WaitKnown
    <2>2. CASE asked[c] > 0
      <3>1. CASE doing[c] = "failed"
        BY <3>1 DEF Step, Call, Pace, Send, GiveUp, Receive, Retry
      <3>2. CASE doing[c] = "backing_off" /\ asked[c] <= sleep[c]
        BY <2>0, <2>2, <3>2 DEF Step, Call, Pace, Send, GiveUp, Receive, Retry
      <3>3. CASE doing[c] = "waiting" /\ answer[c] = "rate_limited" /\ asked[c] <= after[c]
        <4>1. Receive(c)
          BY <3>3 DEF Step, Call, Pace, Send, GiveUp, Retry
        <4>2. Delay(c) \in Nat /\ Delay(c) >= after[c] /\ after[c] \in Nat
          BY <3>3, DelayLongEnough DEF ClientTypeOK
        <4>3. \/ doing'[c] = "failed"
              \/ doing'[c] = "backing_off" /\ sleep'[c] = Delay(c)
          BY <3>3, <4>1 DEF Receive, ClientTypeOK, Temporary
        <4> QED  BY <2>0, <3>3, <4>2, <4>3 DEF WaitKnown
      <3> QED  BY <2>2, <3>1, <3>2, <3>3 DEF WaitsKnown, WaitKnown
    <2> QED  BY <2>0, <2>1, <2>2
  <1> QED  BY <1>1, <1>2 DEF WaitsKnown

LEMMA WaitsArrive ==
    ASSUME ClientTypeOK, WaitsKnown, NEW q \in transit, Arrive(q)
    PROVE  WaitsKnown'
  <1>0. UNCHANGED <<doing, sleep>>
    BY DEF Arrive, client
  <1>1. CASE UNCHANGED <<answer, after, asked>>
    BY <1>0, <1>1 DEF WaitsKnown, WaitKnown
  <1>2. ASSUME NEW a, NEW wait \in Nat, a = "rate_limited" \/ wait = 0, Awaited(q),
               answer' = [answer EXCEPT ![q.by] = a],
               after' = [after EXCEPT ![q.by] = wait],
               asked' = [asked EXCEPT ![q.by] = wait]
        PROVE  WaitsKnown'
    BY <1>0, <1>2 DEF WaitsKnown, WaitKnown, Awaited, ClientTypeOK
  <1>3. \/ UNCHANGED <<answer, after, asked>>
        \/ \E a \in Answers, wait \in Nat :
              /\ a = "rate_limited" \/ wait = 0
              /\ Awaited(q)
              /\ answer' = [answer EXCEPT ![q.by] = a]
              /\ after' = [after EXCEPT ![q.by] = wait]
              /\ asked' = [asked EXCEPT ![q.by] = wait]
    BY DEF Arrive, Accept, Refuse, Replies, Answers
  <1> QED  BY <1>1, <1>2, <1>3

LEMMA WaitsTick ==
    ASSUME ClientTypeOK, WaitsKnown, Tick
    PROVE  WaitsKnown'
  <1>1. SUFFICES ASSUME NEW c \in Clients
                 PROVE  WaitKnown(c)'
    BY DEF WaitsKnown
  <1>2. /\ sleep[c] \in Nat /\ asked[c] \in Nat /\ after[c] \in Nat
        /\ sleep'[c] = Less(sleep[c]) /\ asked'[c] = Less(asked[c])
        /\ UNCHANGED <<doing, answer, after>>
    BY DEF Tick, ClientTypeOK, wire
  <1> QED  BY <1>2, OneTickLess DEF WaitsKnown, WaitKnown

\* Whatever Kraken asks a client to wait, nothing leaves that client before the
\* time is over (_retry_delay and Retry-After in _private_post).
THEOREM WaitsCorrect == ClientSpec => RateLimitHonoured
  <1>1. ClientInit => WaitsKnown
    BY DEF ClientInit, WaitsKnown, WaitKnown
  <1>2. ClientTypeOK /\ WaitsKnown /\ [ClientNext]_clientVars => WaitsKnown'
    <2>1. UNCHANGED clientVars /\ WaitsKnown => WaitsKnown'
      BY DEF clientVars, client, wire, WaitsKnown, WaitKnown
    <2> QED  BY <2>1, WaitsClient, WaitsArrive, WaitsTick DEF ClientNext
  <1>3. ASSUME ClientTypeOK, WaitsKnown, [ClientNext]_clientVars, NEW c \in Clients,
               sent'[c] # sent[c]
        PROVE  asked[c] = 0
    <2>1. Send(c)
      BY <1>3 DEF ClientNext, Step, Call, Pace, Send, GiveUp, Receive, Retry, Arrive, Tick, wire,
                  clientVars, ClientTypeOK
    <2>2. doing[c] = "ready" \/ (doing[c] = "pacing" /\ sleep[c] = 0)
      BY <2>1 DEF Send
    <2> QED  BY <1>3, <2>2 DEF WaitsKnown, WaitKnown, ClientTypeOK
  <1>4. ClientTypeOK /\ WaitsKnown /\ [ClientNext]_clientVars
            => [\A c \in Clients : sent'[c] # sent[c] => asked[c] = 0]_clientVars
    BY <1>3
  <1> QED  BY <1>1, <1>2, <1>4, ClientTypeCorrect, PTL DEF ClientSpec, RateLimitHonoured
=============================================================================
