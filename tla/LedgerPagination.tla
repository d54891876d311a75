-------------------------- MODULE LedgerPagination --------------------------
(***************************************************************************)
(* Reading one window of the Kraken ledger: KrakenPrivateClient            *)
(* .ledger_preview pages through /0/private/Ledgers by offset, newest      *)
(* entry first, while the ledger goes on changing, and run_sync reads the  *)
(* window twice and keeps the result only if both reads agree.             *)
(* KrakenSync takes each of these reads for one atomic step; this module   *)
(* is what that step consists of and why it may be taken for one.          *)
(***************************************************************************)
EXTENDS Integers, FiniteSets

CONSTANTS
    LedgerIds,     \* the ids the provider may list between start - 1s and end + 1s
    Rank,          \* its order: the higher, the newer, the earlier on the pages
    InWindow,      \* the ids whose timestamp lies in [start, end)
    Unparsable,    \* the ids whose entry _parse_entry rejects
    PageSize,      \* the most entries the provider puts on a page
    MaxPages,      \* KrakenPrivateClient.max_pages
    MaxRemovals,   \* bound: entries the provider takes back
    MaxAmends      \* bound: entries the provider changes

ASSUME PagingAssumption ==
    /\ IsFiniteSet(LedgerIds)
    /\ Rank \in [LedgerIds -> Int]
    /\ \A i, j \in LedgerIds : Rank[i] = Rank[j] => i = j
    /\ InWindow \subseteq LedgerIds
    /\ Unparsable \subseteq LedgerIds
    /\ PageSize \in Nat \ {0}
    /\ MaxPages \in Nat \ {0}
    /\ MaxRemovals \in Nat
    /\ MaxAmends \in Nat

VARIABLES
    ledger,      \* provider: the ids it lists now
    version,     \* provider: how often each entry has been changed
    removals,    \* number of entries taken back so far
    amends,      \* number of changes so far
    pc,          \* "paging", "judging" a finished read, "done"
    round,       \* 1: the preview, 2: the confirmation
    offset, pages, total, complete,   \* ledger_preview's locals of these names
    found,       \* the keys of its dict entries ...
    value,       \* ... and the version of each it has kept
    conflicts,   \* ids that came twice with different content
    malformed,   \* whether an entry could not be parsed
    last,        \* history: what the provider listed when the last page was read
    first,       \* the result of the first read, with what the provider said then
    outcome      \* what became of the window

world == <<ledger, version, removals, amends>>
paging == <<offset, pages, total, complete, found, value, conflicts, malformed, last>>
vars == <<world, pc, round, paging, first, outcome>>

Results == [ids : SUBSET LedgerIds, value : [LedgerIds -> Nat],
            last : SUBSET LedgerIds, version : [LedgerIds -> Nat]]

TypeOK ==
    /\ ledger \subseteq LedgerIds
    /\ version \in [LedgerIds -> Nat]
    /\ removals \in Nat /\ amends \in Nat
    /\ pc \in {"paging", "judging", "done"}
    /\ round \in {1, 2}
    /\ offset \in Nat /\ pages \in 0 .. MaxPages /\ total \in Nat
    /\ complete \in BOOLEAN /\ malformed \in BOOLEAN
    /\ found \subseteq LedgerIds /\ conflicts \subseteq LedgerIds
    /\ last \subseteq LedgerIds
    /\ value \in [LedgerIds -> Nat]
    /\ first \in Results
    /\ outcome \in {"none", "accepted", "not_ready", "changed"}

NoVersions == [i \in LedgerIds |-> 0]
NoResult == [ids |-> {}, value |-> NoVersions, last |-> {}, version |-> NoVersions]

Init ==
    /\ ledger \in SUBSET LedgerIds
    /\ version = NoVersions
    /\ removals = 0 /\ amends = 0
    /\ pc = "paging" /\ round = 1
    /\ offset = 0 /\ pages = 0 /\ total = 0
    /\ complete = FALSE /\ malformed = FALSE
    /\ found = {} /\ conflicts = {} /\ last = {}
    /\ value = NoVersions
    /\ first = NoResult
    /\ outcome = "none"

-----------------------------------------------------------------------------
(* The provider between two pages.                                         *)

Insert(i) ==
    /\ i \notin ledger
    /\ ledger' = ledger \cup {i}
    /\ UNCHANGED <<version, removals, amends, pc, round, paging, first, outcome>>

Remove(i) ==
    /\ i \in ledger
    /\ removals < MaxRemovals
    /\ ledger' = ledger \ {i}
    /\ removals' = removals + 1
    /\ UNCHANGED <<version, amends, pc, round, paging, first, outcome>>

Amend(i) ==
    /\ i \in ledger
    /\ amends < MaxAmends
    /\ version' = [version EXCEPT ![i] = @ + 1]
    /\ amends' = amends + 1
    /\ UNCHANGED <<ledger, removals, pc, round, paging, first, outcome>>

-----------------------------------------------------------------------------
Newer(i) == {j \in ledger : Rank[j] > Rank[i]}

\* What the provider returns for ofs = offset when it fills size places.
Page(size) ==
    {i \in ledger : LET n == Cardinality(Newer(i)) IN offset <= n /\ n < offset + size}

Complete(page) == offset + Cardinality(page) >= Cardinality(ledger)

Stops(page) == Complete(page) \/ page = {} \/ pages + 1 = MaxPages

\* One request of ledger_preview's loop and the handling of its answer.
ReadPage(size) ==
    LET page   == Page(size)
        parsed == page \ Unparsable
    IN
    /\ pc = "paging"
    /\ pages' = pages + 1
    /\ total' = Cardinality(ledger)
    /\ last' = ledger
    /\ malformed' = (malformed \/ page \cap Unparsable # {})
    /\ conflicts' = conflicts \cup {i \in parsed \cap found : value[i] # version[i]}
    /\ value' = [i \in LedgerIds |-> IF i \in parsed \ found THEN version[i] ELSE value[i]]
    /\ found' = found \cup parsed
    /\ complete' = Complete(page)
    /\ IF Stops(page)
       THEN pc' = "judging" /\ UNCHANGED offset
       ELSE offset' = offset + Cardinality(page) /\ UNCHANGED pc
    /\ UNCHANGED <<world, round, first, outcome>>

\* MUTANT of Ready: the provider's count is not compared.
ReadyWithoutCount ==
    /\ complete
    /\ conflicts \cap InWindow = {}
    /\ ~malformed

\* ready_for_import, over the whole answer; only conflicts are narrowed down to
\* the requested window.
Ready ==
    /\ complete
    /\ conflicts \cap InWindow = {}
    /\ ~malformed
    /\ total = Cardinality(found)

Records == found \cap InWindow

\* MUTANT of SameAsFirst: one read is believed.
SameAsFirstAlways == TRUE

\* MUTANT of SameAsFirst: the digests alone are compared.
SameIdsAsFirst == Records = first.ids

\* The stable digest and the canonical fingerprints of both reads are the same.
SameAsFirst ==
    /\ Records = first.ids
    /\ \A i \in Records : value[i] = first.value[i]

\* _validate_preview and, after the second read, the comparison of both.
Judge ==
    /\ pc = "judging"
    /\ IF ~Ready
       THEN /\ outcome' = "not_ready"
            /\ pc' = "done"
            /\ UNCHANGED <<round, paging, first>>
       ELSE IF round = 1
       THEN /\ first' = [ids |-> Records, value |-> value, last |-> last, version |-> version]
            /\ round' = 2
            /\ pc' = "paging"
            /\ offset' = 0 /\ pages' = 0 /\ total' = 0
            /\ complete' = FALSE /\ malformed' = FALSE
            /\ found' = {} /\ conflicts' = {} /\ last' = {}
            /\ value' = NoVersions
            /\ UNCHANGED outcome
       ELSE /\ outcome' = IF SameAsFirst THEN "accepted" ELSE "changed"
            /\ pc' = "done"
            /\ UNCHANGED <<round, paging, first>>
    /\ UNCHANGED world

Next ==
    \/ \E i \in LedgerIds : Insert(i) \/ Remove(i) \/ Amend(i)
    \/ \E size \in 0 .. PageSize : ReadPage(size)
    \/ Judge

Spec == Init /\ [][Next]_vars

-----------------------------------------------------------------------------
\* A read that is ready found exactly what the provider listed at its last
\* page, however the entries moved between the pages, as long as none was
\* taken back.
SingleReadExact ==
    pc = "judging" /\ Ready /\ removals = 0 => found = last

\* An accepted window is what the provider listed at one moment: when one of
\* the two reads ended.  One entry taken back at any time does not change that.
ConfirmedReadIsASnapshot ==
    outcome = "accepted" => Records \in {first.last \cap InWindow, last \cap InWindow}

\* Nor does an entry the provider changes meanwhile: what is accepted about an
\* entry is what the provider said of it between the two reads.
ConfirmedContentsCurrent ==
    outcome = "accepted" => \A i \in Records : value[i] = first.version[i]
=============================================================================
