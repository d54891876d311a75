---------------------------- MODULE MCKrakenSync ----------------------------
(* Small instances of KrakenSync for TLC. *)
EXTENDS KrakenSync, TLC

CONSTANTS r1, r2, r3, e1, e2, c1, c2

TwoRequests   == {r1, r2}
ThreeRequests == {r1, r2, r3}
OneEntry      == {e1}
TwoEntries    == {e1, e2}
OneContent    == {c1}
TwoContents   == {c1, c2}

\* The first entry is as old as the first window, the second falls between
\* the windows of two consecutive runs.
EntryTimes == [e \in Entries |-> IF e = e1 THEN 0 ELSE 2]

AnyRequest == Permutations(Requests)
=============================================================================
