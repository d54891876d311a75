-------------------------- MODULE MCKrakenReading --------------------------
(* The two halves of KrakenPrivateClient for TLC: the calls of two clients, *)
(* or the pages of a window.  They share no state, so a behaviour has one    *)
(* or the other.                                                             *)
EXTENDS LedgerPagination, KrakenPrivateClient

CONSTANTS k1, k2

VARIABLE subject

\* Four ledger ids on pages of at most two; the oldest lies before the window.
FourIds == 1 .. 4
OldestOutside == 2 .. 4
ByNumber == [i \in LedgerIds |-> i]

\* Two clients of one process.  Their clock stands still or is set back; one that
\* runs ahead of the nonces leaves gaps between them, and only their order counts.
TwoClients == {k1, k2}
SlowClock == {0, 1}

ReadingInit ==
    /\ subject \in {"calls", "pages"}
    /\ Init
    /\ ClientInit
    /\ subject = "calls" => ledger = {}

ReadingNext ==
    /\ \/ subject = "calls" /\ ClientNext /\ UNCHANGED vars
       \/ subject = "pages" /\ Next /\ UNCHANGED clientVars
    /\ UNCHANGED subject

ReadingSpec ==
    /\ ReadingInit
    /\ [][ReadingNext]_<<subject, vars, clientVars>>
    /\ ClientFairness
=============================================================================
