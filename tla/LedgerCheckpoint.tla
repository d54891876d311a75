-------------------------- MODULE LedgerCheckpoint --------------------------
(***************************************************************************)
(* What the incremental synchronisation promises, without requests, rows   *)
(* or retries: a growing set of held ledger entries and a growing set of   *)
(* checkpoints.  A checkpoint is the end of a window that has been taken   *)
(* in completely, and the next window begins Lookback before one of them.  *)
(* Module KrakenSync implements this specification.                        *)
(***************************************************************************)
EXTENDS Integers

CONSTANTS Entries, OccurredAt, InitialStart, Lookback, SettlementLag

VARIABLES now, held, checkpoints

vars == <<now, held, checkpoints>>

Init ==
    /\ now = 0
    /\ held = {}
    /\ checkpoints = {}

\* Where a window may begin.
Starts == {InitialStart} \cup {c - Lookback : c \in {d \in checkpoints : d - Lookback >= InitialStart}}

Advance ==
    /\ now' = now + 1
    /\ UNCHANGED <<held, checkpoints>>

\* Entries come in one way or another; none is ever lost again.
Acquire ==
    /\ held \subseteq held'
    /\ held' \subseteq Entries
    /\ UNCHANGED <<now, checkpoints>>

\* The window [from, to) is taken in, up to the part that will be read again.
Complete(from, to) ==
    /\ from < to
    /\ held \subseteq held'
    /\ held' \subseteq Entries
    /\ \A e \in Entries :
          from <= OccurredAt[e] /\ OccurredAt[e] < to - Lookback => e \in held'
    /\ checkpoints' = checkpoints \cup {to}
    /\ UNCHANGED now

Next ==
    \/ Advance
    \/ Acquire
    \/ \E from \in Starts, to \in InitialStart .. (now - SettlementLag) : Complete(from, to)

Spec == Init /\ [][Next]_vars

\* No entry between the first start and Lookback before a checkpoint is missing.
NoGap ==
    \A c \in checkpoints, e \in Entries :
        InitialStart <= OccurredAt[e] /\ OccurredAt[e] < c - Lookback => e \in held
=============================================================================
