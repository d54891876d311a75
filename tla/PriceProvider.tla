---------------------------- MODULE PriceProvider ----------------------------
(***************************************************************************)
(* services/valuation_fetch.py and infrastructure/coingecko.py: which      *)
(* windows of days a valuation run asks the price provider for, how a call *)
(* ends, and which evidence is kept of its HTTP answers.  No state: module *)
(* Valuation has the tables.                                               *)
(*                                                                         *)
(* A day's observations are one value, its content; the hash of an answer  *)
(* is the answer.  Waiting (pacing, backoff, Retry-After) is left out:     *)
(* nothing depends on how long a call takes.                               *)
(***************************************************************************)
EXTENDS Integers, FiniteSetsExt, SequencesExt

CONSTANTS
    MaxDays,     \* days of one window (90)
    Retries,     \* of a call, after its first attempt
    Temporary,   \* HTTP statuses that are tried again (429 and 5xx)
    Permanent,   \* HTTP statuses that end a call (401, 403, 404)
    NoData       \* the content of a day without observations

ASSUME ProviderAssumption ==
    /\ MaxDays \in Nat \ {0} /\ Retries \in Nat
    /\ Temporary \cup Permanent \subseteq Nat \ {200}

Success == 200

\* MUTANT of WindowEnd: the last missing day itself.
LastMissingDay(missing) == Max(missing)

\* Windows are half open: the midnight after the last missing day.
WindowEnd(missing) == Max(missing) + 1

\* Contiguous windows from the first to the last missing day.
Windows(asset, missing) ==
    IF missing = {} THEN {}
    ELSE LET first == Min(missing)
             end == WindowEnd(missing)
         IN {[asset |-> asset, from |-> d, until |-> Min({d + MaxDays, end})] :
                 d \in {d \in first..(end - 1) : (d - first) % MaxDays = 0}}

DaysOf(w) == w.from..(w.until - 1)

-----------------------------------------------------------------------------
(* One call of the provider.                                               *)

\* What an attempt without usable observations leaves.
Silence(w) == [d \in DaysOf(w) |-> NoData]

\* The HTTP answers of up to n attempts that were tried again.  Timeouts and network
\* errors are tried again too, but only HTTP answers count as attempts.
Again(n) == UNION {[1..k -> Temporary] : k \in 0..n}
TriedAgain == Again(Retries)

\* How a call may fail: by one attempt more, by a status that is final, or by an
\* answer that cannot be read.
FailedCalls ==
    Again(Retries + 1) \cup {Append(t, s) : t \in TriedAgain, s \in Permanent \cup {Success}}

Attempts(statuses, w) ==
    [i \in DOMAIN statuses |-> [status |-> statuses[i], answer |-> Silence(w)]]

AnsweredAttempts(tried, w, listing) ==
    Append(Attempts(tried, w), [status |-> Success, answer |-> listing])

-----------------------------------------------------------------------------
(* Evidence.                                                               *)

\* MUTANT of SameEvidence: the hash of the answer is not compared.
SameWindow(e, w, answer) == e.asset = w.asset /\ e.from = w.from /\ e.until = w.until

\* uq_provider_evidence_identity
SameEvidence(e, w, answer) ==
    /\ e.asset = w.asset /\ e.from = w.from /\ e.until = w.until
    /\ e.answer = answer

\* The row found for an attempt, or a new one.
Kept(rows, w, attempt) ==
    IF \E e \in rows : SameEvidence(e, w, attempt.answer)
    THEN rows
    ELSE rows \cup {[asset |-> w.asset, from |-> w.from, until |-> w.until,
                     answer |-> attempt.answer, status |-> attempt.status]}

KeptAll(rows, w, attempts) ==
    FoldLeft(LAMBDA kept, attempt : Kept(kept, w, attempt), rows, attempts)

EvidenceOf(rows, w, attempt) == CHOOSE e \in rows : SameEvidence(e, w, attempt.answer)
=============================================================================
