------------------------- MODULE KrakenPrivateClient -------------------------
(***************************************************************************)
(* KrakenPrivateClient._private_post: what one call of a private Kraken    *)
(* endpoint sends.  Every HTTP request of the application has a client of  *)
(* its own and makes its calls one after the other, but all clients draw   *)
(* their nonces from _PROCESS_NONCE and present the same key, so requests  *)
(* of two clients may reach Kraken in another order than their nonces.     *)
(* KrakenSync and LedgerPagination take one such call for a single step.   *)
(*                                                                         *)
(* Time passes in ticks of no particular length: a sleep is the number of  *)
(* ticks that are left of it.                                              *)
(***************************************************************************)
EXTENDS Integers, FiniteSetsExt

CONSTANTS
    Clients,         \* the KrakenPrivateClient objects of one process
    MaxRetries,      \* max_retries
    LedgerInterval,  \* ledger_min_interval_seconds
    RateLimitBase,   \* rate_limit_retry_base_seconds
    WallClock,       \* what the wall clock may show: it may stand or be set back
    RetryAfters,     \* the waits Kraken may ask for; 0: none is asked for
    MaxCalls         \* bound: calls of all clients together

ASSUME ClientAssumption ==
    /\ MaxRetries \in Nat
    /\ LedgerInterval \in Nat \ {0}
    /\ RateLimitBase \in Nat \ {0}
    /\ WallClock \subseteq Nat
    /\ RetryAfters \subseteq Nat
    /\ MaxCalls \in Nat

Paths == {"Ledgers", "BalanceEx"}

VARIABLES
    lastNonce, \* _PROCESS_NONCE._last
    doing,     \* what each client is doing; "failed": its call has raised
    calls,     \* how many calls have begun
    path,      \* the endpoint of its call
    attempt,   \* _private_post's local of this name
    sleep,     \* ticks left of its sleep
    since,     \* ticks since _last_ledger_start, LedgerInterval if that long or None
    sent,      \* the nonce of its newest request
    answer,    \* what came of it, "none" as long as it waits
    after,     \* the Retry-After header of a rate-limited answer
    transit,   \* requests that have not reached Kraken, and may never do
    high,      \* Kraken: the highest nonce accepted from the key, and from whom
    asked      \* history: ticks left of the wait Kraken has asked a client for

client == <<doing, calls, path, attempt, sleep, since>>
wire == <<sent, answer, after, transit>>
clientVars == <<lastNonce, client, wire, high, asked>>

ClientInit ==
    /\ lastNonce = 0
    /\ doing = [c \in Clients |-> "idle"]
    /\ calls = 0
    /\ path = [c \in Clients |-> "BalanceEx"]
    /\ attempt = [c \in Clients |-> 0]
    /\ sleep = [c \in Clients |-> 0]
    /\ since = [c \in Clients |-> LedgerInterval]
    /\ sent = [c \in Clients |-> 0]
    /\ answer = [c \in Clients |-> "none"]
    /\ after = [c \in Clients |-> 0]
    /\ transit = {}
    /\ high = [by |-> "nobody", nonce |-> 0]
    /\ asked = [c \in Clients |-> 0]

-----------------------------------------------------------------------------
(* The client.                                                             *)

Call(c, p) ==
    /\ doing[c] = "idle"
    /\ calls < MaxCalls
    /\ calls' = calls + 1
    /\ path' = [path EXCEPT ![c] = p]
    /\ attempt' = [attempt EXCEPT ![c] = 0]
    /\ doing' = [doing EXCEPT ![c] = "ready"]
    /\ UNCHANGED <<lastNonce, sleep, since, wire, high, asked>>

Paced(c) == path[c] = "Ledgers"
TooEarly(c) == Paced(c) /\ since[c] < LedgerInterval

\* The pause before a ledger request, whether it is the first try or a retry.
Pace(c) ==
    /\ doing[c] = "ready"
    /\ TooEarly(c)
    /\ sleep' = [sleep EXCEPT ![c] = LedgerInterval - since[c]]
    /\ doing' = [doing EXCEPT ![c] = "pacing"]
    /\ UNCHANGED <<lastNonce, calls, path, attempt, since, wire, high, asked>>

\* MUTANT of NextNonce: the nonce is what the clock shows.
ClockNonce(reading) == Max({reading, lastNonce})

\* MonotonicNonce.next
NextNonce(reading) == Max({reading, lastNonce + 1})

\* The nonce is drawn and the request leaves; when it arrives is another matter.
Send(c) ==
    /\ \/ doing[c] = "ready" /\ ~TooEarly(c)
       \/ doing[c] = "pacing" /\ sleep[c] = 0
    /\ since' = [since EXCEPT ![c] = IF Paced(c) THEN 0 ELSE @]
    /\ \E reading \in WallClock :
          LET nonce == NextNonce(reading) IN
          /\ lastNonce' = nonce
          /\ sent' = [sent EXCEPT ![c] = nonce]
          /\ transit' = transit \cup {[by |-> c, nonce |-> nonce]}
    /\ doing' = [doing EXCEPT ![c] = "waiting"]
    /\ UNCHANGED <<calls, path, attempt, sleep, answer, after, high, asked>>

\* MUTANT of GiveUp: the socket has no timeout, only a broken connection ends the wait.
WaitForAnswer(c) ==
    /\ doing[c] = "waiting"
    /\ answer[c] = "none"
    /\ [by |-> c, nonce |-> sent[c]] \in transit
    /\ \E a \in {"lost", "broken"} : answer' = [answer EXCEPT ![c] = a]
    /\ UNCHANGED <<lastNonce, client, sent, after, transit, high, asked>>

\* The socket times out, cannot connect, or a gateway says that Kraken is
\* unavailable: "lost".  Or the connection ends before the answer is complete:
\* "broken", an exception _private_post does not catch.  The request may have
\* been served, may still be on its way, or may never arrive.
GiveUp(c) ==
    /\ doing[c] = "waiting"
    /\ answer[c] = "none"
    /\ \E a \in {"lost", "broken"} : answer' = [answer EXCEPT ![c] = a]
    /\ UNCHANGED <<lastNonce, client, sent, after, transit, high, asked>>

Temporary(a) == a \in {"rate_limited", "lost"}

\* MUTANT of Delay: the header is not looked at.
DelayByBackoff(c) ==
    IF answer[c] = "rate_limited" THEN RateLimitBase * 2 ^ attempt[c]
                                  ELSE Min({2 ^ attempt[c], 4})

\* _retry_delay, lengthened by Retry-After.
Delay(c) ==
    IF answer[c] = "rate_limited"
    THEN Max({RateLimitBase * 2 ^ attempt[c], after[c]})
    ELSE Min({2 ^ attempt[c], 4})

\* What _private_post makes of the answer: return, sleep and try again, or raise.
Receive(c) ==
    /\ doing[c] = "waiting"
    /\ \/ /\ answer[c] = "result"
          /\ doing' = [doing EXCEPT ![c] = "idle"]
          /\ UNCHANGED <<attempt, sleep>>
       \/ /\ Temporary(answer[c])
          /\ attempt[c] < MaxRetries
          /\ sleep' = [sleep EXCEPT ![c] = Delay(c)]
          /\ attempt' = [attempt EXCEPT ![c] = @ + 1]
          /\ doing' = [doing EXCEPT ![c] = "backing_off"]
       \/ /\ \/ Temporary(answer[c]) /\ attempt[c] = MaxRetries
             \/ answer[c] \in {"refused", "invalid_nonce", "broken"}
          /\ doing' = [doing EXCEPT ![c] = "failed"]
          /\ UNCHANGED <<attempt, sleep>>
    /\ answer' = [answer EXCEPT ![c] = "none"]
    /\ after' = [after EXCEPT ![c] = 0]
    /\ UNCHANGED <<lastNonce, calls, path, since, sent, transit, high, asked>>

Retry(c) ==
    /\ doing[c] = "backing_off"
    /\ sleep[c] = 0
    /\ doing' = [doing EXCEPT ![c] = "ready"]
    /\ UNCHANGED <<lastNonce, calls, path, attempt, sleep, since, wire, high, asked>>

Step(c) == Pace(c) \/ Send(c) \/ GiveUp(c) \/ Receive(c) \/ Retry(c)

-----------------------------------------------------------------------------
(* Kraken and the way to it.                                               *)

Awaited(q) == doing[q.by] = "waiting" /\ sent[q.by] = q.nonce /\ answer[q.by] = "none"

\* The client gets this answer, or nothing comes back; a client that no longer
\* waits gets nothing.
Replies(q, a, wait) ==
    \/ /\ Awaited(q)
       /\ answer' = [answer EXCEPT ![q.by] = a]
       /\ after' = [after EXCEPT ![q.by] = wait]
       /\ asked' = [asked EXCEPT ![q.by] = wait]
    \/ UNCHANGED <<answer, after, asked>>

\* Kraken takes a nonce above the highest one of the key.  "refused" stands for
\* every answer that is neither a result nor a rate limit.
Accept(q) ==
    /\ q.nonce > high.nonce
    /\ high' = q
    /\ \/ \E a \in {"result", "refused"} : Replies(q, a, 0)
       \/ \E w \in RetryAfters : Replies(q, "rate_limited", w)

Refuse(q) ==
    /\ q.nonce <= high.nonce
    /\ Replies(q, "invalid_nonce", 0)
    /\ UNCHANGED high

Arrive(q) ==
    /\ transit' = transit \ {q}
    /\ Accept(q) \/ Refuse(q)
    /\ UNCHANGED <<lastNonce, client, sent>>

Less(n) == Max({n - 1, 0})

Tick ==
    /\ sleep' = [c \in Clients |-> Less(sleep[c])]
    /\ since' = [c \in Clients |-> Min({since[c] + 1, LedgerInterval})]
    /\ asked' = [c \in Clients |-> Less(asked[c])]
    /\ UNCHANGED <<lastNonce, doing, calls, path, attempt, wire, high>>

-----------------------------------------------------------------------------
ClientNext ==
    \/ \E c \in Clients : \E p \in Paths : Call(c, p)
    \/ \E c \in Clients : Step(c)
    \/ \E q \in transit : Arrive(q)
    \/ Tick

ClientSpec == ClientInit /\ [][ClientNext]_clientVars

\* The threads run, sleeps end and the socket has a timeout.  Nothing is asked
\* of the network or of Kraken, and no call has to be made.
ClientFairness == WF_clientVars(Tick) /\ \A c \in Clients : WF_clientVars(Step(c))

ClientFairSpec == ClientSpec /\ ClientFairness

-----------------------------------------------------------------------------
\* A call can be refused for its nonce only because another client drew a higher
\* one while it was under way and came first.  The retries of a client never
\* stand in each other's way: not when an attempt it has given up arrives after
\* all, nor when the clock stands still or is set back between two attempts.
RefusedOnlyWhenOvertaken ==
    \A q \in transit : Awaited(q) /\ q.nonce <= high.nonce =>
        high.by # q.by /\ high.nonce > q.nonce

\* However long Kraken asks a client to wait, nothing leaves that client before
\* the time is over: not the retry, whose own pause is counted from the moment
\* the answer was read, nor a later call.
RateLimitHonoured == [][\A c \in Clients : sent'[c] # sent[c] => asked[c] = 0]_clientVars

\* A call comes to an end, whatever is lost on the way.
EveryCallReturns ==
    \A c \in Clients : doing[c] \notin {"idle", "failed"} ~> doing[c] \in {"idle", "failed"}
=============================================================================
