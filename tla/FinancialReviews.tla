-------------------------- MODULE FinancialReviews --------------------------
(***************************************************************************)
(* api/financial_reviews.py: POST /financial-review-suggestions proposes a  *)
(* meaning for ledger records under review, a withdrawal of fiat to an own *)
(* account or the two legs of a delisting, and POST /reviews/{id}/resolve  *)
(* confirms or rejects one.  With ReviewList and HistoricalTransfer this   *)
(* is the whole way of a record under review.                              *)
(*                                                                         *)
(* A request reads, and commits once at its end.  Requests overlap if the  *)
(* situation says so; then only the unique keys keep two of them apart.    *)
(***************************************************************************)
EXTENDS ReviewList

CONSTANTS
    Generators,    \* the requests for suggestions
    Deciders,      \* the requests that confirm or reject
    Asks,          \* what the deciders of a situation ask for
    Proceeds,      \* STABLE_PROCEEDS_ASSETS
    PairWindow     \* DELISTING_WINDOW

VARIABLES
    suggestions,   \* financial_review_suggestions with their links
    resolutions,   \* financial_review_resolutions with their links
    step,          \* where each request is
    local          \* what it has read

reviewVars == <<suggestions, resolutions, step, local>>
vars == <<history, transferVars, listVars, reviewVars>>

Requests == Generators \cup Deciders
Withdrawal == "own_account_fiat_withdrawal"
Delisting == "delisting_liquidation"

\* by is who decided and why; None as long as nobody has.
Suggestion(issue, type, records, by) ==
    [issue |-> issue, type |-> type, records |-> records, by |-> by]
Resolution(issue, type, records, by) ==
    [issue |-> issue, type |-> type, records |-> records, by |-> by]

\* The values these rows may have, and that None is none of them.
IssueRow == [run : Nat, raw : Records, code : Codes]
ReviewAsk == UNION {Asks[s.asks][d] : s \in Situations, d \in Deciders}
By == {a.by : a \in ReviewAsk} \cup {None}
ReviewRow == [issue : IssueRow, type : {Withdrawal, Delisting},
              records : SUBSET DOMAIN Ledger, by : By]

ASSUME ReviewAssumption ==
    /\ Generators \cap Deciders = {}
    /\ \A a \in ReviewAsk : /\ a.status \in {"rejected", "confirmed"}
                            /\ a.type \in {Withdrawal, Delisting}
    /\ None \notin ReviewRow

Init ==
    /\ ListInit
    /\ suggestions = {} /\ resolutions = {}
    /\ step = [q \in Requests |-> IF q \in situation.calls THEN "idle" ELSE "done"]
    /\ local = [q \in Requests |-> None]

-----------------------------------------------------------------------------
(* services/financial_reviews.py: what may be proposed.                    *)

FiatWithdrawal(r) ==
    /\ Ledger[r].type = "withdrawal" /\ Ledger[r].asset \in Fiat
    /\ Ledger[r].amount < 0 /\ Ledger[r].fee >= 0

\* Free transfers are candidates, out of an asset and into a stable one.
Legs(records) ==
    {r \in records : /\ Ledger[r].type = "transfer"
                     /\ Ledger[r].amount # 0 /\ Ledger[r].fee = 0}

Match(out, in) ==
    /\ Ledger[out].amount < 0 /\ Ledger[in].amount > 0
    /\ Ledger[in].at - Ledger[out].at \in 0 .. PairWindow
    /\ Ledger[out].asset \notin Proceeds \cup {Ledger[in].asset}
    /\ Ledger[in].asset \in Proceeds

\* Two legs that match each other and no other leg.
Pairs(records) ==
    {p \in Legs(records) \X Legs(records) :
        /\ Match(p[1], p[2])
        /\ \A r \in Legs(records) \ {p[2]} : ~Match(p[1], r)
        /\ \A r \in Legs(records) \ {p[1]} : ~Match(r, p[2])}

\* resolution_metadata accepts what would be proposed of these records alone.
Candidate(type, records) ==
    IF type = Withdrawal
    THEN Cardinality(records) = 1 /\ \A r \in records : FiatWithdrawal(r)
    ELSE Cardinality(records) = 2 /\ Cardinality(Pairs(records)) = 1

-----------------------------------------------------------------------------
(* POST /financial-review-suggestions.                                     *)

RecordsOf(rows) == UNION {x.records : x \in rows}
SameKey(s, t) == s.issue = t.issue /\ s.type = t.type

\* The active issue of a record; of several the one that was written first.
ActiveIssue(raw, active) ==
    CHOOSE i \in active : /\ i.raw = raw
                          /\ \A j \in active : j.raw = raw => i.run <= j.run

\* Records of trades are excluded as well, but are of other types anyway.
Open(active) == {i.raw : i \in active} \ RecordsOf(resolutions)

Proposals(active) ==
    {Suggestion(ActiveIssue(r, active), Withdrawal, {r}, None) :
        r \in {o \in Open(active) \cap DOMAIN Ledger : FiatWithdrawal(o)}}
      \cup {Suggestion(ActiveIssue(p[1], active), Delisting, {p[1], p[2]}, None) :
        p \in Pairs(Open(active) \cap DOMAIN Ledger)}

\* Whether a request may begin now.
Admitted == situation.overlap \/ \A q \in Requests : step[q] \in {"idle", "done"}

ReadForSuggestions(g) ==
    /\ step[g] = "idle" /\ Admitted
    /\ \E active \in {ActiveIssues} :
          local' = [local EXCEPT ![g] =
              {s \in Proposals(active) : \A t \in suggestions : ~SameKey(s, t)}]
    /\ step' = [step EXCEPT ![g] = "read"]
    /\ UNCHANGED <<history, transferVars, listVars, suggestions, resolutions>>

\* All are stored, or none if another request was first with one of them.
CommitSuggestions(g) ==
    /\ step[g] = "read"
    /\ suggestions' =
          IF \E s \in local[g], t \in suggestions : SameKey(s, t) THEN suggestions
          ELSE suggestions \cup local[g]
    /\ step' = [step EXCEPT ![g] = "done"]
    /\ UNCHANGED <<history, transferVars, listVars, resolutions, local>>

-----------------------------------------------------------------------------
(* POST /reviews/{id}/resolve.                                             *)

\* The issue may be any ever written on one of the records, active or not; each of
\* the records must have had one.
Acceptable(issue, ask) ==
    /\ issue.raw \in ask.records
    /\ ask.records \subseteq {i.raw : i \in issues} \cap DOMAIN Ledger

\* MUTANT of RejectedOn: only of exactly these records.
RejectedExactly(records) == {s \in suggestions : s.by # None /\ s.records = records}

RejectedOn(records) ==
    {s \in suggestions : s.by # None /\ s.records \cap records # {}}

Matching(ask) == {s \in suggestions : s.type = ask.type /\ s.records = ask.records}
AnyOf(rows) == IF rows = {} THEN {None} ELSE rows

ReadSuggestions(d) ==
    /\ step[d] = "idle" /\ Admitted
    /\ \E ask \in Asks[situation.asks][d] : \E issue \in issues :
          /\ Acceptable(issue, ask)
          /\ \E s \in AnyOf(Matching(ask)), r \in AnyOf(RejectedOn(ask.records)) :
                local' = [local EXCEPT ![d] = [issue |-> issue, ask |-> ask,
                                               suggestion |-> s, rejected |-> r]]
    /\ step' = [step EXCEPT ![d] = "suggestions"]
    /\ UNCHANGED <<history, transferVars, listVars, suggestions, resolutions>>

Overlapping(records) == {r \in resolutions : r.records \cap records # {}}

\* What lets a request go on to write.
MayReject(l) == l.ask.status = "rejected" /\ l.suggestion # None
MayConfirm(l) == l.ask.status = "confirmed" /\ Candidate(l.ask.type, l.ask.records)
Undecided(l) == Overlapping(l.ask.records) = {} /\ l.rejected = None

\* Anything else is answered as a duplicate of the same decision, or as an error.
ReadResolutions(d) ==
    /\ step[d] = "suggestions"
    /\ step' = [step EXCEPT ![d] =
          IF /\ Undecided(local[d])
             /\ MayReject(local[d]) \/ MayConfirm(local[d]) THEN "decided" ELSE "done"]
    /\ UNCHANGED <<history, transferVars, listVars, suggestions, resolutions, local>>

\* The suggestion is written whatever it has become since it was read.
Reject(d) ==
    /\ step[d] = "decided" /\ local[d].ask.status = "rejected"
    /\ \E l \in {local[d]} :
          suggestions' = {IF SameKey(s, l.suggestion) THEN [s EXCEPT !.by = l.ask.by]
                          ELSE s : s \in suggestions}
    /\ step' = [step EXCEPT ![d] = "done"]
    /\ UNCHANGED <<history, transferVars, listVars, resolutions, local>>

\* MUTANT of ResolutionFree: one resolution for each issue, but not for each record.
IssueFree(r) == \A s \in resolutions : s.issue # r.issue

\* The unique keys: one resolution for each issue, and for each record.
ResolutionFree(r) ==
    \A s \in resolutions : s.issue # r.issue /\ s.records \cap r.records = {}

Confirm(d) ==
    /\ step[d] = "decided" /\ local[d].ask.status = "confirmed"
    /\ \E l \in {local[d]} :
       \E r \in {Resolution(l.issue, l.ask.type, l.ask.records, l.ask.by)} :
          resolutions' = IF ResolutionFree(r) THEN resolutions \cup {r} ELSE resolutions
    /\ step' = [step EXCEPT ![d] = "done"]
    /\ UNCHANGED <<history, transferVars, listVars, suggestions, local>>

Next ==
    \/ TransferNext /\ UNCHANGED <<listVars, reviewVars>>
    \/ ListNext /\ UNCHANGED reviewVars
    \/ \E g \in Generators : ReadForSuggestions(g) \/ CommitSuggestions(g)
    \/ \E d \in Deciders : \/ ReadSuggestions(d) \/ ReadResolutions(d)
                           \/ Reject(d) \/ Confirm(d)

Spec == Init /\ [][Next]_vars

-----------------------------------------------------------------------------
(* Properties.                                                             *)

\* A record has at most one confirmed meaning, whichever of its issues and of the
\* other leg's the requests name, and a delisting keeps both its legs.
ConfirmedOnce ==
    \A r \in resolutions :
        /\ Candidate(r.type, r.records)
        /\ \A s \in resolutions \ {r} : r.records \cap s.records = {}

\* What is rejected is not confirmed by a later request, nor the other way round, not
\* even as part of another pair or for a suggestion a later run gave rise to.
\* Requests that overlap in time may do both.
RejectedNotConfirmed ==
    ~situation.overlap =>
        \A s \in suggestions : \A r \in resolutions :
            s.by # None => s.records \cap r.records = {}
=============================================================================
