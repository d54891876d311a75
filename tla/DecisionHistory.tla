--------------------------- MODULE DecisionHistory ---------------------------
(***************************************************************************)
(* What the tables valuation_decisions and valuation_requirements promise  *)
(* to the tax calculation: the decisions on a requirement form one         *)
(* history, to which a valuation run adds at the end.  A method version    *)
(* decides a requirement at most once, an earlier decision is neither      *)
(* changed nor removed, and the newest one is the effective one.           *)
(***************************************************************************)
EXTENDS Integers, FiniteSets

CONSTANTS Requirements, Methods, Runs

VARIABLE history   \* the decisions on each requirement

Entry == [version : Nat \ {0}, method : Methods, by : Runs]

HistoryInit == history = [r \in Requirements |-> {}]

\* A requirement stays as it is, or is decided by a method that has not decided it.
Decided(r, m, v) ==
    /\ \A h \in history[r] : h.method # m /\ h.by # v
    /\ history'[r] = history[r] \cup
           {[version |-> Cardinality(history[r]) + 1, method |-> m, by |-> v]}

\* One run decides some of the requirements, all by one method.
HistoryNext ==
    \E m \in Methods, v \in Runs :
        /\ history' \in [Requirements -> SUBSET Entry]
        /\ \A r \in Requirements : history'[r] = history[r] \/ Decided(r, m, v)

HistorySpec == HistoryInit /\ [][HistoryNext]_history
=============================================================================
