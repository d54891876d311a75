--------------------------- MODULE TaxRunsProofs ---------------------------
(***************************************************************************)
(* Proofs about TaxRuns for any number of calculations, reviewers, rewards *)
(* and rule versions: its types, the chain of review decisions, the chain  *)
(* of superseded runs, and what an answer rests on.  Then about TaxExports *)
(* beside them: what is exported leaves the runs alone, a registered file  *)
(* exists, and no export shows figures older than the run it is for.       *)
(***************************************************************************)
EXTENDS TaxExports, TLAPS

USE TaxAssumption

-----------------------------------------------------------------------------
(* The review decisions.                                                   *)

\* The versions of a valuation's decisions begin with 1 and leave none out.
VersionsUnbroken ==
    \A d \in decisions :
        /\ d.version >= 1
        /\ \A n \in 1 .. d.version : \E e \in Of(d.object, d.valuation) : e.version = n

\* There is always a highest version.
LatestExists ==
    \A o \in Objects, v \in Nat : Of(o, v) # {} => Latest(o, v) # {}

Continues(d) ==
    IF d.version = 1 THEN d.supersedes = None
    ELSE \E e \in Of(d.object, d.valuation) : e.version = d.version - 1 /\ e.by = d.supersedes

\* What a reviewer is about to write continues a chain, one per valuation.
DraftsContinue ==
    \A r \in Reviewers :
        /\ \A t, u \in review[r].targets : t.object = u.object => t = u
        /\ \A d \in review[r].drafts : d.version >= 1 /\ Continues(d)
        /\ \A d, e \in review[r].drafts : d.object = e.object => d = e

HistoryInv ==
    /\ ConsistentHistory
    /\ VersionsUnbroken
    /\ LatestExists
    /\ DraftsContinue

\* The effective version is the highest one.
LEMMA EffectiveIsLatest ==
    ASSUME TypeOK, LatestExists, NEW o \in Objects, NEW v \in Nat
    PROVE  /\ EffectiveVersion(o, v) \in Nat
           /\ Of(o, v) = {} => EffectiveVersion(o, v) = 0
           /\ Of(o, v) # {} =>
                 LET l == CHOOSE d \in Latest(o, v) : TRUE
                 IN  l \in Of(o, v) /\ EffectiveVersion(o, v) = l.version
           /\ \A d \in Of(o, v) : d.version <= EffectiveVersion(o, v)
  <1> DEFINE l == CHOOSE d \in Latest(o, v) : TRUE
  <1>1. CASE Of(o, v) = {}
    BY <1>1 DEF EffectiveVersion
  <1>2. CASE Of(o, v) # {}
    <2>1. l \in Latest(o, v)
      BY <1>2 DEF LatestExists
    <2>2. l \in Of(o, v) /\ \A e \in Of(o, v) : e.version <= l.version
      BY <2>1 DEF Latest
    <2>3. EffectiveVersion(o, v) = l.version
      BY <1>2 DEF EffectiveVersion
    <2>4. l.version \in Nat
      BY <2>2 DEF TypeOK, Of, Decision
    <2> QED  BY <1>2, <2>2, <2>3, <2>4
  <1> QED  BY <1>1, <1>2

\* A draft is a row of the table that continues the chain of its valuation.
LEMMA DraftFollows ==
    ASSUME TypeOK, LatestExists, VersionsUnbroken, NEW r \in Reviewers, NEW t \in Case
    PROVE  /\ Draft(r, t) \in Decision
           /\ Draft(r, t).version >= 1
           /\ Continues(Draft(r, t))
  <1> DEFINE o == t.object
             v == t.valuation
             d == Draft(r, t)
  <1>1. o \in Objects /\ v \in Nat
    BY DEF Case
  <1>2. /\ d.by = r /\ d.object = o /\ d.valuation = v
        /\ d.version = EffectiveVersion(o, v) + 1
    BY DEF Draft
  <1>3. CASE Of(o, v) = {}
    <2>1. EffectiveVersion(o, v) = 0 /\ d.supersedes = None
      BY <1>1, <1>3, EffectiveIsLatest DEF Draft
    <2>2. d = [by |-> r, object |-> o, valuation |-> v, version |-> 1, supersedes |-> None]
      BY <1>2, <2>1, <1>3 DEF Draft
    <2> QED  BY <1>1, <2>2 DEF Decision, Continues
  <1>4. CASE Of(o, v) # {}
    <2> DEFINE l == CHOOSE x \in Latest(o, v) : TRUE
    <2>1. l \in Of(o, v) /\ EffectiveVersion(o, v) = l.version
      BY <1>1, <1>4, EffectiveIsLatest
    <2>2. l \in decisions /\ l \in Decision /\ l.version >= 1 /\ l.version \in Nat
      BY <2>1 DEF TypeOK, Of, VersionsUnbroken, Decision
    <2>3. d = [by |-> r, object |-> o, valuation |-> v, version |-> l.version + 1,
               supersedes |-> l.by]
      BY <1>4, <2>1 DEF Draft
    <2>4. l.by \in Reviewers
      BY <2>2 DEF Decision
    <2>5. d \in Decision
      BY <1>1, <2>2, <2>3, <2>4 DEF Decision
    <2>6. d.version = l.version + 1 /\ d.supersedes = l.by
      BY <2>3
    <2>7. d.version >= 1 /\ d.version # 1
      BY <2>2, <2>6
    <2> HIDE DEF l, d
    <2>8. l \in Of(d.object, d.valuation) /\ l.version = d.version - 1 /\ l.by = d.supersedes
      BY <1>2, <2>1, <2>2, <2>6
    <2>9. Continues(d)
      BY <2>7, <2>8 DEF Continues
    <2> QED  BY <2>5, <2>7, <2>9 DEF d
  <1> QED  BY <1>3, <1>4

-----------------------------------------------------------------------------
(* Types.                                                                  *)

LEMMA InitialRecords ==
    /\ Nothing \in Snapshot /\ NoRun \in Run /\ NoCalc \in Calc /\ NoReview \in Review
  <1>1. Nothing \in Snapshot
    BY DEF Nothing, Snapshot, Evidence
  <1> QED  BY <1>1 DEF NoRun, Run, NoCalc, Calc, NoReview, Review

LEMMA EvidenceRead ==
    ASSUME TypeOK, LatestExists
    PROVE  /\ \A o \in Objects : Valued(o) \in Nat
           /\ CurrentEvidence \in Snapshot
           /\ [o \in Objects |-> [valuation |-> Valued(o), review |-> 0]] \in Snapshot
  <1>1. \A o \in Objects : Valued(o) \in Nat
    BY DEF TypeOK, Valued
  <1>2. \A o \in Objects : EffectiveVersion(o, Valued(o)) \in Nat
    BY <1>1, EffectiveIsLatest
  <1>3. \A o \in Objects : [valuation |-> Valued(o), review |-> EffectiveVersion(o, Valued(o))]
                                \in Evidence
    BY <1>1, <1>2 DEF Evidence
  <1>4. \A o \in Objects : [valuation |-> Valued(o), review |-> 0] \in Evidence
    BY <1>1 DEF Evidence
  <1> QED  BY <1>1, <1>3, <1>4 DEF CurrentEvidence, Snapshot

LEMMA RespondType ==
    ASSUME TypeOK, NEW c \in Calculations, NEW run \in Calculations \cup {None}, Respond(c, run)
    PROVE  /\ pc' \in [Calculations -> CalcSteps]
           /\ answer' \in [Calculations -> Calculations \cup {None}]
           /\ calc' \in [Calculations -> Calc]
  <1>1. pc' \in [Calculations -> CalcSteps] /\ answer' \in [Calculations -> Calculations \cup {None}]
    BY DEF TypeOK, Respond, CalcTo, CalcSteps
  <1>2. calc[c] \in Calc /\ NoCalc \in Calc
    BY InitialRecords DEF TypeOK
  <1>3. [calc[c] EXCEPT !.startedAt = 0, !.previous = None] \in Calc
    BY <1>2 DEF Calc
  <1>4. calc' \in [Calculations -> Calc]
    BY <1>2, <1>3 DEF TypeOK, Respond
  <1> QED  BY <1>1, <1>4

LEMMA ReviewEndsType ==
    ASSUME TypeOK, NEW r \in Reviewers, ReviewEnds(r)
    PROVE  rpc' \in [Reviewers -> ReviewSteps] /\ review' \in [Reviewers -> Review]
  BY InitialRecords DEF TypeOK, ReviewEnds, ReviewTo, ReviewSteps

LEMMA TypeInit == Init => TypeOK
  BY InitialRecords DEF Init, TypeOK, CalcSteps, ReviewSteps

LEMMA TypeCalculate ==
    ASSUME TypeOK, LatestExists, NEW c \in Calculations, Calculate(c)
    PROVE  TypeOK'
  <1>0. calc[c] \in Calc /\ calc[c].snapshot \in Snapshot
    BY DEF TypeOK, Calc
  <1>1. ASSUME NEW rules \in Rules, ReadValuations(c, rules)
        PROVE  TypeOK'
    <2> DEFINE seen == [o \in Objects |-> [valuation |-> Valued(o), review |-> 0]]
    <2>1. seen \in Snapshot /\ CurrentEvidence \in Snapshot
      BY EvidenceRead
    <2> HIDE DEF seen
    <2>2. [calc[c] EXCEPT !.rules = rules, !.asked = CurrentEvidence, !.snapshot = seen] \in Calc
      BY <1>0, <2>1 DEF Calc
    <2>3. calc' = [calc EXCEPT ![c] =
             [calc[c] EXCEPT !.rules = rules, !.asked = CurrentEvidence, !.snapshot = seen]]
      BY <1>1 DEF ReadValuations, seen
    <2>4. calc' \in [Calculations -> Calc]
      BY <2>2, <2>3 DEF TypeOK
    <2> QED  BY <1>1, <2>4 DEF ReadValuations, CalcTo, TypeOK, CalcSteps
  <1>2. CASE ReadReviews(c)
    <2> DEFINE seen == [o \in Objects |->
                   LET v == calc[c].snapshot[o].valuation
                   IN  [valuation |-> v, review |-> EffectiveVersion(o, v)]]
    <2>1. CASE ConsistentHistory
      <3>1. \A o \in Objects : calc[c].snapshot[o].valuation \in Nat
        BY <1>0 DEF Snapshot, Evidence
      <3>2. \A o \in Objects : EffectiveVersion(o, calc[c].snapshot[o].valuation) \in Nat
        BY <3>1, EffectiveIsLatest
      <3>3. \A o \in Objects : seen[o] \in Evidence
        BY <3>1, <3>2 DEF Evidence
      <3>4. seen \in Snapshot
        BY <3>3 DEF Snapshot
      <3>5. calc' = [calc EXCEPT ![c] = [calc[c] EXCEPT !.snapshot = seen]]
        BY <1>2, <2>1 DEF ReadReviews
      <3> HIDE DEF seen
      <3>6. calc' \in [Calculations -> Calc]
        BY <1>0, <3>4, <3>5 DEF TypeOK, Calc
      <3> QED  BY <1>2, <2>1, <3>6 DEF ReadReviews, CalcTo, TypeOK, CalcSteps
    <2>2. CASE ~ConsistentHistory
      <3>1. Respond(c, None)
        BY <1>2, <2>2 DEF ReadReviews
      <3> QED  BY <1>2, <3>1, RespondType DEF ReadReviews, TypeOK
    <2> QED  BY <2>1, <2>2
  <1>3. CASE FindIdentical(c)
    <2>1. ASSUME NEW r \in Current, Respond(c, r)
          PROVE  TypeOK'
      <3>1. r \in Calculations
        BY DEF Current
      <3> QED  BY <1>3, <2>1, <3>1, RespondType DEF FindIdentical, TypeOK
    <2>2. CASE CalcTo(c, "choosing") /\ UNCHANGED <<calc, answer>>
      BY <1>3, <2>2 DEF FindIdentical, CalcTo, TypeOK, CalcSteps
    <2> QED  BY <1>3, <2>1, <2>2 DEF FindIdentical
  <1>4. CASE ChoosePrevious(c)
    <2>1. clock \in Nat /\ clock' = clock + 1
      BY <1>4 DEF ChoosePrevious, TypeOK
    <2>2. calc' \in [Calculations -> Calc]
      <3>1. ASSUME NEW p \in LatestOf(Current),
                   calc' = [calc EXCEPT ![c].previous = p, ![c].startedAt = clock]
            PROVE  calc' \in [Calculations -> Calc]
        <4>1. p \in Calculations
          BY DEF LatestOf, Current
        <4> QED  BY <1>0, <2>1, <3>1, <4>1 DEF TypeOK, Calc
      <3>2. ASSUME calc' = [calc EXCEPT ![c].startedAt = clock]
            PROVE  calc' \in [Calculations -> Calc]
        BY <1>0, <2>1, <3>2 DEF TypeOK, Calc
      <3> QED  BY <1>4, <3>1, <3>2 DEF ChoosePrevious
    <2>3. pc' \in [Calculations -> CalcSteps]
      BY <1>4 DEF ChoosePrevious, CalcTo, TypeOK, CalcSteps
    <2>4. UNCHANGED <<valuation, unresolved, runs, cases, decisions, answer, rpc, review>>
      BY <1>4 DEF ChoosePrevious
    <2> QED  BY <2>1, <2>2, <2>3, <2>4 DEF TypeOK
  <1>5. CASE CommitRun(c)
    <2>1. NewRun(c) \in Run
      BY <1>0 DEF NewRun, Run, Calc
    <2>2. \A r \in Calculations : Superseded(runs[r]) \in Run
      BY DEF TypeOK, Superseded, Run
    <2>3. runs' \in [Calculations -> Run]
      BY <1>5, <2>1, <2>2 DEF CommitRun, TypeOK
    <2>4. OpenCases(c) \subseteq Case
      BY <1>0 DEF OpenCases, Case, Snapshot, Evidence
    <2> QED  BY <1>5, <2>3, <2>4, RespondType DEF CommitRun, TypeOK
  <1>6. CASE RunRefused(c)
    BY <1>6, RespondType DEF RunRefused, TypeOK
  <1>7. CASE CalculationFails(c)
    BY <1>7, RespondType DEF CalculationFails, TypeOK
  <1> QED  BY <1>1, <1>2, <1>3, <1>4, <1>5, <1>6, <1>7 DEF Calculate

LEMMA TypeDecide ==
    ASSUME TypeOK, LatestExists, VersionsUnbroken, NEW r \in Reviewers, Decide(r)
    PROVE  TypeOK'
  <1>0. review[r] \in Review /\ review[r].targets \subseteq Case
    BY DEF TypeOK, Review
  <1>1. ASSUME NEW targets \in SUBSET cases \ {{}}, ValidateCases(r, targets)
        PROVE  TypeOK'
    <2>1. targets \subseteq Case
      BY DEF TypeOK
    <2>2. CASE Decidable(targets)
      <3>1. review' = [review EXCEPT ![r].targets = targets]
        BY <1>1, <2>2 DEF ValidateCases
      <3>2. review' \in [Reviewers -> Review]
        BY <1>0, <2>1, <3>1 DEF TypeOK, Review
      <3> QED  BY <1>1, <2>2, <3>2 DEF ValidateCases, ReviewTo, TypeOK, ReviewSteps
    <2>3. CASE ~Decidable(targets)
      BY <1>1, <2>3, ReviewEndsType DEF ValidateCases, TypeOK
    <2> QED  BY <2>2, <2>3
  <1>2. CASE ReadEffective(r)
    <2>1. CASE ConsistentHistory
      <3> DEFINE drafts == {Draft(r, t) : t \in review[r].targets}
      <3>1. drafts \subseteq Decision
        BY <1>0, DraftFollows
      <3>2. review' = [review EXCEPT ![r].drafts = drafts]
        BY <1>2, <2>1 DEF ReadEffective
      <3> HIDE DEF drafts
      <3>3. review' \in [Reviewers -> Review]
        BY <1>0, <3>1, <3>2 DEF TypeOK, Review
      <3> QED  BY <1>2, <2>1, <3>3 DEF ReadEffective, ReviewTo, TypeOK, ReviewSteps
    <2>2. CASE ~ConsistentHistory
      BY <1>2, <2>2, ReviewEndsType DEF ReadEffective, TypeOK
    <2> QED  BY <2>1, <2>2
  <1>3. CASE CommitDecisions(r)
    <2>1. decisions' \subseteq Decision
      BY <1>0, <1>3 DEF CommitDecisions, TypeOK, Review
    <2> QED  BY <1>3, <2>1, ReviewEndsType DEF CommitDecisions, TypeOK
  <1>4. CASE DecisionsRefused(r)
    BY <1>4, ReviewEndsType DEF DecisionsRefused, TypeOK
  <1>5. CASE ReviewFails(r)
    BY <1>5, ReviewEndsType DEF ReviewFails, TypeOK
  <1> QED  BY <1>1, <1>2, <1>3, <1>4, <1>5 DEF Decide

LEMMA TypeNext ==
    ASSUME TypeOK, LatestExists, VersionsUnbroken, [Next]_vars
    PROVE  TypeOK'
  <1>1. ASSUME NEW o \in Objects, Revalue(o)
        PROVE  TypeOK'
    <2>1. valuation' \in [Objects -> Nat] /\ unresolved' \subseteq Objects
      BY <1>1 DEF Revalue, TypeOK
    <2> QED  BY <1>1, <2>1 DEF Revalue, TypeOK
  <1>2. CASE UNCHANGED vars
    BY <1>2 DEF vars, TypeOK
  <1> QED  BY <1>1, <1>2, TypeCalculate, TypeDecide DEF Next
-----------------------------------------------------------------------------
(* The chain of decisions.                                                 *)

LEMMA HistoryInit == Init => HistoryInv
  BY DEF Init, HistoryInv, ConsistentHistory, VersionsUnbroken, LatestExists, DraftsContinue,
         NoReview, Of

\* Of what a reviewer is about to commit, every version is above all versions
\* its chain has: a chain leaves out no version below its highest.
LEMMA DraftsAreNewest ==
    ASSUME TypeOK, HistoryInv, NEW r \in Reviewers, CommitDecisions(r),
           NEW d \in review[r].drafts, NEW e \in Of(d.object, d.valuation)
    PROVE  e.version < d.version
  <1>1. d \in Decision /\ e \in Decision /\ d.version \in Nat /\ e.version \in Nat
    BY DEF TypeOK, Review, Of, Decision
  <1>2. d.version >= 1
    BY DEF HistoryInv, DraftsContinue
  <1>3. ~VersionTaken(d)
    BY DEF CommitDecisions
  <1>4. SUFFICES ASSUME e.version >= d.version PROVE FALSE
    BY <1>1
  <1>5. e \in decisions /\ e.object = d.object /\ e.valuation = d.valuation
    BY DEF Of
  <1>6. d.version \in 1 .. e.version
    BY <1>1, <1>2, <1>4
  <1>7. \E f \in Of(d.object, d.valuation) : f.version = d.version
    BY <1>5, <1>6 DEF HistoryInv, VersionsUnbroken
  <1> QED  BY <1>3, <1>7 DEF VersionTaken

LEMMA CommitKeepsHistory ==
    ASSUME TypeOK, HistoryInv, NEW r \in Reviewers, CommitDecisions(r)
    PROVE  HistoryInv'
  <1> DEFINE new == review[r].drafts
  <1>0. decisions' = decisions \cup new /\ new \subseteq Decision /\ decisions \subseteq Decision
    BY DEF CommitDecisions, TypeOK, Review
  <1>1. \A o, v : /\ Of(o, v) \subseteq Of(o, v)'
                  /\ \A d \in Of(o, v)' : d \in Of(o, v) \/ d \in new
    BY <1>0 DEF Of
  <1>2. \A d \in new : \A e \in Of(d.object, d.valuation) : e.version < d.version
    BY DraftsAreNewest
  <1>3. /\ \A d \in new : d.version >= 1 /\ Continues(d)
        /\ \A d, e \in new : d.object = e.object => d = e
    BY DEF HistoryInv, DraftsContinue
  <1>4. \A d \in decisions : Continues(d)
    BY DEF HistoryInv, ConsistentHistory, Continues
  <1>5. \A d : Continues(d) => Continues(d)'
    BY <1>1 DEF Continues
  <1>6. \A d \in decisions' : d.version \in Nat
    BY <1>0 DEF Decision
  <1> HIDE DEF new
  <1>7. ConsistentHistory'
    <2>1. ASSUME NEW d \in decisions', NEW e \in Of(d.object, d.valuation)', e.version = d.version
          PROVE  e = d
      <3>1. e \in decisions' /\ e.object = d.object /\ e.valuation = d.valuation
        BY DEF Of
      <3>2. CASE d \in new /\ e \in new
        BY <1>3, <3>1, <3>2
      <3>3. CASE d \in decisions /\ e \in decisions
        BY <2>1, <3>1, <3>3 DEF HistoryInv, ConsistentHistory, Of
      <3>4. CASE d \in new /\ e \in decisions
        <4>1. e.version < d.version
          BY <1>2, <3>1, <3>4 DEF Of
        <4> QED  BY <1>6, <2>1, <3>1, <4>1
      <3>5. CASE d \in decisions /\ e \in new
        <4>1. d.version < e.version
          BY <1>2, <3>1, <3>5 DEF Of
        <4> QED  BY <1>6, <2>1, <3>1, <4>1
      <3> QED  BY <1>0, <3>1, <3>2, <3>3, <3>4, <3>5
    <2>2. \A d \in decisions' : Continues(d)'
      BY <1>0, <1>3, <1>4, <1>5
    <2> QED  BY <2>1, <2>2 DEF ConsistentHistory, Continues
  <1>8. VersionsUnbroken'
    <2>1. ASSUME NEW d \in decisions
          PROVE  /\ d.version >= 1
                 /\ \A n \in 1 .. d.version : \E e \in Of(d.object, d.valuation)' : e.version = n
      BY <1>1 DEF HistoryInv, VersionsUnbroken
    <2>2. ASSUME NEW d \in new, NEW n \in 1 .. d.version
          PROVE  \E e \in Of(d.object, d.valuation)' : e.version = n
      <3>1. d \in Of(d.object, d.valuation)' /\ d.version \in Nat
        BY <1>0, <1>6 DEF Of
      <3>2. CASE n = d.version
        BY <3>1, <3>2
      <3>3. CASE n # d.version
        <4>1. d.version # 1 /\ n <= d.version - 1 /\ n >= 1
          BY <3>1, <3>3
        <4>2. PICK e \in Of(d.object, d.valuation) : e.version = d.version - 1
          BY <1>3, <4>1 DEF Continues
        <4>3. e \in decisions /\ e.object = d.object /\ e.valuation = d.valuation
          BY DEF Of
        <4>4. n \in 1 .. e.version
          BY <4>1, <4>2
        <4> QED  BY <2>1, <4>3, <4>4
      <3> QED  BY <3>2, <3>3
    <2> QED  BY <1>0, <1>3, <2>1, <2>2 DEF VersionsUnbroken
  <1>9. LatestExists'
    <2>1. SUFFICES ASSUME NEW o \in Objects, NEW v \in Nat, Of(o, v)' # {}
                   PROVE  Latest(o, v)' # {}
      BY DEF LatestExists
    <2>2. CASE \E d \in new : d.object = o /\ d.valuation = v
      <3>1. PICK d \in new : d.object = o /\ d.valuation = v
        BY <2>2
      <3>2. d \in Of(o, v)' /\ d.version \in Nat
        BY <1>0, <1>6, <3>1 DEF Of
      <3>3. \A e \in Of(o, v)' : e.version <= d.version
        <4>1. SUFFICES ASSUME NEW e \in Of(o, v)' PROVE e.version <= d.version
          OBVIOUS
        <4>2. CASE e \in new
          BY <1>3, <3>1, <3>2, <4>2 DEF Of
        <4>3. CASE e \in Of(o, v)
          <5>1. e.version < d.version
            BY <1>2, <3>1, <4>3
          <5>2. e.version \in Nat
            BY <1>6 DEF Of
          <5> QED  BY <3>2, <5>1, <5>2
        <4> QED  BY <1>1, <4>2, <4>3
      <3> QED  BY <3>2, <3>3 DEF Latest
    <2>3. CASE ~ \E d \in new : d.object = o /\ d.valuation = v
      <3>1. Of(o, v)' = Of(o, v)
        BY <1>0, <2>3 DEF Of
      <3>2. PICK l \in Latest(o, v) : TRUE
        BY <2>1, <3>1 DEF HistoryInv, LatestExists
      <3> QED  BY <3>1, <3>2 DEF Latest
    <2> QED  BY <2>2, <2>3
  <1>10. DraftsContinue'
    <2>1. \A q \in Reviewers : review'[q] = review[q] \/ review'[q] = NoReview
      BY DEF CommitDecisions, ReviewEnds, TypeOK
    <2> QED  BY <1>5, <2>1 DEF HistoryInv, DraftsContinue, NoReview
  <1> QED  BY <1>7, <1>8, <1>9, <1>10 DEF HistoryInv

\* Everything else leaves the decisions alone.
LEMMA HistoryFrame ==
    ASSUME HistoryInv, UNCHANGED decisions, DraftsContinue'
    PROVE  HistoryInv'
  <1>1. \A o, v : Of(o, v)' = Of(o, v)
    BY DEF Of
  <1> QED  BY <1>1 DEF HistoryInv, ConsistentHistory, VersionsUnbroken, LatestExists, Latest

LEMMA DraftsFrame ==
    ASSUME HistoryInv, UNCHANGED decisions,
           \A q \in Reviewers : review'[q] = review[q] \/ review'[q] = NoReview
    PROVE  DraftsContinue'
  <1>1. \A d : Continues(d)' <=> Continues(d)
    BY DEF Continues, Of
  <1> QED  BY <1>1 DEF HistoryInv, DraftsContinue, NoReview

LEMMA HistoryDecide ==
    ASSUME TypeOK, HistoryInv, NEW r \in Reviewers, Decide(r)
    PROVE  HistoryInv'
  <1>0. ASSUME ReviewEnds(r)
        PROVE  \A q \in Reviewers : review'[q] = review[q] \/ review'[q] = NoReview
    BY <1>0 DEF ReviewEnds, TypeOK
  <1>1. ASSUME NEW targets \in SUBSET cases \ {{}}, ValidateCases(r, targets)
        PROVE  HistoryInv'
    <2>1. UNCHANGED decisions
      BY <1>1 DEF ValidateCases
    <2>2. CASE Decidable(targets)
      <3>1. /\ review'[r].targets = targets /\ review'[r].drafts = review[r].drafts
            /\ \A q \in Reviewers \ {r} : review'[q] = review[q]
        BY <1>1, <2>2 DEF ValidateCases, TypeOK, Review
      <3>2. \A t, u \in targets : t.object = u.object => t = u
        BY <2>2 DEF Decidable
      <3>3. \A d : Continues(d)' <=> Continues(d)
        BY <2>1 DEF Continues, Of
      <3>4. DraftsContinue'
        BY <3>1, <3>2, <3>3 DEF HistoryInv, DraftsContinue
      <3> QED  BY <2>1, <3>4, HistoryFrame
    <2>3. CASE ~Decidable(targets)
      <3>1. ReviewEnds(r)
        BY <1>1, <2>3 DEF ValidateCases
      <3> QED  BY <1>0, <2>1, <3>1, HistoryFrame, DraftsFrame
    <2> QED  BY <2>2, <2>3
  <1>2. CASE ReadEffective(r)
    <2>1. UNCHANGED decisions
      BY <1>2 DEF ReadEffective
    <2>2. CASE ConsistentHistory
      <3> DEFINE drafts == {Draft(r, t) : t \in review[r].targets}
      <3>1. /\ review'[r].drafts = drafts /\ review'[r].targets = review[r].targets
            /\ \A q \in Reviewers \ {r} : review'[q] = review[q]
        BY <1>2, <2>2 DEF ReadEffective, TypeOK, Review
      <3>2. review[r].targets \subseteq Case
        BY DEF TypeOK, Review
      <3>3. \A d \in drafts : d.version >= 1 /\ Continues(d)
        BY <3>2, DraftFollows DEF HistoryInv
      <3>4. \A t \in review[r].targets : Draft(r, t).object = t.object
        BY DEF Draft
      <3>5. \A d, e \in drafts : d.object = e.object => d = e
        BY <3>4 DEF HistoryInv, DraftsContinue
      <3>6. \A d : Continues(d)' <=> Continues(d)
        BY <2>1 DEF Continues, Of
      <3> HIDE DEF drafts
      <3>7. DraftsContinue'
        BY <3>1, <3>3, <3>5, <3>6 DEF HistoryInv, DraftsContinue
      <3> QED  BY <2>1, <3>7, HistoryFrame
    <2>3. CASE ~ConsistentHistory
      <3>1. ReviewEnds(r)
        BY <1>2, <2>3 DEF ReadEffective
      <3> QED  BY <1>0, <2>1, <3>1, HistoryFrame, DraftsFrame
    <2> QED  BY <2>2, <2>3
  <1>3. CASE CommitDecisions(r)
    BY <1>3, CommitKeepsHistory
  <1>4. CASE DecisionsRefused(r)
    BY <1>0, <1>4, HistoryFrame, DraftsFrame DEF DecisionsRefused
  <1>5. CASE ReviewFails(r)
    BY <1>0, <1>5, HistoryFrame, DraftsFrame DEF ReviewFails
  <1> QED  BY <1>1, <1>2, <1>3, <1>4, <1>5 DEF Decide

LEMMA CalculateLeavesReviews ==
    ASSUME NEW c \in Calculations, Calculate(c)
    PROVE  UNCHANGED <<valuation, unresolved, decisions, rpc, review>>
  BY DEF Calculate, ReadValuations, ReadReviews, FindIdentical, ChoosePrevious, CommitRun,
         RunRefused, CalculationFails

LEMMA HistoryNext ==
    ASSUME TypeOK, HistoryInv, [Next]_vars
    PROVE  HistoryInv'
  <1>1. ASSUME UNCHANGED <<decisions, review>>
        PROVE  HistoryInv'
    BY <1>1, HistoryFrame, DraftsFrame
  <1>2. ASSUME NEW o \in Objects, Revalue(o)
        PROVE  HistoryInv'
    BY <1>1, <1>2 DEF Revalue
  <1>3. CASE UNCHANGED vars
    BY <1>1, <1>3 DEF vars
  <1> QED  BY <1>1, <1>2, <1>3, CalculateLeavesReviews, HistoryDecide DEF Next

LEMMA TypesAndHistory == Spec => [](TypeOK /\ HistoryInv)
  <1>1. Init => TypeOK /\ HistoryInv
    BY TypeInit, HistoryInit
  <1>2. TypeOK /\ HistoryInv /\ [Next]_vars => TypeOK' /\ HistoryInv'
    BY TypeNext, HistoryNext DEF HistoryInv
  <1> QED  BY <1>1, <1>2, PTL DEF Spec

\* What the handlers keep and write has the types the tables declare.
THEOREM TypeCorrect == Spec => []TypeOK
  BY TypesAndHistory, PTL

-----------------------------------------------------------------------------
(* Effective versions only grow.                                           *)

EffectiveIsHighest ==
    \A o \in Objects, v \in Nat :
        /\ EffectiveVersion(o, v) \in Nat
        /\ Of(o, v) = {} => EffectiveVersion(o, v) = 0
        /\ Of(o, v) # {} => \E l \in Of(o, v) : EffectiveVersion(o, v) = l.version
        /\ \A d \in Of(o, v) : d.version <= EffectiveVersion(o, v)

LEMMA HighestInEveryState == TypeOK /\ HistoryInv => EffectiveIsHighest
  <1> SUFFICES ASSUME TypeOK, HistoryInv, NEW o \in Objects, NEW v \in Nat
               PROVE  /\ EffectiveVersion(o, v) \in Nat
                      /\ Of(o, v) = {} => EffectiveVersion(o, v) = 0
                      /\ Of(o, v) # {} => \E l \in Of(o, v) : EffectiveVersion(o, v) = l.version
                      /\ \A d \in Of(o, v) : d.version <= EffectiveVersion(o, v)
    BY DEF EffectiveIsHighest
  <1> QED  BY EffectiveIsLatest DEF HistoryInv

LEMMA DecisionsStay == [Next]_vars => decisions \subseteq decisions'
  <1>1. ASSUME NEW r \in Reviewers, Decide(r)
        PROVE  decisions \subseteq decisions'
    BY <1>1 DEF Decide, ValidateCases, ReadEffective, CommitDecisions, DecisionsRefused, ReviewFails
  <1> QED  BY <1>1, CalculateLeavesReviews DEF Next, Revalue, vars

LEMMA VersionsGrow ==
    ASSUME EffectiveIsHighest, EffectiveIsHighest', [Next]_vars, NEW o \in Objects, NEW v \in Nat
    PROVE  EffectiveVersion(o, v) <= EffectiveVersion(o, v)'
  <1>1. EffectiveVersion(o, v) \in Nat /\ EffectiveVersion(o, v)' \in Nat
    BY DEF EffectiveIsHighest
  <1>2. Of(o, v) \subseteq Of(o, v)'
    BY DecisionsStay DEF Of
  <1>3. \A d \in Of(o, v)' : d.version <= EffectiveVersion(o, v)'
    BY DEF EffectiveIsHighest
  <1>4. CASE Of(o, v) = {}
    BY <1>1, <1>4 DEF EffectiveIsHighest
  <1>5. CASE Of(o, v) # {}
    <2>1. PICK l \in Of(o, v) : EffectiveVersion(o, v) = l.version
      BY <1>5 DEF EffectiveIsHighest
    <2> QED  BY <1>2, <1>3, <2>1
  <1> QED  BY <1>4, <1>5

-----------------------------------------------------------------------------
(* Runs: who supersedes whom, and what an answer rests on.                 *)

\* A calculation writes its row with its last step.
WrittenLast == \A c \in Calculations : pc[c] # "done" => runs[c].status = "none"

\* A chosen predecessor is a row that started earlier.
PredecessorChosen ==
    \A c \in Calculations :
        /\ pc[c] = "committing" => calc[c].startedAt < clock
        /\ calc[c].previous # None =>
              /\ pc[c] = "committing"
              /\ calc[c].previous \in Inserted
              /\ runs[calc[c].previous].startedAt < calc[c].startedAt

\* So is the predecessor of a row.
PredecessorOlder ==
    \A s \in Inserted :
        /\ runs[s].startedAt < clock
        /\ runs[s].supersedes # None =>
              /\ runs[s].supersedes \in Inserted
              /\ runs[runs[s].supersedes].startedAt < runs[s].startedAt

SupersededNamed ==
    \A p \in Calculations :
        runs[p].status = "superseded" <=> \E s \in Inserted : runs[s].supersedes = p

ChainInv == WrittenLast /\ PredecessorChosen /\ PredecessorOlder /\ SupersededNamed

LEMMA RespondEffect ==
    ASSUME TypeOK, NEW c \in Calculations, NEW run, Respond(c, run)
    PROVE  /\ pc'[c] = "done" /\ calc'[c].previous = None /\ answer'[c] = run
           /\ \A q \in Calculations \ {c} :
                 pc'[q] = pc[q] /\ calc'[q] = calc[q] /\ answer'[q] = answer[q]
  BY DEF Respond, CalcTo, TypeOK, Calc, NoCalc

LEMMA ChainInit == Init => ChainInv
  BY DEF Init, ChainInv, WrittenLast, PredecessorChosen, PredecessorOlder, SupersededNamed,
         Inserted, NoRun, NoCalc

\* A step that writes no row, and neither starts nor chooses.
LEMMA ChainFrame ==
    ASSUME TypeOK, TypeOK', ChainInv, UNCHANGED <<runs, clock>>,
           \A q \in Calculations :
               \/ pc'[q] = "done" /\ calc'[q].previous = None
               \/ /\ calc'[q].previous = calc[q].previous
                  /\ calc'[q].startedAt = calc[q].startedAt
                  /\ pc[q] = pc'[q] \/ (pc[q] # "done" /\ pc[q] # "committing" /\ pc'[q] # "committing")
    PROVE  ChainInv'
  <1>1. Inserted' = Inserted
    BY DEF Inserted
  <1>2. WrittenLast'
    BY DEF ChainInv, WrittenLast
  <1>3. PredecessorChosen'
    BY <1>1 DEF ChainInv, PredecessorChosen
  <1>4. PredecessorOlder' /\ SupersededNamed'
    BY <1>1 DEF ChainInv, PredecessorOlder, SupersededNamed
  <1> QED  BY <1>2, <1>3, <1>4 DEF ChainInv

LEMMA ChainChoose ==
    ASSUME TypeOK, TypeOK', ChainInv, NEW c \in Calculations, ChoosePrevious(c)
    PROVE  ChainInv'
  <1>1. Inserted' = Inserted /\ UNCHANGED runs /\ clock \in Nat /\ clock' = clock + 1
    BY DEF Inserted, ChoosePrevious, TypeOK
  <1>2. /\ pc[c] = "choosing" /\ pc'[c] = "committing"
        /\ \A q \in Calculations \ {c} : pc'[q] = pc[q] /\ calc'[q] = calc[q]
    BY DEF ChoosePrevious, CalcTo, TypeOK
  <1>3. calc'[c].startedAt = clock /\ (calc'[c].previous = None \/ calc'[c].previous \in Current)
    <2>1. calc[c].previous = None
      BY <1>2 DEF ChainInv, PredecessorChosen
    <2>2. ASSUME NEW p \in LatestOf(Current),
                 calc' = [calc EXCEPT ![c].previous = p, ![c].startedAt = clock]
          PROVE  calc'[c].startedAt = clock /\ calc'[c].previous \in Current
      BY <2>2 DEF LatestOf, TypeOK, Calc
    <2>3. ASSUME calc' = [calc EXCEPT ![c].startedAt = clock]
          PROVE  calc'[c].startedAt = clock /\ calc'[c].previous = None
      BY <2>1, <2>3 DEF TypeOK, Calc
    <2> QED  BY <2>2, <2>3 DEF ChoosePrevious
  <1>4. \A s \in Inserted : runs[s].startedAt \in Nat /\ runs[s].startedAt < clock
    BY DEF ChainInv, PredecessorOlder, Inserted, TypeOK, Run
  <1>5. Current \subseteq Inserted
    BY DEF Current, Inserted
  <1>6. WrittenLast'
    BY <1>1, <1>2 DEF ChainInv, WrittenLast
  <1>7. PredecessorChosen'
    <2>1. SUFFICES ASSUME NEW q \in Calculations
                   PROVE  /\ pc'[q] = "committing" => calc'[q].startedAt < clock'
                          /\ calc'[q].previous # None =>
                                /\ pc'[q] = "committing"
                                /\ calc'[q].previous \in Inserted'
                                /\ runs'[calc'[q].previous].startedAt < calc'[q].startedAt
      BY DEF PredecessorChosen
    <2>2. CASE q = c
      BY <1>1, <1>2, <1>3, <1>4, <1>5, <2>2
    <2>3. CASE q # c
      <3>1. calc[q].startedAt \in Nat
        BY DEF TypeOK, Calc
      <3> QED  BY <1>1, <1>2, <2>3, <3>1 DEF ChainInv, PredecessorChosen
    <2> QED  BY <2>2, <2>3
  <1>8. PredecessorOlder' /\ SupersededNamed'
    BY <1>1, <1>4 DEF ChainInv, PredecessorOlder, SupersededNamed
  <1> QED  BY <1>6, <1>7, <1>8 DEF ChainInv

LEMMA ChainCommit ==
    ASSUME TypeOK, TypeOK', ChainInv, NEW c \in Calculations, CommitRun(c)
    PROVE  ChainInv'
  <1> DEFINE p == calc[c].previous
  <1>0. pc[c] = "committing" /\ UNCHANGED clock /\ runs[c].status = "none" /\ c # None
    BY DEF CommitRun, ChainInv, WrittenLast
  <1>1. /\ pc'[c] = "done" /\ calc'[c].previous = None
        /\ \A q \in Calculations \ {c} : pc'[q] = pc[q] /\ calc'[q] = calc[q]
    BY RespondEffect DEF CommitRun
  <1>2. /\ runs'[c].status = "current" /\ runs'[c].startedAt = calc[c].startedAt
        /\ runs'[c].supersedes = p
    BY DEF CommitRun, NewRun
  <1>3. p # None => p \in Inserted /\ p # c /\ runs[p].startedAt < calc[c].startedAt
    BY <1>0 DEF ChainInv, PredecessorChosen, Inserted
  <1>4. \A q \in Calculations \ {c} :
            /\ runs'[q].status = IF q = p THEN "superseded" ELSE runs[q].status
            /\ runs'[q].startedAt = runs[q].startedAt
            /\ runs'[q].supersedes = runs[q].supersedes
    BY DEF CommitRun, Superseded, TypeOK, Run
  <1> HIDE DEF p
  <1>5. Inserted' = Inserted \cup {c} /\ c \notin Inserted
    BY <1>0, <1>2, <1>3, <1>4 DEF Inserted
  <1>6. \A s \in Inserted : s # c /\ s \in Calculations
    BY <1>5 DEF Inserted
  <1>7. WrittenLast'
    BY <1>0, <1>1, <1>2, <1>3, <1>4, <1>6 DEF ChainInv, WrittenLast, Inserted
  <1>8. PredecessorChosen'
    BY <1>0, <1>1, <1>4, <1>5, <1>6 DEF ChainInv, PredecessorChosen
  <1>9. PredecessorOlder'
    <2>1. calc[c].startedAt < clock
      BY <1>0 DEF ChainInv, PredecessorChosen
    <2>2. \A s \in Inserted : /\ runs[s].startedAt < clock
                              /\ runs[s].supersedes # None =>
                                    /\ runs[s].supersedes \in Inserted
                                    /\ runs[runs[s].supersedes].startedAt < runs[s].startedAt
      BY DEF ChainInv, PredecessorOlder
    <2> QED  BY <1>0, <1>2, <1>3, <1>4, <1>5, <1>6, <2>1, <2>2 DEF PredecessorOlder
  <1>10. SupersededNamed'
    <2>1. SUFFICES ASSUME NEW q \in Calculations
                   PROVE  runs'[q].status = "superseded"
                              <=> \E s \in Inserted' : runs'[s].supersedes = q
      BY DEF SupersededNamed
    <2>2. CASE q = c
      <3>1. \A s \in Inserted : runs[s].supersedes # c
        BY <1>0, <1>5 DEF ChainInv, PredecessorOlder
      <3> QED  BY <1>0, <1>2, <1>3, <1>4, <1>5, <1>6, <2>2, <3>1
    <2>3. CASE q # c /\ q = p
      BY <1>2, <1>4, <1>5, <2>3
    <2>4. CASE q # c /\ q # p
      BY <1>2, <1>4, <1>5, <1>6, <2>4 DEF ChainInv, SupersededNamed
    <2> QED  BY <2>2, <2>3, <2>4
  <1> QED  BY <1>7, <1>8, <1>9, <1>10 DEF ChainInv

LEMMA ChainNext ==
    ASSUME TypeOK, TypeOK', ChainInv, [Next]_vars
    PROVE  ChainInv'
  <1>1. ASSUME UNCHANGED <<runs, clock, pc, calc>>
        PROVE  ChainInv'
    BY <1>1, ChainFrame
  <1>2. ASSUME NEW o \in Objects, Revalue(o)
        PROVE  ChainInv'
    BY <1>1, <1>2 DEF Revalue
  <1>3. ASSUME NEW r \in Reviewers, Decide(r)
        PROVE  ChainInv'
    BY <1>1, <1>3 DEF Decide, ValidateCases, ReadEffective, CommitDecisions, DecisionsRefused,
                      ReviewFails
  <1>4. CASE UNCHANGED vars
    BY <1>1, <1>4 DEF vars
  <1>5. ASSUME NEW c \in Calculations, Calculate(c)
        PROVE  ChainInv'
    <2>0. ASSUME NEW run, Respond(c, run), UNCHANGED <<runs, clock>>
          PROVE  ChainInv'
      BY <2>0, RespondEffect, ChainFrame
    <2>1. ASSUME NEW rules \in Rules, ReadValuations(c, rules)
          PROVE  ChainInv'
      <3>1. /\ calc'[c].previous = calc[c].previous /\ calc'[c].startedAt = calc[c].startedAt
            /\ pc[c] = "idle" /\ pc'[c] = "reviews" /\ UNCHANGED <<runs, clock>>
            /\ \A q \in Calculations \ {c} : pc'[q] = pc[q] /\ calc'[q] = calc[q]
        BY <2>1 DEF ReadValuations, CalcTo, TypeOK, Calc
      <3> QED  BY <3>1, ChainFrame
    <2>2. CASE ReadReviews(c)
      <3>1. CASE ConsistentHistory
        <4>1. /\ calc'[c].previous = calc[c].previous /\ calc'[c].startedAt = calc[c].startedAt
              /\ pc[c] = "reviews" /\ pc'[c] = "finding" /\ UNCHANGED <<runs, clock>>
              /\ \A q \in Calculations \ {c} : pc'[q] = pc[q] /\ calc'[q] = calc[q]
          BY <2>2, <3>1 DEF ReadReviews, CalcTo, TypeOK, Calc
        <4> QED  BY <4>1, ChainFrame
      <3>2. CASE ~ConsistentHistory
        BY <2>0, <2>2, <3>2 DEF ReadReviews
      <3> QED  BY <3>1, <3>2
    <2>3. CASE FindIdentical(c)
      <3>1. CASE CalcTo(c, "choosing") /\ UNCHANGED <<calc, answer>>
        <4>1. /\ pc[c] = "finding" /\ pc'[c] = "choosing" /\ UNCHANGED <<runs, clock, calc>>
              /\ \A q \in Calculations \ {c} : pc'[q] = pc[q]
          BY <2>3, <3>1 DEF FindIdentical, CalcTo, TypeOK
        <4> QED  BY <4>1, ChainFrame
      <3>2. CASE \E r \in Current : Respond(c, r)
        BY <2>0, <2>3, <3>2 DEF FindIdentical
      <3> QED  BY <2>3, <3>1, <3>2 DEF FindIdentical
    <2>4. CASE RunRefused(c) \/ CalculationFails(c)
      BY <2>0, <2>4 DEF RunRefused, CalculationFails
    <2> QED  BY <1>5, <2>1, <2>2, <2>3, <2>4, ChainChoose, ChainCommit DEF Calculate
  <1> QED  BY <1>2, <1>3, <1>4, <1>5 DEF Next

LEMMA ChainAlways == Spec => []ChainInv
  <1>1. TypeOK /\ TypeOK' /\ ChainInv /\ [Next]_vars => ChainInv'
    BY ChainNext
  <1> QED  BY <1>1, ChainInit, TypeCorrect, PTL DEF Spec

\* A run is superseded exactly if another run names it as its predecessor, and
\* that run started later (_latest_run and the commit in api/tax.py).
THEOREM SupersededCorrect == Spec => []SupersededBySuccessor
  <1>1. ChainInv => SupersededBySuccessor
    BY DEF ChainInv, SupersededNamed, PredecessorOlder, SupersededBySuccessor
  <1> QED  BY <1>1, ChainAlways, PTL

LEMMA CurrentNext ==
    ASSUME TypeOK, CurrentRunExists, [Next]_vars
    PROVE  CurrentRunExists'
  <1>1. ASSUME UNCHANGED runs
        PROVE  CurrentRunExists'
    BY <1>1 DEF CurrentRunExists, Inserted, Current
  <1>2. ASSUME NEW c \in Calculations, CommitRun(c)
        PROVE  CurrentRunExists'
    <2>1. runs'[c].status = "current"
      BY <1>2 DEF CommitRun, NewRun
    <2> QED  BY <2>1 DEF CurrentRunExists, Current
  <1>3. ASSUME NEW c \in Calculations, Calculate(c)
        PROVE  CurrentRunExists'
    BY <1>1, <1>2, <1>3 DEF Calculate, ReadValuations, ReadReviews, FindIdentical,
                            ChoosePrevious, RunRefused, CalculationFails
  <1>4. ASSUME NEW r \in Reviewers, Decide(r)
        PROVE  CurrentRunExists'
    BY <1>1, <1>4 DEF Decide, ValidateCases, ReadEffective, CommitDecisions, DecisionsRefused,
                      ReviewFails
  <1> QED  BY <1>1, <1>3, <1>4 DEF Next, Revalue, vars

\* Whatever runs supersede each other meanwhile, a year that was calculated
\* once has a current run: the status change and the successor's row are one
\* commit.
THEOREM CurrentRunCorrect == Spec => []CurrentRunExists
  <1>1. Init => CurrentRunExists
    BY DEF Init, CurrentRunExists, Inserted, NoRun
  <1>2. TypeOK /\ CurrentRunExists /\ [Next]_vars => CurrentRunExists'
    BY CurrentNext
  <1> QED  BY <1>1, <1>2, TypeCorrect, PTL DEF Spec

-----------------------------------------------------------------------------
(* What a calculation has read is never ahead of what is decided, and      *)
(* covers what was decided when its request came.                          *)

NotAhead ==
    \A c \in Calculations, o \in Objects :
        calc[c].snapshot[o].review <= EffectiveVersion(o, calc[c].snapshot[o].valuation)

Covers(snapshot, asked) ==
    \A o \in Objects : /\ snapshot[o].valuation = asked[o].valuation
                       /\ snapshot[o].review >= asked[o].review

AskedIsDecided ==
    \A c \in Calculations : pc[c] = "reviews" =>
        \A o \in Objects :
            /\ calc[c].snapshot[o].valuation = calc[c].asked[o].valuation
            /\ calc[c].asked[o].review <= EffectiveVersion(o, calc[c].asked[o].valuation)

SnapshotCovers ==
    \A c \in Calculations : pc[c] \in {"finding", "choosing", "committing"} =>
        Covers(calc[c].snapshot, calc[c].asked)

AnswerCovers ==
    \A c \in Calculations : answer[c] # None =>
        /\ pc[c] = "done"
        /\ answer[c] \in Inserted
        /\ Covers(runs[answer[c]].snapshot, calc[c].asked)

EvidenceInv == NotAhead /\ AskedIsDecided /\ SnapshotCovers /\ AnswerCovers

LEMMA EvidenceInit == Init => EvidenceInv
  <1> SUFFICES ASSUME Init PROVE EvidenceInv
    OBVIOUS
  <1>1. \A o \in Objects : EffectiveVersion(o, 0) = 0
    BY DEF Init, EffectiveVersion, Of
  <1>2. \A o \in Objects : Nothing[o].review = 0 /\ Nothing[o].valuation = 0
    BY DEF Nothing
  <1>3. NotAhead
    BY <1>1, <1>2 DEF Init, NotAhead, NoCalc
  <1> QED  BY <1>3 DEF Init, EvidenceInv, AskedIsDecided, SnapshotCovers, AnswerCovers

\* Rows are never removed, and keep their snapshot.
LEMMA RowsStay ==
    ASSUME TypeOK, ChainInv, [Next]_vars, NEW s \in Inserted
    PROVE  s \in Inserted' /\ runs'[s].snapshot = runs[s].snapshot
  <1>0. s \in Calculations
    BY DEF Inserted
  <1>1. ASSUME UNCHANGED runs
        PROVE  s \in Inserted' /\ runs'[s].snapshot = runs[s].snapshot
    BY <1>1 DEF Inserted
  <1>2. ASSUME NEW c \in Calculations, CommitRun(c)
        PROVE  s \in Inserted' /\ runs'[s].snapshot = runs[s].snapshot
    <2>1. s # c
      BY <1>2 DEF CommitRun, ChainInv, WrittenLast, Inserted
    <2> QED  BY <1>0, <1>2, <2>1 DEF CommitRun, Superseded, TypeOK, Run, Inserted
  <1>3. ASSUME NEW c \in Calculations, Calculate(c)
        PROVE  s \in Inserted' /\ runs'[s].snapshot = runs[s].snapshot
    BY <1>1, <1>2, <1>3 DEF Calculate, ReadValuations, ReadReviews, FindIdentical,
                            ChoosePrevious, RunRefused, CalculationFails
  <1>4. ASSUME NEW r \in Reviewers, Decide(r)
        PROVE  s \in Inserted' /\ runs'[s].snapshot = runs[s].snapshot
    BY <1>1, <1>4 DEF Decide, ValidateCases, ReadEffective, CommitDecisions, DecisionsRefused,
                      ReviewFails
  <1> QED  BY <1>1, <1>3, <1>4 DEF Next, Revalue, vars

\* What is known of a calculation that does not take part in the step stays.
Known(c) ==
    /\ \A o \in Objects :
           calc[c].snapshot[o].review <= EffectiveVersion(o, calc[c].snapshot[o].valuation)
    /\ pc[c] = "reviews" =>
           \A o \in Objects :
               /\ calc[c].snapshot[o].valuation = calc[c].asked[o].valuation
               /\ calc[c].asked[o].review <= EffectiveVersion(o, calc[c].asked[o].valuation)
    /\ pc[c] \in {"finding", "choosing", "committing"} => Covers(calc[c].snapshot, calc[c].asked)
    /\ answer[c] # None => /\ pc[c] = "done"
                           /\ answer[c] \in Inserted
                           /\ Covers(runs[answer[c]].snapshot, calc[c].asked)

LEMMA EvidenceIsKnown == EvidenceInv <=> \A c \in Calculations : Known(c)
  BY DEF EvidenceInv, NotAhead, AskedIsDecided, SnapshotCovers, AnswerCovers, Known

LEMMA KnownFrame ==
    ASSUME TypeOK, TypeOK', EffectiveIsHighest, EffectiveIsHighest', ChainInv, [Next]_vars,
           NEW c \in Calculations, Known(c),
           pc'[c] = pc[c], calc'[c] = calc[c], answer'[c] = answer[c]
    PROVE  Known(c)'
  <1>0. \A o \in Objects : /\ calc[c].snapshot[o] \in Evidence /\ calc[c].asked[o] \in Evidence
    BY DEF TypeOK, Calc, Snapshot
  <1>1. ASSUME NEW o \in Objects, NEW v \in Nat, NEW n \in Nat, n <= EffectiveVersion(o, v)
        PROVE  n <= EffectiveVersion(o, v)'
    <2>1. EffectiveVersion(o, v) \in Nat /\ EffectiveVersion(o, v)' \in Nat
      BY DEF EffectiveIsHighest
    <2>2. EffectiveVersion(o, v) <= EffectiveVersion(o, v)'
      BY VersionsGrow
    <2> QED  BY <1>1, <2>1, <2>2
  <1>2. (\A o \in Objects :
            calc[c].snapshot[o].review <= EffectiveVersion(o, calc[c].snapshot[o].valuation))'
    BY <1>0, <1>1 DEF Known, Evidence
  <1>3. (pc[c] = "reviews" =>
            \A o \in Objects :
               /\ calc[c].snapshot[o].valuation = calc[c].asked[o].valuation
               /\ calc[c].asked[o].review <= EffectiveVersion(o, calc[c].asked[o].valuation))'
    BY <1>0, <1>1 DEF Known, Evidence
  <1>4. answer'[c] # None =>
            /\ pc'[c] = "done"
            /\ answer'[c] \in Inserted'
            /\ Covers(runs'[answer'[c]].snapshot, calc'[c].asked)
    <2>1. SUFFICES ASSUME answer[c] # None
                   PROVE  /\ pc'[c] = "done"
                          /\ answer'[c] \in Inserted'
                          /\ Covers(runs'[answer'[c]].snapshot, calc'[c].asked)
      OBVIOUS
    <2>2. answer[c] \in Inserted /\ pc[c] = "done" /\ Covers(runs[answer[c]].snapshot, calc[c].asked)
      BY <2>1 DEF Known
    <2>3. answer[c] \in Inserted' /\ runs'[answer[c]].snapshot = runs[answer[c]].snapshot
      BY <2>2, RowsStay
    <2> QED  BY <2>2, <2>3
  <1> QED  BY <1>2, <1>3, <1>4 DEF Known, Covers

\* A response: with a run that covers the request, or with none.
LEMMA KnownAnswer ==
    ASSUME TypeOK, TypeOK', EffectiveIsHighest, EffectiveIsHighest', [Next]_vars,
           NEW c \in Calculations, Known(c), pc[c] # "idle", NEW run, Respond(c, run),
           run # None => run \in Inserted' /\ Covers(runs'[run].snapshot, calc[c].asked)
    PROVE  Known(c)'
  <1>1. /\ pc'[c] = "done" /\ answer'[c] = run
        /\ calc'[c] = NoCalc \/ (/\ run # None /\ calc'[c].snapshot = calc[c].snapshot
                                 /\ calc'[c].asked = calc[c].asked)
        /\ run = None => calc'[c] = NoCalc
        /\ run # None => calc'[c].asked = calc[c].asked
    BY DEF Respond, CalcTo, TypeOK, Calc
  <1>2. (\A o \in Objects :
            calc[c].snapshot[o].review <= EffectiveVersion(o, calc[c].snapshot[o].valuation))'
    <2>1. SUFFICES ASSUME NEW o \in Objects
                   PROVE (calc[c].snapshot[o].review
                            <= EffectiveVersion(o, calc[c].snapshot[o].valuation))'
      OBVIOUS
    <2>2. CASE calc'[c] = NoCalc
      <3>1. calc'[c].snapshot[o].review = 0 /\ calc'[c].snapshot[o].valuation = 0
        BY <2>2 DEF NoCalc, Nothing
      <3>2. EffectiveVersion(o, 0)' \in Nat
        BY DEF EffectiveIsHighest
      <3> QED  BY <3>1, <3>2
    <2>3. CASE calc'[c].snapshot = calc[c].snapshot
      <3>1. PICK v \in Nat, n \in Nat :
                calc[c].snapshot[o].valuation = v /\ calc[c].snapshot[o].review = n
        <4>1. calc[c].snapshot[o].valuation \in Nat /\ calc[c].snapshot[o].review \in Nat
          BY DEF TypeOK, Calc, Snapshot, Evidence
        <4> QED  BY <4>1
      <3>2. n <= EffectiveVersion(o, v)
        BY <3>1 DEF Known
      <3>3. EffectiveVersion(o, v) \in Nat /\ EffectiveVersion(o, v)' \in Nat
        BY DEF EffectiveIsHighest
      <3>4. EffectiveVersion(o, v) <= EffectiveVersion(o, v)'
        BY VersionsGrow
      <3> QED  BY <2>3, <3>1, <3>2, <3>3, <3>4
    <2> QED  BY <1>1, <2>2, <2>3
  <1> QED  BY <1>1, <1>2 DEF Known

LEMMA KnownCalculate ==
    ASSUME TypeOK, TypeOK', HistoryInv, EffectiveIsHighest, EffectiveIsHighest', ChainInv,
           EvidenceInv, NEW c \in Calculations, Calculate(c)
    PROVE  Known(c)'
  <1>0. Known(c) /\ [Next]_vars
    BY EvidenceIsKnown DEF Next
  <1>1. UNCHANGED decisions
    BY CalculateLeavesReviews
  <1>2. \A o, v : EffectiveVersion(o, v)' = EffectiveVersion(o, v)
    BY <1>1 DEF EffectiveVersion, Of, Latest
  <1>3. \A o \in Objects : /\ calc[c].snapshot[o] \in Evidence /\ calc[c].asked[o] \in Evidence
                           /\ calc'[c].snapshot[o] \in Evidence /\ calc'[c].asked[o] \in Evidence
    BY DEF TypeOK, Calc, Snapshot
  <1>4. answer[c] # None => pc[c] = "done"
    BY <1>0 DEF Known
  <1>5. ASSUME NEW rules \in Rules, ReadValuations(c, rules)
        PROVE  Known(c)'
    <2>1. /\ pc[c] = "idle" /\ pc'[c] = "reviews" /\ answer'[c] = answer[c]
          /\ calc'[c].asked = CurrentEvidence
          /\ calc'[c].snapshot = [o \in Objects |-> [valuation |-> Valued(o), review |-> 0]]
      BY <1>5 DEF ReadValuations, CalcTo, TypeOK, Calc
    <2>2. ASSUME NEW o \in Objects
          PROVE  /\ calc'[c].snapshot[o].valuation = Valued(o) /\ calc'[c].snapshot[o].review = 0
                 /\ calc'[c].asked[o].valuation = Valued(o)
                 /\ calc'[c].asked[o].review = EffectiveVersion(o, Valued(o))
      BY <2>1 DEF CurrentEvidence
    <2>3. ASSUME NEW o \in Objects
          PROVE  /\ Valued(o) \in Nat
                 /\ EffectiveVersion(o, Valued(o)) \in Nat
      BY EvidenceRead DEF HistoryInv, EffectiveIsHighest
    <2>4. (\A o \in Objects :
              calc[c].snapshot[o].review <= EffectiveVersion(o, calc[c].snapshot[o].valuation))'
      BY <1>2, <2>2, <2>3
    <2>5. (\A o \in Objects :
              /\ calc[c].snapshot[o].valuation = calc[c].asked[o].valuation
              /\ calc[c].asked[o].review <= EffectiveVersion(o, calc[c].asked[o].valuation))'
      BY <1>2, <2>2, <2>3
    <2> QED  BY <1>4, <2>1, <2>4, <2>5 DEF Known
  <1>6. CASE ReadReviews(c)
    <2>1. pc[c] = "reviews"
      BY <1>6 DEF ReadReviews
    <2>2. CASE ConsistentHistory
      <3> DEFINE seen == [o \in Objects |->
                   LET v == calc[c].snapshot[o].valuation
                   IN  [valuation |-> v, review |-> EffectiveVersion(o, v)]]
      <3>0. calc' = [calc EXCEPT ![c].snapshot = seen]
        BY <1>6, <2>2 DEF ReadReviews
      <3> HIDE DEF seen
      <3>1. /\ pc'[c] = "finding" /\ answer'[c] = answer[c]
            /\ calc'[c].asked = calc[c].asked /\ calc'[c].snapshot = seen
        BY <1>6, <2>2, <3>0 DEF ReadReviews, CalcTo, TypeOK, Calc
      <3>2. ASSUME NEW o \in Objects
            PROVE  /\ calc'[c].snapshot[o].valuation = calc[c].snapshot[o].valuation
                   /\ calc'[c].snapshot[o].review
                        = EffectiveVersion(o, calc[c].snapshot[o].valuation)
                   /\ EffectiveVersion(o, calc[c].snapshot[o].valuation) \in Nat
        BY <1>3, <3>1 DEF Evidence, EffectiveIsHighest, seen
      <3>3. (\A o \in Objects :
              calc[c].snapshot[o].review <= EffectiveVersion(o, calc[c].snapshot[o].valuation))'
        BY <1>2, <3>2
      <3>4. Covers(calc'[c].snapshot, calc'[c].asked)
        <4>1. SUFFICES ASSUME NEW o \in Objects
                       PROVE  /\ calc'[c].snapshot[o].valuation = calc[c].asked[o].valuation
                              /\ calc'[c].snapshot[o].review >= calc[c].asked[o].review
          BY <3>1 DEF Covers
        <4>2. /\ calc[c].snapshot[o].valuation = calc[c].asked[o].valuation
              /\ calc[c].asked[o].review <= EffectiveVersion(o, calc[c].asked[o].valuation)
          BY <1>0, <2>1 DEF Known
        <4>3. calc[c].asked[o].review \in Nat
          BY <1>3 DEF Evidence
        <4> QED  BY <3>2, <4>2, <4>3
      <3> QED  BY <1>4, <2>1, <3>1, <3>3, <3>4 DEF Known, Covers
    <2>3. CASE ~ConsistentHistory
      <3>1. Respond(c, None)
        BY <1>6, <2>3 DEF ReadReviews
      <3> QED  BY <1>0, <2>1, <3>1, KnownAnswer
    <2> QED  BY <2>2, <2>3
  <1>7. CASE FindIdentical(c)
    <2>1. pc[c] = "finding" /\ UNCHANGED runs /\ Covers(calc[c].snapshot, calc[c].asked)
      BY <1>0, <1>7 DEF FindIdentical, Known
    <2>2. ASSUME NEW r \in Current, Identical(r, c), Respond(c, r)
          PROVE  Known(c)'
      <3>1. r \in Inserted' /\ runs'[r].snapshot = calc[c].snapshot
        BY <2>1, <2>2 DEF Current, Inserted, Identical
      <3> QED  BY <1>0, <2>1, <2>2, <3>1, KnownAnswer
    <2>3. CASE CalcTo(c, "choosing") /\ UNCHANGED <<calc, answer>>
      <3>1. pc'[c] = "choosing"
        BY <2>3 DEF CalcTo, TypeOK
      <3>2. (\A o \in Objects :
              calc[c].snapshot[o].review <= EffectiveVersion(o, calc[c].snapshot[o].valuation))'
        BY <1>0, <1>2, <2>3 DEF Known
      <3> QED  BY <1>4, <2>1, <2>3, <3>1, <3>2 DEF Known
    <2> QED  BY <1>7, <2>2, <2>3 DEF FindIdentical
  <1>8. CASE ChoosePrevious(c)
    <2>1. /\ pc[c] = "choosing" /\ pc'[c] = "committing" /\ answer'[c] = answer[c]
          /\ calc'[c].asked = calc[c].asked /\ calc'[c].snapshot = calc[c].snapshot
      <3>1. ASSUME NEW p, calc' = [calc EXCEPT ![c].previous = p, ![c].startedAt = clock]
            PROVE  calc'[c].asked = calc[c].asked /\ calc'[c].snapshot = calc[c].snapshot
        BY <3>1 DEF TypeOK, Calc
      <3>2. ASSUME calc' = [calc EXCEPT ![c].startedAt = clock]
            PROVE  calc'[c].asked = calc[c].asked /\ calc'[c].snapshot = calc[c].snapshot
        BY <3>2 DEF TypeOK, Calc
      <3>3. calc'[c].asked = calc[c].asked /\ calc'[c].snapshot = calc[c].snapshot
        BY <1>8, <3>1, <3>2 DEF ChoosePrevious
      <3> QED  BY <1>8, <3>3 DEF ChoosePrevious, CalcTo, TypeOK
    <2>2. (\A o \in Objects :
              calc[c].snapshot[o].review <= EffectiveVersion(o, calc[c].snapshot[o].valuation))'
      BY <1>0, <1>2, <2>1 DEF Known
    <2> QED  BY <1>0, <1>4, <2>1, <2>2 DEF Known, Covers
  <1>9. CASE CommitRun(c)
    <2>1. pc[c] = "committing" /\ Respond(c, c) /\ Covers(calc[c].snapshot, calc[c].asked)
      BY <1>0, <1>9 DEF CommitRun, Known
    <2>2. c \in Inserted' /\ runs'[c].snapshot = calc[c].snapshot
      BY <1>9 DEF CommitRun, NewRun, Inserted
    <2> QED  BY <1>0, <2>1, <2>2, KnownAnswer
  <1>10. CASE RunRefused(c) \/ CalculationFails(c)
    <2>1. pc[c] # "idle" /\ Respond(c, None)
      BY <1>10 DEF RunRefused, CalculationFails
    <2> QED  BY <1>0, <2>1, KnownAnswer
  <1> QED  BY <1>5, <1>6, <1>7, <1>8, <1>9, <1>10 DEF Calculate

LEMMA CalculateLeavesOthers ==
    ASSUME TypeOK, NEW c \in Calculations, Calculate(c), NEW q \in Calculations \ {c}
    PROVE  pc'[q] = pc[q] /\ calc'[q] = calc[q] /\ answer'[q] = answer[q]
  BY DEF Calculate, ReadValuations, ReadReviews, FindIdentical, ChoosePrevious, CommitRun,
         RunRefused, CalculationFails, Respond, CalcTo, TypeOK

LEMMA EvidenceNext ==
    ASSUME TypeOK, TypeOK', HistoryInv, EffectiveIsHighest, EffectiveIsHighest', ChainInv,
           EvidenceInv, [Next]_vars
    PROVE  EvidenceInv'
  <1>0. \A q \in Calculations : Known(q)
    BY EvidenceIsKnown
  <1>1. (\A q \in Calculations : Known(q)) => (\A q \in Calculations : Known(q)')
    <2>1. ASSUME UNCHANGED <<pc, calc, answer>>
          PROVE  \A q \in Calculations : Known(q)'
      BY <1>0, <2>1, KnownFrame
    <2>2. ASSUME NEW c \in Calculations, Calculate(c), NEW q \in Calculations
          PROVE  Known(q)'
      BY <1>0, <2>2, KnownCalculate, KnownFrame, CalculateLeavesOthers
    <2>3. ASSUME NEW r \in Reviewers, Decide(r)
          PROVE  UNCHANGED <<pc, calc, answer>>
      BY <2>3 DEF Decide, ValidateCases, ReadEffective, CommitDecisions, DecisionsRefused,
                  ReviewFails
    <2> QED  BY <2>1, <2>2, <2>3 DEF Next, Revalue, vars
  <1>2. (\A q \in Calculations : Known(q))' => EvidenceInv'
    BY DEF EvidenceInv, NotAhead, AskedIsDecided, SnapshotCovers, AnswerCovers, Known
  <1> QED  BY <1>0, <1>1, <1>2

LEMMA EvidenceAlways == Spec => []EvidenceInv
  <1>1. TypeOK /\ TypeOK' /\ HistoryInv /\ EffectiveIsHighest /\ EffectiveIsHighest'
        /\ ChainInv /\ EvidenceInv /\ [Next]_vars => EvidenceInv'
    BY EvidenceNext
  <1> QED  BY <1>1, EvidenceInit, TypesAndHistory, HighestInEveryState, ChainAlways, PTL DEF Spec

\* However reviewers race, the history of every valuation stays one chain, and
\* no calculation has read a version the chain does not have
\* (effective_tax_review_decisions and uq_tax_review_decision_version).
THEOREM HistoryCorrect == Spec => []ReviewHistoryIsAChain
  <1>1. HistoryInv /\ EvidenceInv => ReviewHistoryIsAChain
    BY DEF HistoryInv, EvidenceInv, NotAhead, ReviewHistoryIsAChain
  <1> QED  BY <1>1, TypesAndHistory, EvidenceAlways, PTL

\* The run that answers a request rests on the valuations of the moment it came
\* and on every review decision committed by then.
THEOREM AnswerCorrect == Spec => []AnswerReflectsDecisions
  <1>1. EvidenceInv => AnswerReflectsDecisions
    BY DEF EvidenceInv, AnswerCovers, Covers, AnswerReflectsDecisions
  <1> QED  BY <1>1, EvidenceAlways, PTL

-----------------------------------------------------------------------------
(* The exports.                                                            *)

USE ExportAssumption

\* Every run of the table has a current one that is at least as new.
CurrentAtLeastAsNew ==
    \A q \in Inserted : \E r \in Current : runs[r].startedAt >= runs[q].startedAt

\* What a request is about, and what it has done so far.
RequestsKnown ==
    \A x \in Exporters : xpc[x] \in {"writing", "committing"} =>
        wanted[x] \in Wanted /\ wanted[x].run \in Inserted

FilesWritten ==
    /\ \A x \in Exporters : xpc[x] = "committing" => files[x] # None
    /\ \A e \in exports : xpc[e.by] = "done" /\ files[e.by] # None
    /\ \A x \in Exporters : given[x] # None =>
           xpc[given[x]] = "done" /\ files[given[x]] # None

\* A file is about a run of the table, and never about one that started before
\* the run it was asked for.
FilesNotOlder ==
    /\ \A x \in Exporters : files[x] # None => files[x] \in Inserted
    /\ \A x \in Exporters : xpc[x] = "committing" =>
           runs[files[x]].startedAt >= runs[wanted[x].run].startedAt
    /\ \A e \in exports :
           /\ e.run \in Inserted
           /\ runs[files[e.by]].startedAt >= runs[e.run].startedAt

ExportInv == RequestsKnown /\ FilesWritten /\ FilesNotOlder

-----------------------------------------------------------------------------
(* The runs beside the exports.                                            *)

\* Exporting changes nothing the calculations and reviews use: whatever holds of
\* TaxRuns holds here.
THEOREM ExportsLeaveRunsAlone == ExportSpec => Spec
  <1>1. ExportInit => Init
    BY DEF ExportInit
  <1>2. [ExportNext]_<<vars, xvars>> => [Next]_vars
    BY DEF ExportNext
  <1> QED  BY <1>1, <1>2, PTL DEF ExportSpec, Spec

\* Rows are never removed, and keep the instant they started at.
LEMMA StartsStay ==
    ASSUME TypeOK, ChainInv, [Next]_vars, NEW s \in Inserted
    PROVE  s \in Inserted' /\ runs'[s].startedAt = runs[s].startedAt
  <1>0. s \in Calculations
    BY DEF Inserted
  <1>1. ASSUME UNCHANGED runs
        PROVE  s \in Inserted' /\ runs'[s].startedAt = runs[s].startedAt
    BY <1>1 DEF Inserted
  <1>2. ASSUME NEW c \in Calculations, CommitRun(c)
        PROVE  s \in Inserted' /\ runs'[s].startedAt = runs[s].startedAt
    <2>1. s # c
      BY <1>2 DEF CommitRun, ChainInv, WrittenLast, Inserted
    <2> QED  BY <1>0, <1>2, <2>1 DEF CommitRun, Superseded, TypeOK, Run, Inserted
  <1>3. ASSUME NEW c \in Calculations, Calculate(c)
        PROVE  s \in Inserted' /\ runs'[s].startedAt = runs[s].startedAt
    BY <1>1, <1>2, <1>3 DEF Calculate, ReadValuations, ReadReviews, FindIdentical,
                            ChoosePrevious, RunRefused, CalculationFails
  <1>4. ASSUME NEW r \in Reviewers, Decide(r)
        PROVE  s \in Inserted' /\ runs'[s].startedAt = runs[s].startedAt
    BY <1>1, <1>4 DEF Decide, ValidateCases, ReadEffective, CommitDecisions, DecisionsRefused,
                      ReviewFails
  <1> QED  BY <1>1, <1>3, <1>4 DEF Next, Revalue, vars

LEMMA CurrentNewNext ==
    ASSUME TypeOK, ChainInv, CurrentAtLeastAsNew, [Next]_vars
    PROVE  CurrentAtLeastAsNew'
  <1>1. ASSUME UNCHANGED runs
        PROVE  CurrentAtLeastAsNew'
    BY <1>1 DEF CurrentAtLeastAsNew, Inserted, Current
  <1>2. ASSUME NEW c \in Calculations, CommitRun(c)
        PROVE  CurrentAtLeastAsNew'
    <2> DEFINE p == calc[c].previous
    <2>1. /\ c \in Current' /\ runs'[c].startedAt = calc[c].startedAt
          /\ calc[c].startedAt \in Nat /\ runs[c].status = "none"
      BY <1>2 DEF CommitRun, NewRun, Current, TypeOK, Calc, ChainInv, WrittenLast
    <2>2. p # None => p \in Inserted /\ runs[p].startedAt < calc[c].startedAt
      BY <1>2 DEF CommitRun, ChainInv, PredecessorChosen
    <2>3. \A q \in Calculations \ {c} :
              /\ runs[q].startedAt \in Nat /\ runs'[q].startedAt = runs[q].startedAt
              /\ q # p => runs'[q].status = runs[q].status
              /\ q = p => runs'[q].status = "superseded"
              /\ q \in Inserted' => q \in Inserted
      BY <1>2, <2>2 DEF CommitRun, Superseded, TypeOK, Run, Inserted
    <2> HIDE DEF p
    <2>4. SUFFICES ASSUME NEW q \in Inserted'
                   PROVE  \E r \in Current' : runs'[r].startedAt >= runs'[q].startedAt
      BY DEF CurrentAtLeastAsNew
    <2>5. CASE q = c
      BY <2>1, <2>5
    <2>6. CASE q # c
      <3>1. q \in Calculations /\ q \in Inserted
        BY <2>3, <2>6 DEF Inserted
      <3>2. PICK r \in Current : runs[r].startedAt >= runs[q].startedAt
        BY <3>1 DEF CurrentAtLeastAsNew
      <3>3. r # c /\ r \in Calculations
        BY <2>1 DEF Current
      <3>4. CASE r = p
        <4>1. runs[r].startedAt < calc[c].startedAt
          BY <2>2, <3>3, <3>4
        <4>2. runs'[c].startedAt >= runs'[q].startedAt
          BY <2>1, <2>3, <2>6, <3>1, <3>2, <3>3, <4>1
        <4> QED  BY <2>1, <4>2
      <3>5. CASE r # p
        BY <2>3, <2>6, <3>1, <3>2, <3>3, <3>5 DEF Current
      <3> QED  BY <3>4, <3>5
    <2> QED  BY <2>5, <2>6
  <1>3. ASSUME NEW c \in Calculations, Calculate(c)
        PROVE  CurrentAtLeastAsNew'
    BY <1>1, <1>2, <1>3 DEF Calculate, ReadValuations, ReadReviews, FindIdentical,
                            ChoosePrevious, RunRefused, CalculationFails
  <1>4. ASSUME NEW r \in Reviewers, Decide(r)
        PROVE  CurrentAtLeastAsNew'
    BY <1>1, <1>4 DEF Decide, ValidateCases, ReadEffective, CommitDecisions, DecisionsRefused,
                      ReviewFails
  <1> QED  BY <1>1, <1>3, <1>4 DEF Next, Revalue, vars

LEMMA CurrentNewAlways == Spec => []CurrentAtLeastAsNew
  <1>1. Init => CurrentAtLeastAsNew
    BY DEF Init, CurrentAtLeastAsNew, Inserted, NoRun
  <1>2. TypeOK /\ ChainInv /\ CurrentAtLeastAsNew /\ [Next]_vars => CurrentAtLeastAsNew'
    BY CurrentNewNext
  <1> QED  BY <1>1, <1>2, TypeCorrect, ChainAlways, PTL DEF Spec

-----------------------------------------------------------------------------
(* One request.                                                            *)

LEMMA ExportsType ==
    ASSUME ExportTypeOK, RequestsKnown, NEW x \in Exporters, CreateExport(x)
    PROVE  /\ exports' \subseteq Export
           /\ files' \in [Exporters -> Calculations \cup {None}]
           /\ xpc' \in [Exporters -> {"idle", "writing", "committing", "done"}]
           /\ wanted' \in [Exporters -> Wanted \cup {None}]
           /\ given' \in [Exporters -> Exporters \cup {None}]
  <1>1. ASSUME NEW run \in Inserted, NEW kind \in Kinds, FindExport(x, run, kind)
        PROVE  /\ wanted' \in [Exporters -> Wanted \cup {None}]
               /\ xpc' \in [Exporters -> {"idle", "writing", "committing", "done"}]
               /\ given' \in [Exporters -> Exporters \cup {None}]
               /\ UNCHANGED <<exports, files>>
    <2>1. [run |-> run, kind |-> kind] \in Wanted
      BY DEF Inserted, Wanted
    <2>2. \A e \in Registered(run, kind) : e.by \in Exporters
      BY DEF Registered, ExportTypeOK, Export
    <2> QED  BY <1>1, <2>1, <2>2 DEF FindExport, Gives, ExportTo, ExportTypeOK
  <1>2. CASE WriteFile(x)
    <2>1. \A r \in ShownRun(wanted[x]) : r \in Calculations
      BY <1>2 DEF WriteFile, RequestsKnown, ShownRun, LatestOf, Current, Inserted
    <2> QED  BY <1>2, <2>1 DEF WriteFile, ExportTo, ExportTypeOK
  <1>3. CASE CommitExport(x)
    <2>1. wanted[x] \in Wanted
      BY <1>3 DEF CommitExport, RequestsKnown
    <2>2. [by |-> x, run |-> wanted[x].run, kind |-> wanted[x].kind] \in Export
      BY <2>1 DEF Wanted, Export
    <2> QED  BY <1>3, <2>2 DEF CommitExport, Gives, ExportTo, ExportTypeOK
  <1>4. CASE ExportRefused(x) \/ ExportFails(x)
    BY <1>4 DEF ExportRefused, ExportFails, ExportTo, ExportTypeOK
  <1> QED  BY <1>1, <1>2, <1>3, <1>4 DEF CreateExport, ExportTypeOK

LEMMA ShownNotOlder ==
    ASSUME ExportTypeOK, CurrentAtLeastAsNew, NEW w \in Wanted, w.run \in Inserted,
           NEW r \in ShownRun(w)
    PROVE  r \in Inserted /\ runs[r].startedAt >= runs[w.run].startedAt
  <1>0. \A q \in Inserted : runs[q].startedAt \in Nat
    BY DEF ExportTypeOK, TypeOK, Run, Inserted
  <1>1. CASE w.kind = "annual_summary_csv"
    <2>1. r \in Current /\ \A q \in Current : runs[q].startedAt <= runs[r].startedAt
      BY <1>1 DEF ShownRun, LatestOf
    <2>2. PICK q \in Current : runs[q].startedAt >= runs[w.run].startedAt
      BY DEF CurrentAtLeastAsNew
    <2>3. Current \subseteq Inserted
      BY DEF Current, Inserted
    <2> QED  BY <1>0, <2>1, <2>2, <2>3
  <1>2. CASE w.kind # "annual_summary_csv"
    BY <1>0, <1>2 DEF ShownRun
  <1> QED  BY <1>1, <1>2

\* The request that takes the step.
LEMMA ExportStep ==
    ASSUME ExportTypeOK, CurrentAtLeastAsNew, ExportInv, NEW x \in Exporters, CreateExport(x),
           UNCHANGED vars
    PROVE  ExportInv'
  <1>0. Inserted' = Inserted /\ UNCHANGED runs
    BY DEF Inserted, vars
  <1>1. \A y \in Exporters \ {x} : xpc'[y] = xpc[y] /\ wanted'[y] = wanted[y]
                                   /\ files'[y] = files[y] /\ given'[y] = given[y]
    BY DEF CreateExport, FindExport, WriteFile, CommitExport, ExportRefused, ExportFails, Gives,
           ExportTo, ExportTypeOK
  <1>2. /\ \A e \in exports : e.by \in Exporters
        /\ \A y \in Exporters : given[y] # None => given[y] \in Exporters
    BY DEF ExportTypeOK, Export
  <1>3. ASSUME NEW run \in Inserted, NEW kind \in Kinds, FindExport(x, run, kind)
        PROVE  ExportInv'
    <2>1. /\ xpc[x] = "idle" /\ wanted'[x] = [run |-> run, kind |-> kind]
          /\ UNCHANGED <<exports, files>>
          /\ xpc'[x] \in {"writing", "done"}
      BY <1>3 DEF FindExport, Gives, ExportTo, ExportTypeOK
    <2>2. [run |-> run, kind |-> kind] \in Wanted
      BY DEF Wanted, Inserted
    <2>3. RequestsKnown'
      BY <1>0, <1>1, <2>1, <2>2 DEF ExportInv, RequestsKnown
    <2>4. given'[x] # None => /\ given'[x] \in Exporters \ {x}
                              /\ xpc[given'[x]] = "done" /\ files[given'[x]] # None
      <3>1. ASSUME NEW e \in Registered(run, kind), Gives(x, e.by)
            PROVE  given'[x] = e.by /\ e \in exports
        BY <3>1 DEF Gives, Registered, ExportTypeOK
      <3>2. CASE \E e \in Registered(run, kind) : Gives(x, e.by)
        BY <1>2, <2>1, <3>1, <3>2 DEF ExportInv, FilesWritten
      <3>3. CASE UNCHANGED given
        BY <1>2, <2>1, <3>3 DEF ExportInv, FilesWritten
      <3> QED  BY <1>3, <3>2, <3>3 DEF FindExport
    <2>5. FilesWritten'
      BY <1>1, <1>2, <2>1, <2>4 DEF ExportInv, FilesWritten
    <2>6. FilesNotOlder'
      BY <1>0, <1>1, <2>1 DEF ExportInv, FilesNotOlder
    <2> QED  BY <2>3, <2>5, <2>6 DEF ExportInv
  <1>4. CASE WriteFile(x)
    <2>1. xpc[x] = "writing" /\ xpc'[x] = "committing" /\ UNCHANGED <<exports, wanted, given>>
      BY <1>4 DEF WriteFile, ExportTo, ExportTypeOK
    <2>2. wanted[x] \in Wanted /\ wanted[x].run \in Inserted
      BY <2>1 DEF ExportInv, RequestsKnown
    <2>3. /\ files'[x] \in Inserted /\ files'[x] # None
          /\ runs[files'[x]].startedAt >= runs[wanted[x].run].startedAt
      <3>1. files'[x] \in ShownRun(wanted[x])
        BY <1>4 DEF WriteFile, ExportTypeOK
      <3>2. files'[x] \in Inserted
        BY <2>2, <3>1, ShownNotOlder
      <3> QED  BY <2>2, <3>1, <3>2, ShownNotOlder DEF Inserted
    <2>4. RequestsKnown' /\ FilesWritten'
      BY <1>0, <1>1, <1>2, <2>1, <2>2, <2>3 DEF ExportInv, RequestsKnown, FilesWritten
    <2>5. FilesNotOlder'
      BY <1>0, <1>1, <1>2, <2>1, <2>3 DEF ExportInv, FilesWritten, FilesNotOlder
    <2> QED  BY <2>4, <2>5 DEF ExportInv
  <1>5. CASE CommitExport(x)
    <2> DEFINE new == [by |-> x, run |-> wanted[x].run, kind |-> wanted[x].kind]
    <2>1. /\ xpc[x] = "committing" /\ xpc'[x] = "done" /\ given'[x] = x
          /\ UNCHANGED <<files, wanted>> /\ exports' = exports \cup {new}
          /\ new.by = x /\ new.run = wanted[x].run
      BY <1>5 DEF CommitExport, Gives, ExportTo, ExportTypeOK
    <2> HIDE DEF new
    <2>2. RequestsKnown' /\ FilesWritten'
      BY <1>0, <1>1, <1>2, <2>1 DEF ExportInv, RequestsKnown, FilesWritten
    <2>3. FilesNotOlder'
      BY <1>0, <1>1, <1>2, <2>1 DEF ExportInv, RequestsKnown, FilesNotOlder
    <2> QED  BY <2>2, <2>3 DEF ExportInv
  <1>6. CASE ExportRefused(x) \/ ExportFails(x)
    <2>1. xpc'[x] = "done" /\ UNCHANGED <<exports, files, wanted, given>>
      BY <1>6 DEF ExportRefused, ExportFails, ExportTo, ExportTypeOK
    <2> QED  BY <1>0, <1>1, <1>2, <2>1
             DEF ExportInv, RequestsKnown, FilesWritten, FilesNotOlder
  <1> QED  BY <1>3, <1>4, <1>5, <1>6 DEF CreateExport

\* A step of the calculations or reviews.
LEMMA ExportFrame ==
    ASSUME ExportTypeOK, ChainInv, ExportInv, [Next]_vars, UNCHANGED xvars
    PROVE  ExportInv'
  <1>1. \A s \in Inserted : s \in Inserted' /\ runs'[s].startedAt = runs[s].startedAt
    BY StartsStay DEF ExportTypeOK
  <1>2. RequestsKnown' /\ FilesWritten'
    BY <1>1 DEF ExportInv, RequestsKnown, FilesWritten, xvars
  <1>3. FilesNotOlder'
    <2>1. \A x \in Exporters : files[x] # None => files[x] \in Inserted
      BY DEF ExportInv, FilesNotOlder
    <2>2. \A e \in exports : e.by \in Exporters /\ files[e.by] \in Inserted /\ e.run \in Inserted
      BY <2>1 DEF ExportInv, FilesWritten, FilesNotOlder, ExportTypeOK, Export
    <2>3. \A x \in Exporters : xpc[x] = "committing" =>
              files[x] \in Inserted /\ wanted[x].run \in Inserted
      BY <2>1 DEF ExportInv, FilesWritten, RequestsKnown
    <2> QED  BY <1>1, <2>1, <2>2, <2>3 DEF ExportInv, FilesNotOlder, xvars
  <1> QED  BY <1>2, <1>3 DEF ExportInv

-----------------------------------------------------------------------------
(* Every state.                                                            *)

LEMMA ExportAlways == ExportSpec => [](ExportTypeOK /\ ExportInv)
  <1>1. ExportInit => ExportTypeOK /\ ExportInv
    BY TypeInit DEF ExportInit, ExportTypeOK, ExportInv, RequestsKnown, FilesWritten,
                    FilesNotOlder
  <1>2. ASSUME ExportTypeOK, ExportInv, ChainInv, CurrentAtLeastAsNew, TypeOK',
               [ExportNext]_<<vars, xvars>>
        PROVE  (ExportTypeOK /\ ExportInv)'
    <2>1. CASE [Next]_vars /\ UNCHANGED xvars
      <3>1. ExportInv'
        BY <1>2, <2>1, ExportFrame
      <3> QED  BY <1>2, <2>1, <3>1 DEF ExportTypeOK, xvars
    <2>2. ASSUME NEW x \in Exporters, CreateExport(x), UNCHANGED vars
          PROVE  (ExportTypeOK /\ ExportInv)'
      <3>1. ExportInv'
        BY <1>2, <2>2, ExportStep
      <3>2. RequestsKnown
        BY <1>2 DEF ExportInv
      <3> QED  BY <1>2, <2>2, <3>1, <3>2, ExportsType DEF ExportTypeOK
    <2> QED  BY <1>2, <2>1, <2>2 DEF ExportNext
  <1> QED  BY <1>1, <1>2, ExportsLeaveRunsAlone, TypeCorrect, ChainAlways, CurrentNewAlways, PTL
           DEF ExportSpec

\* Every request, file and artifact is always what it should be (export_runs,
\* export_artifacts and the export directory).
THEOREM ExportTypeCorrect == ExportSpec => []ExportTypeOK
  BY ExportAlways, PTL

\* Whatever requests race or break off, an artifact that is registered or named
\* in a response has its file: create_export writes it before the rows.
THEOREM ArtifactsCorrect == ExportSpec => []ArtifactHasFile
  <1>1. ExportInv => ArtifactHasFile
    BY DEF ExportInv, FilesWritten, ArtifactHasFile
  <1> QED  BY <1>1, ExportAlways, PTL

\* However runs supersede each other around it, an export of a run never shows
\* an older calculation, although the annual summary is that of the year's
\* latest run (_export_rows, tax_summary).
THEOREM ExportsNeverOlder == ExportSpec => []NeverShowsOlderRun
  <1>1. ExportInv => NeverShowsOlderRun
    BY DEF ExportInv, FilesNotOlder, NeverShowsOlderRun
  <1> QED  BY <1>1, ExportAlways, PTL
=============================================================================
