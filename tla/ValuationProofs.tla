--------------------------- MODULE ValuationProofs ---------------------------
(***************************************************************************)
(* Theorems of Valuation: prices stay chains, decisions one history that   *)
(* implements DecisionHistory, every window of a plan is asked for once,   *)
(* evidence fits the prices that name it, and with SQLite manual prices    *)
(* win, for any requirements, requests, prices and answers.                *)
(***************************************************************************)
EXTENDS Valuation, FiniteSetTheorems, FunctionTheorems, SumProofs

-----------------------------------------------------------------------------
(* The inductive invariants.                                               *)

Running(v) == step[v] \in {"reading", "planning", "fetching", "applying"}
HasRead(v) == step[v] \in {"planning", "fetching", "applying"}
HasPlanned(v) == step[v] \in {"fetching", "applying"}

TypeInv ==
    /\ engine \in {"sqlite", "postgresql"} /\ open \subseteq DOMAIN Requirement
    /\ writer \in Requests \cup {None}
    /\ step = [q \in Requests |-> step[q]]
    /\ \A v \in Valuers : step[v] \in {"idle", "done"} \/ Running(v)
    /\ local = [v \in Valuers |-> local[v]]
    /\ \A v \in Valuers :
          /\ DOMAIN local[v] = DOMAIN NoLocal
          /\ ~Running(v) => local[v] = NoLocal
          /\ Running(v) => local[v].method \in Methods
          /\ local[v].todo \subseteq open
    /\ entered = [e \in Enterers |-> entered[e]]
    /\ \A e \in Enterers : IsFiniteSet(DOMAIN entered[e])

\* What will be written to a set of rows continues its chains.
Kind(p) == p.manual \in BOOLEAN /\ (p.manual => p.contract = "manual-v1")

Follows(p, rows) ==
    /\ Kind(p) /\ p.version \in Nat \ {0}
    /\ p.version > 1 => \E q \in rows : SamePrice(p, q) /\ q.version = p.version - 1

Once(rows) == \A p, q \in rows : SamePrice(p, q) /\ p.version = q.version => p = q

PricesFollow ==
    /\ Chain(prices) /\ \A p \in prices : Kind(p)
    /\ \A v \in Valuers :
          /\ IsFiniteSet(local[v].prices) /\ Once(local[v].prices)
          /\ \A p \in local[v].prices : Follows(p, prices \cup local[v].prices)
    /\ \A e \in Enterers : \A i \in DOMAIN entered[e] : Follows(entered[e][i], prices)

DecisionsFollow ==
    /\ IsFiniteSet(decisions)
    /\ \A d \in decisions :
          /\ d.requirement \in open /\ d.version \in Nat \ {0}
          /\ d.method \in Methods /\ d.by \in Valuers /\ step[d.by] = "done"
          /\ d.version > 1 => \E e \in DecisionsOn(d.requirement) : e.version = d.version - 1
          /\ \A e \in DecisionsOn(d.requirement) : d.version = e.version => d = e

\* The decisions a run will write, one at most for each requirement that is open, and
\* what it knew of the decisions before.
DraftsOf(v) ==
    /\ IsFiniteSet(local[v].drafts)
    /\ \A d \in local[v].drafts :
          /\ HasRead(v) /\ d.requirement \in open /\ d.requirement \notin local[v].todo
          /\ d.method = local[v].method /\ d.by = v
          /\ d.version = local[v].known[d.requirement] + 1
          /\ \A e \in local[v].drafts : d.requirement = e.requirement => d = e

KnownOf(v) ==
    HasRead(v) => \A r \in open :
        /\ local[v].known[r] \in Nat
        /\ local[v].known[r] > 0 => \E d \in DecisionsOn(r) : d.version = local[v].known[r]
        /\ (r \in local[v].todo \/ \E d \in local[v].drafts : d.requirement = r) =>
              \A d \in DecisionsOn(r) :
                  d.version <= local[v].known[r] => d.method # local[v].method

DraftsFollow == \A v \in Valuers : DraftsOf(v) /\ KnownOf(v)

\* With SQLite the write lock keeps what a run has read of manual prices as it is.
LockHeld == engine = "sqlite" => \A v \in Valuers : Running(v) => writer = v

NewestIfManual(p, asset, day) ==
    ManualFor(prices, asset, day) # {} => p = Newest(ManualFor(prices, asset, day))

ManualOf(v) ==
    /\ HasPlanned(v) => \A a \in AssetsNeeded(local[v].todo, local[v].method) :
          \A d \in DaysNeeded(local[v].todo, local[v].method, a) :
              For(local[v].cached, a, d) = {} => ManualFor(prices, a, d) = {}
    /\ \A p \in local[v].cached : NewestIfManual(p, p.asset, p.day)
    /\ \A b \in local[v].batches : ManualFor(prices, b.asset, b.day) = {}
    /\ \A d \in local[v].drafts : d.price # Native =>
          NewestIfManual(d.price, Requirement[d.requirement].asset,
                         Requirement[d.requirement].day)

ManualRead == engine = "sqlite" => \A v \in Valuers : ManualOf(v)

\* What evidence says of a day.
Rests(e, asset, day, content) ==
    /\ e.status = Success
    /\ e.asset = asset /\ day \in DaysOf(e)
    /\ e.answer[day] = content

PriceRests(p, rows) == p.evidence \in rows /\ Rests(p.evidence, p.asset, p.day, p.content)

AnswerRests(b, rows) ==
    LET content == b.outcome.answer[b.day]
    IN content # NoData =>
          b.outcome.evidence \in rows /\ Rests(b.outcome.evidence, b.asset, b.day, content)

\* A row with anything but success says nothing.
Silent(rows) == \A e \in rows : e.status # Success => e.answer = Silence(e)

\* What a run has been answered rests on evidence that is stored or will be with it.
RunRests(v) ==
    LET rows == evidence \cup local[v].evidence
    IN /\ Silent(local[v].evidence)
       /\ \A b \in local[v].batches : AnswerRests(b, rows)
       /\ \A p \in local[v].prices : PriceRests(p, rows)

EvidenceSound ==
    /\ Silent(evidence)
    /\ \A p \in prices : ~p.manual /\ p.contract = Contract => PriceRests(p, evidence)
    /\ \A v \in Valuers : RunRests(v)
    /\ \A e \in Enterers : \A i \in DOMAIN entered[e] : entered[e][i].manual

\* Windows of a run cover what it has neither a price nor an answer for, and no day
\* is in two of them.
Covers(v, r) ==
    \/ CachedFor(v, r) # {}
    \/ BatchFor(v, r) # {}
    \/ \E w \in local[v].windows :
          w.asset = Requirement[r].asset /\ Requirement[r].day \in DaysOf(w)

PlanOf(v) ==
    HasPlanned(v) =>
        /\ \A r \in local[v].todo : Priced(r, local[v].method) => Covers(v, r)
        /\ \A w \in local[v].windows :
              /\ w.from \in Nat /\ w.until - w.from \in 1 .. MaxDays
              /\ \A x \in local[v].windows \ {w} :
                    x.asset = w.asset => DaysOf(x) \cap DaysOf(w) = {}
              /\ \A b \in local[v].batches : b.asset = w.asset => b.day \notin DaysOf(w)
        /\ step[v] = "fetching" => local[v].windows # {}

PlanInv == \A v \in Valuers : PlanOf(v)

-----------------------------------------------------------------------------
(* What the steps of a run do to what it remembers.                        *)

OthersSame(v) ==
    /\ \A u \in Valuers \ {v} : local'[u] = local[u] /\ step'[u] = step[u]
    /\ \A e \in Enterers : step'[e] = step[e]
    /\ DOMAIN local'[v] = DOMAIN NoLocal
    /\ local' = [u \in Valuers |-> local'[u]] /\ step' = [q \in Requests |-> step'[q]]

LEMMA Apart == \A v \in Valuers : v # None /\ v \in Requests /\ \A e \in Enterers : e # v
  BY ValuationAssumption DEF Requests

LEMMA StartEffect ==
    ASSUME TypeInv, NEW v \in Valuers, StartRun(v)
    PROVE  /\ OthersSame(v)
           /\ step[v] = "idle" /\ step'[v] = "reading"
           /\ local'[v].method \in Methods
           /\ local'[v] = [NoLocal EXCEPT !.method = local'[v].method,
                                          !.refresh = local'[v].refresh]
           /\ engine = "sqlite" => writer \in {None, v} /\ writer' = v
           /\ engine # "sqlite" => writer' = writer
           /\ UNCHANGED <<fixed, tables, entered>>
  <1>1. PICK m \in Methods, refresh \in BOOLEAN :
            local' = [local EXCEPT ![v].method = m, ![v].refresh = refresh]
    BY DEF StartRun
  <1>2. step[v] = "idle" /\ local[v] = NoLocal /\ v \in Requests
    BY Apart DEF StartRun, TypeInv, Running
  <1>3. /\ local'[v] = [NoLocal EXCEPT !.method = m, !.refresh = refresh]
        /\ \A u \in Valuers \ {v} : local'[u] = local[u]
        /\ local' = [u \in Valuers |-> local'[u]]
    BY <1>1, <1>2 DEF TypeInv
  <1>4. /\ local'[v].method = m /\ local'[v].refresh = refresh
        /\ DOMAIN local'[v] = DOMAIN NoLocal
    BY <1>3 DEF NoLocal
  <1>5. /\ step'[v] = "reading" /\ \A q \in Requests \ {v} : step'[q] = step[q]
        /\ step' = [q \in Requests |-> step'[q]]
    BY <1>2 DEF StartRun, Goto, TypeInv
  <1>6. OthersSame(v)
    BY <1>3, <1>4, <1>5, Apart DEF OthersSame, Requests
  <1> QED  BY <1>2, <1>3, <1>4, <1>5, <1>6 DEF StartRun, MayWrite, TakeLock, world

Keeps(v, fields) == \A x \in DOMAIN NoLocal \ fields : local'[v][x] = local[v][x]

LEMMA ReadEffect ==
    ASSUME TypeInv, NEW v \in Valuers, ReadOpen(v)
    PROVE  /\ OthersSame(v)
           /\ step[v] = "reading" /\ step'[v] = "planning"
           /\ local'[v].todo = {r \in open : /\ \A d \in DecisionsOn(r) : d.method # local[v].method
                                   /\ [requirement |-> r, method |-> local[v].method] \notin noted}
           /\ local'[v].known = [r \in open |-> NewestVersion(r)]
           /\ Keeps(v, {"todo", "known"})
           /\ UNCHANGED <<fixed, tables, writer, entered>>
  <1> DEFINE todo == {r \in open : /\ \A d \in DecisionsOn(r) : d.method # local[v].method
                                   /\ [requirement |-> r, method |-> local[v].method] \notin noted}
             known == [r \in open |-> NewestVersion(r)]
  <1> HIDE DEF todo, known
  <1>1. local' = [local EXCEPT ![v].todo = todo, ![v].known = known]
    BY DEF ReadOpen, todo, known
  <1>2. step[v] = "reading" /\ v \in Requests /\ DOMAIN local[v] = DOMAIN NoLocal
    BY Apart DEF ReadOpen, TypeInv
  <1>3. /\ local'[v] = [local[v] EXCEPT !.todo = todo, !.known = known]
        /\ \A u \in Valuers \ {v} : local'[u] = local[u]
        /\ local' = [u \in Valuers |-> local'[u]]
    BY <1>1 DEF TypeInv
  <1>4. /\ local'[v].todo = todo /\ local'[v].known = known
        /\ DOMAIN local'[v] = DOMAIN NoLocal
        /\ \A x \in DOMAIN NoLocal \ {"todo", "known"} : local'[v][x] = local[v][x]
    BY <1>2, <1>3 DEF NoLocal
  <1>5. /\ step'[v] = "planning" /\ \A q \in Requests \ {v} : step'[q] = step[q]
        /\ step' = [q \in Requests |-> step'[q]]
    BY <1>2 DEF ReadOpen, Goto, TypeInv
  <1>6. OthersSame(v)
    BY <1>3, <1>4, <1>5, Apart DEF OthersSame, Requests
  <1> QED  BY <1>2, <1>4, <1>5, <1>6 DEF ReadOpen, todo, known, Keeps

LEMMA PlanEffect ==
    ASSUME TypeInv, NEW v \in Valuers, PlanFetches(v)
    PROVE  LET m == local[v].method
               assets == AssetsNeeded(local[v].todo, m)
               keys == UNION {{[asset |-> a, day |-> d] : d \in DaysNeeded(local[v].todo, m, a)}
                                  : a \in assets}
           IN
           /\ OthersSame(v)
           /\ step[v] = "planning"
           /\ step'[v] = IF local'[v].windows = {} THEN "applying" ELSE "fetching"
           /\ local'[v].cached =
                 {Newest(Eligible(k.asset, k.day, local[v].refresh)) :
                      k \in {k \in keys : Eligible(k.asset, k.day, local[v].refresh) # {}}}
           /\ local'[v].windows = UNION {Windows(a, MissingDays(v, a)) : a \in assets}
           /\ local'[v].batches = {}
           /\ Keeps(v, {"cached", "windows", "batches"})
           /\ UNCHANGED <<fixed, tables, writer, entered>>
  <1> DEFINE m == local[v].method
             assets == AssetsNeeded(local[v].todo, m)
             keys == UNION {{[asset |-> a, day |-> d] : d \in DaysNeeded(local[v].todo, m, a)}
                                : a \in assets}
             stored == {Newest(Eligible(k.asset, k.day, local[v].refresh)) :
                           k \in {k \in keys : Eligible(k.asset, k.day, local[v].refresh) # {}}}
             windows == UNION {Windows(a, MissingDays(v, a)) : a \in assets}
             next == IF windows = {} THEN "applying" ELSE "fetching"
  <1>0. /\ local' = [local EXCEPT ![v].cached = stored, ![v].windows = windows,
                                  ![v].batches = {}]
        /\ step[v] = "planning" /\ Goto(v, next)
        /\ UNCHANGED <<fixed, tables, world, writer, entered>>
    BY DEF PlanFetches
  <1> SUFFICES /\ OthersSame(v)
               /\ step'[v] = next /\ local'[v].cached = stored /\ local'[v].windows = windows
               /\ local'[v].batches = {}
               /\ Keeps(v, {"cached", "windows", "batches"})
    BY <1>0
  <1> HIDE DEF stored, windows, next
  <1>2. v \in Requests /\ DOMAIN local[v] = DOMAIN NoLocal
    BY Apart DEF TypeInv
  <1>3. /\ local'[v] = [local[v] EXCEPT !.cached = stored, !.windows = windows, !.batches = {}]
        /\ \A u \in Valuers \ {v} : local'[u] = local[u]
        /\ local' = [u \in Valuers |-> local'[u]]
    BY <1>0 DEF TypeInv
  <1>4. /\ local'[v].cached = stored /\ local'[v].windows = windows /\ local'[v].batches = {}
        /\ DOMAIN local'[v] = DOMAIN NoLocal
        /\ \A x \in DOMAIN NoLocal \ {"cached", "windows", "batches"} : local'[v][x] = local[v][x]
    BY <1>2, <1>3 DEF NoLocal
  <1>5. /\ step'[v] = next /\ \A q \in Requests \ {v} : step'[q] = step[q]
        /\ step' = [q \in Requests |-> step'[q]]
    BY <1>0, <1>2 DEF Goto, TypeInv
  <1>6. OthersSame(v)
    BY <1>3, <1>4, <1>5, Apart DEF OthersSame, Requests
  <1> QED  BY <1>4, <1>5, <1>6 DEF Keeps

LEMMA FetchEffect ==
    ASSUME TypeInv, NEW v \in Valuers, step[v] = "fetching",
           NEW w, NEW kept, NEW results, Fetched(v, w, kept, results)
    PROVE  /\ OthersSame(v)
           /\ step'[v] = IF local[v].windows = {w} THEN "applying" ELSE "fetching"
           /\ local'[v].windows = local[v].windows \ {w}
           /\ local'[v].evidence = kept \ evidence
           /\ local'[v].batches = local[v].batches \cup results
           /\ Keeps(v, {"windows", "evidence", "batches"})
           /\ UNCHANGED <<fixed, tables, writer, entered>>
  <1> DEFINE new == kept \ evidence
             next == IF local[v].windows = {w} THEN "applying" ELSE "fetching"
  <1>0. /\ local' = [local EXCEPT ![v].windows = @ \ {w}, ![v].evidence = new,
                                  ![v].batches = @ \cup results]
        /\ Goto(v, next) /\ UNCHANGED <<fixed, tables, world, writer, entered>>
    BY DEF Fetched
  <1> HIDE DEF new, next
  <1>2. v \in Requests /\ DOMAIN local[v] = DOMAIN NoLocal
    BY Apart DEF TypeInv
  <1>3. /\ local'[v] = [local[v] EXCEPT !.windows = @ \ {w}, !.evidence = new,
                                        !.batches = @ \cup results]
        /\ \A u \in Valuers \ {v} : local'[u] = local[u]
        /\ local' = [u \in Valuers |-> local'[u]]
    BY <1>0 DEF TypeInv
  <1>4. /\ local'[v].windows = local[v].windows \ {w} /\ local'[v].evidence = new
        /\ local'[v].batches = local[v].batches \cup results
        /\ DOMAIN local'[v] = DOMAIN NoLocal
        /\ \A x \in DOMAIN NoLocal \ {"windows", "evidence", "batches"} :
              local'[v][x] = local[v][x]
    BY <1>2, <1>3 DEF NoLocal
  <1>5. /\ step'[v] = next /\ \A q \in Requests \ {v} : step'[q] = step[q]
        /\ step' = [q \in Requests |-> step'[q]]
    BY <1>0, <1>2 DEF Goto, TypeInv
  <1>6. OthersSame(v)
    BY <1>3, <1>4, <1>5, Apart DEF OthersSame, Requests
  <1> QED  BY <1>0, <1>4, <1>5, <1>6 DEF Keeps, new, next

LEMMA AfterTurnEffect ==
    ASSUME TypeInv, NEW v \in Valuers, NEW r, NEW change,
           AfterTurn(v, r, change), DOMAIN change = DOMAIN NoLocal
    PROVE  /\ OthersSame(v) /\ step' = step
           /\ local'[v].todo = change.todo \ {r}
           /\ \A x \in DOMAIN NoLocal \ {"todo"} : local'[v][x] = change[x]
           /\ UNCHANGED <<fixed, tables, writer, entered>>
  <1>1. local' = [local EXCEPT ![v] = [change EXCEPT !.todo = @ \ {r}]]
    BY DEF AfterTurn
  <1>2. /\ local'[v] = [change EXCEPT !.todo = @ \ {r}]
        /\ \A u \in Valuers \ {v} : local'[u] = local[u]
        /\ local' = [u \in Valuers |-> local'[u]]
    BY <1>1 DEF TypeInv
  <1>3. /\ local'[v].todo = change.todo \ {r} /\ DOMAIN local'[v] = DOMAIN NoLocal
        /\ \A x \in DOMAIN NoLocal \ {"todo"} : local'[v][x] = change[x]
    BY <1>2 DEF NoLocal
  <1>4. step' = step /\ UNCHANGED <<fixed, tables, writer, entered>>
    BY DEF AfterTurn
  <1> QED  BY <1>2, <1>3, <1>4 DEF OthersSame, TypeInv

LEMMA PassEffect ==
    ASSUME TypeInv, NEW v \in Valuers, SkipMissing(v) \/ NoteReview(v) \/ LeaveOpen(v)
    PROVE  /\ step[v] = "applying"
           /\ OthersSame(v) /\ step' = step
           /\ \E r \in local[v].todo : local'[v].todo = local[v].todo \ {r}
           /\ Keeps(v, {"todo", "noted"})
           /\ UNCHANGED <<fixed, tables, writer, entered>>
  <1> DEFINE Noting(r) == [local[v] EXCEPT
                 !.noted = @ \cup {[requirement |-> r, method |-> local[v].method]}]
  <1>0. DOMAIN local[v] = DOMAIN NoLocal
    BY DEF TypeInv
  <1>1. PICK r \in local[v].todo : /\ step[v] = "applying"
                                   /\ \/ AfterTurn(v, r, local[v])
                                      \/ AfterTurn(v, r, Noting(r))
    BY DEF SkipMissing, NoteReview, LeaveOpen, Turn
  <1>2. /\ DOMAIN Noting(r) = DOMAIN NoLocal
        /\ \A x \in DOMAIN NoLocal \ {"noted"} : Noting(r)[x] = local[v][x]
    BY <1>0 DEF NoLocal
  <1>3. PICK change : /\ AfterTurn(v, r, change) /\ DOMAIN change = DOMAIN NoLocal
                      /\ \A x \in DOMAIN NoLocal \ {"noted"} : change[x] = local[v][x]
    <2> HIDE DEF Noting
    <2> QED  BY <1>0, <1>1, <1>2
  <1>4. "todo" \in DOMAIN NoLocal
    BY DEF NoLocal
  <1> QED  BY <1>1, <1>3, <1>4, AfterTurnEffect DEF Keeps

LEMMA DraftEffect ==
    ASSUME TypeInv, NEW v \in Valuers, DecideNative(v) \/ DecideCached(v)
    PROVE  /\ step[v] = "applying"
           /\ OthersSame(v) /\ step' = step
           /\ \E r \in local[v].todo, p \in {Native} \cup local[v].cached :
                 /\ p # Native => p \in CachedFor(v, r)
                 /\ local'[v].todo = local[v].todo \ {r}
                 /\ local'[v].drafts = local[v].drafts \cup {Draft(v, r, p)}
           /\ Keeps(v, {"todo", "drafts"})
           /\ UNCHANGED <<fixed, tables, writer, entered>>
  <1> DEFINE Drafting(r, p) == [local[v] EXCEPT !.drafts = @ \cup {Draft(v, r, p)}]
  <1>0. DOMAIN local[v] = DOMAIN NoLocal
    BY DEF TypeInv
  <1>1. PICK r \in local[v].todo, p \in {Native} \cup local[v].cached :
            /\ step[v] = "applying" /\ (p # Native => p \in CachedFor(v, r))
            /\ AfterTurn(v, r, Drafting(r, p))
    BY DEF DecideNative, DecideCached, Turn, CachedFor, For
  <1>2. /\ DOMAIN Drafting(r, p) = DOMAIN NoLocal
        /\ Drafting(r, p).drafts = local[v].drafts \cup {Draft(v, r, p)}
        /\ \A x \in DOMAIN NoLocal \ {"drafts"} : Drafting(r, p)[x] = local[v][x]
    BY <1>0 DEF NoLocal
  <1>3. PICK change : /\ AfterTurn(v, r, change) /\ DOMAIN change = DOMAIN NoLocal
                      /\ change.drafts = local[v].drafts \cup {Draft(v, r, p)}
                      /\ \A x \in DOMAIN NoLocal \ {"drafts"} : change[x] = local[v][x]
    <2> HIDE DEF Drafting
    <2> QED  BY <1>1, <1>2
  <1>4. {"todo", "drafts"} \subseteq DOMAIN NoLocal
    BY DEF NoLocal
  <1> QED  BY <1>1, <1>3, <1>4, AfterTurnEffect DEF Keeps

AutomaticRead(v, b) == AutomaticFor(prices \cup local[v].prices, b.asset, b.day)

\* The price that DecideFetched uses for an answer: one it finds, or a new one.
Found(v, b, used) ==
    /\ used \in AutomaticRead(v, b)
    /\ local'[v].prices = local[v].prices

New(v, b, used) ==
    /\ used = Price(b.asset, b.day, FALSE, Contract,
                    IF AutomaticRead(v, b) = {} THEN 1 ELSE Newest(AutomaticRead(v, b)).version + 1,
                    b.outcome.answer[b.day], b.outcome.evidence)
    /\ local'[v].prices = local[v].prices \cup {used}

LEMMA FetchedEffect ==
    ASSUME TypeInv, NEW v \in Valuers, DecideFetched(v)
    PROVE  /\ step[v] = "applying"
           /\ OthersSame(v) /\ step' = step
           /\ \E r \in local[v].todo : \E b \in BatchFor(v, r) : \E used :
                 /\ CachedFor(v, r) = {} /\ Priced(r, local[v].method)
                 /\ b.outcome.answer[b.day] # NoData
                 /\ local'[v].todo = local[v].todo \ {r}
                 /\ local'[v].drafts = local[v].drafts \cup {Draft(v, r, used)}
                 /\ local'[v].cached = local[v].cached \cup {used}
                 /\ Found(v, b, used) \/ New(v, b, used)
           /\ Keeps(v, {"todo", "drafts", "cached", "prices"})
           /\ UNCHANGED <<fixed, tables, writer, entered>>
  <1> DEFINE Identical(b) == {p \in AutomaticRead(v, b) : p.content = b.outcome.answer[b.day]}
             Fresh(b) == Price(b.asset, b.day, FALSE, Contract,
                    IF AutomaticRead(v, b) = {} THEN 1 ELSE Newest(AutomaticRead(v, b)).version + 1,
                    b.outcome.answer[b.day], b.outcome.evidence)
             Used(b) == IF Identical(b) # {} THEN CHOOSE p \in Identical(b) : TRUE ELSE Fresh(b)
             Written(b) == IF Identical(b) # {} THEN local[v].prices
                           ELSE local[v].prices \cup {Used(b)}
             Deciding(r, b) == [local[v] EXCEPT !.drafts = @ \cup {Draft(v, r, Used(b))},
                                                !.cached = @ \cup {Used(b)},
                                                !.prices = Written(b)]
  <1>0. DOMAIN local[v] = DOMAIN NoLocal
    BY DEF TypeInv
  <1>1. PICK r \in local[v].todo : \E b \in BatchFor(v, r) :
            /\ step[v] = "applying" /\ CachedFor(v, r) = {} /\ Priced(r, local[v].method)
            /\ ~NoPrice(b) /\ AfterTurn(v, r, Deciding(r, b))
    BY DEF DecideFetched, Turn, AutomaticRead
  <1>2. PICK b \in BatchFor(v, r) :
            /\ step[v] = "applying" /\ CachedFor(v, r) = {} /\ Priced(r, local[v].method)
            /\ ~NoPrice(b) /\ AfterTurn(v, r, Deciding(r, b))
    BY <1>1
  <1>3. PICK used : used = Used(b)
    OBVIOUS
  <1>4. PICK written : written = Written(b)
    OBVIOUS
  <1>5. \/ used \in AutomaticRead(v, b) /\ written = local[v].prices
        \/ used = Fresh(b) /\ written = local[v].prices \cup {used}
    BY <1>3, <1>4
  <1>6. Deciding(r, b) = [local[v] EXCEPT !.drafts = @ \cup {Draft(v, r, used)},
                                          !.cached = @ \cup {used}, !.prices = written]
    <2> HIDE DEF Used, Written
    <2> QED  BY <1>3, <1>4
  <1>7. PICK change : change = Deciding(r, b)
    OBVIOUS
  <1>8. /\ DOMAIN change = DOMAIN NoLocal
        /\ change.drafts = local[v].drafts \cup {Draft(v, r, used)}
        /\ change.cached = local[v].cached \cup {used} /\ change.prices = written
        /\ \A x \in DOMAIN NoLocal \ {"drafts", "cached", "prices"} : change[x] = local[v][x]
    <2>1. change = [local[v] EXCEPT !.drafts = @ \cup {Draft(v, r, used)},
                                    !.cached = @ \cup {used}, !.prices = written]
      BY <1>6, <1>7
    <2> QED  BY <1>0, <2>1 DEF NoLocal
  <1> HIDE DEF Deciding, Used, Written, Identical
  <1>9. AfterTurn(v, r, change)
    BY <1>2, <1>7
  <1>10. {"todo", "drafts", "cached", "prices"} \subseteq DOMAIN NoLocal
    BY DEF NoLocal
  <1>11. /\ OthersSame(v) /\ step' = step
         /\ local'[v].todo = change.todo \ {r}
         /\ \A x \in DOMAIN NoLocal \ {"todo"} : local'[v][x] = change[x]
         /\ UNCHANGED <<fixed, tables, writer, entered>>
    BY <1>8, <1>9, AfterTurnEffect
  <1>12. /\ local'[v].todo = local[v].todo \ {r}
         /\ local'[v].drafts = local[v].drafts \cup {Draft(v, r, used)}
         /\ local'[v].cached = local[v].cached \cup {used} /\ local'[v].prices = written
         /\ Keeps(v, {"todo", "drafts", "cached", "prices"})
    BY <1>8, <1>10, <1>11 DEF Keeps
  <1>13. Found(v, b, used) \/ New(v, b, used)
    BY <1>5, <1>12 DEF Found, New
  <1> QED  BY <1>2, <1>11, <1>12, <1>13 DEF NoPrice

LEMMA EndEffect ==
    ASSUME TypeInv, NEW v \in Valuers, Commit(v) \/ Abort(v)
    PROVE  /\ OthersSame(v)
           /\ step'[v] = "done" /\ local'[v] = NoLocal
           /\ writer' = IF writer = v THEN None ELSE writer
           /\ UNCHANGED <<fixed, entered>>
  <1>1. local' = [local EXCEPT ![v] = NoLocal] /\ Goto(v, "done")
    BY DEF Commit, Abort
  <1>2. /\ local'[v] = NoLocal /\ \A u \in Valuers \ {v} : local'[u] = local[u]
        /\ local' = [u \in Valuers |-> local'[u]]
    BY <1>1 DEF TypeInv
  <1>3. /\ step'[v] = "done" /\ \A q \in Requests \ {v} : step'[q] = step[q]
        /\ step' = [q \in Requests |-> step'[q]]
    BY <1>1, Apart DEF Goto, TypeInv
  <1> QED  BY <1>2, <1>3, Apart DEF OthersSame, Requests, Commit, Abort, ReleaseLock

LEMMA EntryEffect ==
    ASSUME TypeInv, NEW e \in Enterers, EnterPrices(e) \/ StorePrices(e) \/ RefusePrices(e)
    PROVE  /\ \A v \in Valuers : local'[v] = local[v] /\ step'[v] = step[v]
           /\ local' = local /\ step' = [q \in Requests |-> step'[q]]
           /\ entered' = [d \in Enterers |-> entered'[d]]
           /\ \A d \in Enterers \ {e} : entered'[d] = entered[d]
           /\ ~EnterPrices(e) => entered'[e] = <<>>
           /\ UNCHANGED <<fixed, writer, decisions, noted, evidence>>
  <1>1. local' = local /\ \E x : Goto(e, x)
    BY DEF EnterPrices, StorePrices, RefusePrices
  <1>2. \E x : entered' = [entered EXCEPT ![e] = x]
    BY DEF EnterPrices, StorePrices, RefusePrices
  <1>3. \A q \in Requests \ {e} : step'[q] = step[q]
    BY <1>1 DEF Goto, TypeInv
  <1>4. entered' = [d \in Enterers |-> entered'[d]] /\ \A d \in Enterers \ {e} : entered'[d] = entered[d]
    BY <1>2 DEF TypeInv
  <1>5. ~EnterPrices(e) => entered'[e] = <<>>
    BY DEF StorePrices, RefusePrices, TypeInv
  <1>6. UNCHANGED <<fixed, writer, decisions, noted, evidence>>
    BY DEF EnterPrices, StorePrices, RefusePrices, tables
  <1>7. step' = [q \in Requests |-> step'[q]]
    BY <1>1 DEF Goto, TypeInv
  <1> QED  BY <1>1, <1>3, <1>4, <1>5, <1>6, <1>7, Apart DEF Requests

-----------------------------------------------------------------------------
(* Types.                                                                  *)

LEMMA InitType == Init => TypeInv
  <1> SUFFICES ASSUME Init PROVE TypeInv
    OBVIOUS
  <1>1. /\ engine \in {"sqlite", "postgresql"} /\ open \subseteq DOMAIN Requirement
        /\ step = [q \in Requests |-> step[q]] /\ \A q \in Requests : step[q] \in {"idle", "done"}
    BY ValuationAssumption DEF Init
  <1>2. \A v \in Valuers : v \in Requests /\ local[v] = NoLocal
    BY DEF Init, Requests
  <1>3. NoLocal.todo = {} /\ writer = None /\ \A e \in Enterers : entered[e] = <<>>
    BY DEF Init, NoLocal
  <1>4. local = [v \in Valuers |-> local[v]] /\ entered = [e \in Enterers |-> entered[e]]
    BY DEF Init
  <1>5. IsFiniteSet(DOMAIN <<>>)
    BY FS_EmptySet
  <1> QED  BY <1>1, <1>2, <1>3, <1>4, <1>5 DEF TypeInv, Running

LEMMA TypeStep == TypeInv /\ [Next]_vars => TypeInv'
  <1> SUFFICES ASSUME TypeInv, [Next]_vars PROVE TypeInv'
    OBVIOUS
  \* A step of one run leaves the rest of the types as they are.
  <1>0. ASSUME NEW v \in Valuers, OthersSame(v), UNCHANGED <<fixed, entered>>,
               step'[v] = "done" \/ Running(v)',
               ~Running(v)' => local'[v] = NoLocal,
               Running(v)' => local'[v].method \in Methods,
               local'[v].todo \subseteq open, writer' \in Requests \cup {None}
        PROVE  TypeInv'
    BY <1>0 DEF OthersSame, TypeInv, fixed, Running
  <1>a. NoLocal.todo = {} /\ {"method", "todo"} \subseteq DOMAIN NoLocal
    BY DEF NoLocal
  <1>1. ASSUME NEW v \in Valuers, StartRun(v) PROVE TypeInv'
    <2>1. local'[v].todo = {} /\ local'[v].method \in Methods
      BY <1>1, StartEffect DEF NoLocal
    <2>2. writer' \in Requests \cup {None}
      BY <1>1, StartEffect, Apart DEF TypeInv
    <2> QED  BY <1>0, <1>1, <2>1, <2>2, StartEffect DEF Running
  <1>2. ASSUME NEW v \in Valuers, ReadOpen(v) PROVE TypeInv'
    <2>1. local'[v].method = local[v].method /\ local'[v].todo \subseteq open
      BY <1>2, ReadEffect DEF Keeps, NoLocal
    <2> QED  BY <1>0, <1>2, <2>1, ReadEffect DEF Running, TypeInv
  <1>3. ASSUME NEW v \in Valuers, PlanFetches(v) PROVE TypeInv'
    <2>1. local'[v].method = local[v].method /\ local'[v].todo = local[v].todo
      BY <1>3, PlanEffect DEF Keeps, NoLocal
    <2>2. step[v] = "planning" /\ step'[v] \in {"applying", "fetching"} /\ OthersSame(v)
          /\ UNCHANGED <<fixed, entered, writer>>
      BY <1>3, PlanEffect
    <2> QED  BY <1>0, <2>1, <2>2 DEF Running, TypeInv
  <1>4. ASSUME NEW v \in Valuers, FetchWindow(v) \/ FetchFails(v) PROVE TypeInv'
    <2>1. PICK w, kept, results : Fetched(v, w, kept, results)
      BY <1>4 DEF FetchWindow, FetchFails
    <2>2. step[v] = "fetching"
      BY <1>4 DEF FetchWindow, FetchFails
    <2>3. local'[v].method = local[v].method /\ local'[v].todo = local[v].todo
      BY <2>1, <2>2, FetchEffect DEF Keeps, NoLocal
    <2>4. /\ OthersSame(v) /\ step'[v] \in {"applying", "fetching"}
          /\ UNCHANGED <<fixed, entered, writer>>
      BY <2>1, <2>2, FetchEffect
    <2> QED  BY <1>0, <2>2, <2>3, <2>4 DEF Running, TypeInv
  <1>5. ASSUME NEW v \in Valuers,
               \/ SkipMissing(v) \/ NoteReview(v) \/ LeaveOpen(v)
               \/ DecideNative(v) \/ DecideCached(v) \/ DecideFetched(v)
        PROVE  TypeInv'
    <2>1. /\ step[v] = "applying" /\ OthersSame(v) /\ step' = step
          /\ \E r \in local[v].todo : local'[v].todo = local[v].todo \ {r}
          /\ local'[v].method = local[v].method
          /\ UNCHANGED <<fixed, writer, entered>>
      BY <1>5, PassEffect, DraftEffect, FetchedEffect DEF Keeps, NoLocal
    <2> QED  BY <1>0, <2>1 DEF Running, TypeInv
  <1>6. ASSUME NEW v \in Valuers, Commit(v) \/ Abort(v) PROVE TypeInv'
    BY <1>0, <1>6, <1>a, EndEffect DEF Running, TypeInv
  <1>7. ASSUME NEW e \in Enterers, EnterPrices(e) \/ StorePrices(e) \/ RefusePrices(e)
        PROVE  TypeInv'
    <2>1. IsFiniteSet(DOMAIN entered'[e])
      <3>1. CASE EnterPrices(e)
        <4>1. PICK rows \in Entries : entered'[e] = [i \in {i \in DOMAIN rows : ~Repeats(rows[i])} |-> ManualDraft(rows[i])]
          BY <3>1 DEF EnterPrices, TypeInv
        <4>2. IsFiniteSet(DOMAIN rows)
          BY ValuationAssumption
        <4>3. DOMAIN entered'[e] \in SUBSET DOMAIN rows
          BY <4>1
        <4> QED  BY <4>2, <4>3, FS_Subset
      <3>2. CASE ~EnterPrices(e)
        BY <1>7, <3>2, EntryEffect, FS_EmptySet
      <3> QED  BY <3>1, <3>2
    <2> QED  BY <1>7, <2>1, EntryEffect DEF TypeInv, fixed, Running
  <1>8. ASSUME NEW a, NEW d, NEW c, Revise(a, d, c) PROVE TypeInv'
    BY <1>8 DEF Revise, TypeInv, fixed, Running
  <1>9. CASE UNCHANGED vars
    BY <1>9 DEF vars, TypeInv, Running
  <1> QED  BY <1>1, <1>2, <1>3, <1>4, <1>5, <1>6, <1>7, <1>8, <1>9 DEF Next

-----------------------------------------------------------------------------
(* Versions.                                                               *)

LEMMA Topmost ==
    ASSUME NEW rows, IsFiniteSet(rows), rows # {}, \A p \in rows : p.version \in Nat
    PROVE  /\ Newest(rows) \in rows
           /\ \A q \in rows : q.version <= Newest(rows).version
  <1> DEFINE f == [p \in rows |-> p.version]
             S == {p.version : p \in rows}
  <1>1. \A p \in rows : f[p] \in Nat
    OBVIOUS
  <1> HIDE DEF f
  <1>2. SumOf(f, rows) \in Nat /\ \A p \in rows : f[p] <= SumOf(f, rows)
    BY <1>1, SumPositive
  <1> USE DEF f
  <1>3. S \in SUBSET Nat /\ S # {} /\ \A n \in S : n <= SumOf(f, rows)
    BY <1>2
  <1>4. Max(S) \in S /\ \A n \in S : n <= Max(S)
    <2> HIDE DEF S, f
    <2> QED  BY <1>2, <1>3, GreatestNatural
  <1>5. \E p \in rows : \A q \in rows : q.version <= p.version
    BY <1>4
  <1> QED  BY <1>5 DEF Newest

\* Rows of distinct versions that each follow another have the versions 1, 2, ..., n.
LEMMA VersionsCount ==
    ASSUME NEW rows, IsFiniteSet(rows),
           \A p \in rows : p.version \in Nat \ {0},
           \A p \in rows : p.version > 1 => \E q \in rows : q.version = p.version - 1,
           \A p, q \in rows : p.version = q.version => p = q
    PROVE  {p.version : p \in rows} = 1 .. Cardinality(rows)
  <1> DEFINE S == {p.version : p \in rows}
  <1>1. CASE rows = {}
    BY <1>1, FS_EmptySet
  <1>2. CASE rows # {}
    <2>1. PICK top \in rows : \A q \in rows : q.version <= top.version
      BY <1>2, Topmost
    <2>2. S \in SUBSET Nat /\ S \subseteq 1 .. top.version
      BY <2>1
    <2>3. 1 .. top.version \subseteq S
      <3> SUFFICES ASSUME NEW k \in 1 .. top.version, k \notin S PROVE FALSE
        OBVIOUS
      <3> DEFINE above == {n \in S : n > k}
      <3>1. above \in SUBSET Nat /\ top.version \in above
        BY <2>2, <2>1
      <3>2. PICK m \in above : \A n \in above : m <= n
        <4> HIDE DEF above
        <4> QED  BY <3>1, LeastNatural
      <3>3. m - 1 \in S
        BY <3>2
      <3>4. m - 1 \in above
        BY <3>2, <3>3, <2>2
      <3> QED  BY <3>2, <3>4, <2>2
    <2>4. S = 1 .. top.version /\ top.version \in Nat
      BY <2>1, <2>2, <2>3
    <2> DEFINE f == [p \in rows |-> p.version]
    <2>5. f \in Bijection(rows, 1 .. top.version)
      <3>1. f \in [rows -> 1 .. top.version] /\ \A n \in 1 .. top.version : \E p \in rows : f[p] = n
        BY <2>4
      <3>2. \A p, q \in rows : f[p] = f[q] => p = q
        OBVIOUS
      <3> QED  BY <3>1, <3>2 DEF Bijection, Injection, Surjection, IsInjective
    <2>6. Cardinality(1 .. top.version) = Cardinality(rows)
      BY <2>5, FS_Bijection DEF ExistsBijection
    <2>7. Cardinality(1 .. top.version) = top.version
      BY <2>4, FS_Interval
    <2> QED  BY <2>4, <2>6, <2>7
  <1> QED  BY <1>1, <1>2

-----------------------------------------------------------------------------
(* Prices.                                                                 *)

LEMMA ChainGrows ==
    ASSUME NEW rows, NEW new, Chain(rows), IsFiniteSet(new), Once(new),
           \A p \in new : Follows(p, rows \cup new),
           \A p \in new : \A q \in rows : SamePrice(p, q) => p.version # q.version
    PROVE  Chain(rows \cup new)
  <1>1. IsFiniteSet(rows \cup new)
    BY FS_Union DEF Chain
  <1>2. ASSUME NEW p \in rows \cup new
        PROVE  /\ p.version \in Nat \ {0}
               /\ p.version > 1 =>
                     \E q \in rows \cup new : SamePrice(p, q) /\ q.version = p.version - 1
    BY <1>2 DEF Chain, Follows
  <1>3. ASSUME NEW p \in rows \cup new, NEW q \in rows \cup new,
               SamePrice(p, q), p.version = q.version
        PROVE  p = q
    <2>1. SamePrice(q, p)
      BY <1>3 DEF SamePrice
    <2> QED  BY <1>3, <2>1 DEF Chain, Once
  <1> QED  BY <1>1, <1>2, <1>3 DEF Chain

LEMMA FollowsMore ==
    ASSUME NEW p, NEW rows, NEW more, Follows(p, rows), rows \subseteq more
    PROVE  Follows(p, more)
  BY DEF Follows

\* A new automatic price is the next version of those the run has read.
LEMMA NewFollows ==
    ASSUME PricesFollow, NEW v \in Valuers, NEW b, NEW used, New(v, b, used)
    PROVE  /\ Follows(used, prices \cup local[v].prices)
           /\ \A q \in local[v].prices : SamePrice(used, q) => q.version # used.version
  <1> DEFINE rows == prices \cup local[v].prices
             automatic == AutomaticRead(v, b)
  <1>1. IsFiniteSet(rows)
    BY FS_Union DEF PricesFollow, Chain
  <1>2. /\ automatic \in SUBSET rows
        /\ \A p \in rows : Kind(p) /\ p.version \in Nat \ {0}
        /\ \A p \in automatic : /\ p.asset = b.asset /\ p.day = b.day /\ p.manual = FALSE
                                /\ p.contract = Contract
    BY DEF AutomaticRead, AutomaticFor, For, PricesFollow, Chain, Follows, Kind
  <1>3. /\ used.asset = b.asset /\ used.day = b.day /\ used.manual = FALSE
        /\ used.contract = Contract
        /\ used.version = IF automatic = {} THEN 1 ELSE Newest(automatic).version + 1
    BY DEF New, Price
  <1>4. Kind(used)
    BY <1>3 DEF Kind
  <1>5. \A q \in rows : SamePrice(used, q) => q \in automatic
    BY <1>3 DEF AutomaticRead, AutomaticFor, For, SamePrice
  <1>6. \A q \in automatic : SamePrice(used, q)
    BY <1>2, <1>3 DEF SamePrice
  <1> HIDE DEF automatic, rows
  <1>7. CASE automatic = {}
    <2>1. used.version = 1 /\ \A q \in rows : ~SamePrice(used, q)
      BY <1>3, <1>5, <1>7
    <2> QED  BY <1>4, <2>1 DEF Follows, rows
  <1>8. CASE automatic # {}
    <2>1. IsFiniteSet(automatic) /\ \A p \in automatic : p.version \in Nat
      BY <1>1, <1>2, FS_Subset
    <2>2. /\ Newest(automatic) \in automatic
          /\ \A q \in automatic : q.version <= Newest(automatic).version
      BY <1>8, <2>1, Topmost
    <2>3. used.version = Newest(automatic).version + 1 /\ Newest(automatic).version \in Nat \ {0}
      BY <1>2, <1>3, <1>8, <2>2
    <2>4. Newest(automatic).version = used.version - 1 /\ used.version \in Nat \ {0}
      BY <2>3
    <2>5. Newest(automatic) \in rows /\ SamePrice(used, Newest(automatic))
      BY <1>2, <1>6, <2>2
    <2>6. Follows(used, rows)
      BY <1>4, <2>4, <2>5 DEF Follows
    <2>7. \A q \in rows : SamePrice(used, q) => q.version \in Nat /\ q.version < used.version
      BY <1>5, <2>1, <2>2, <2>3
    <2> QED  BY <2>6, <2>7 DEF rows
  <1> QED  BY <1>7, <1>8

LEMMA ManualFollows ==
    ASSUME PricesFollow, NEW row
    PROVE  Follows(ManualDraft(row), prices)
  <1> DEFINE manual == ManualFor(prices, row.asset, row.day)
             draft == ManualDraft(row)
  <1>1. /\ draft.asset = row.asset /\ draft.day = row.day /\ draft.manual = TRUE
        /\ draft.contract = "manual-v1"
        /\ draft.version = IF manual # {} THEN Newest(manual).version + 1 ELSE 1
    BY DEF ManualDraft, Price, HasManual, NewestManual
  <1>2. \A p \in prices : Kind(p) /\ p.version \in Nat \ {0}
    BY DEF PricesFollow, Chain
  <1>3. manual \in SUBSET prices /\ \A p \in manual : SamePrice(draft, p)
    BY <1>1, <1>2 DEF ManualFor, For, Kind, SamePrice
  <1>4. IsFiniteSet(manual)
    BY <1>3, FS_Subset DEF PricesFollow, Chain
  <1> HIDE DEF manual, draft
  <1>0. Kind(draft)
    BY <1>1 DEF Kind
  <1>5. CASE manual = {}
    <2>1. draft.version = 1
      BY <1>1, <1>5
    <2> QED  BY <1>0, <2>1 DEF Follows, draft
  <1>6. CASE manual # {}
    <2>1. Newest(manual) \in manual
      BY <1>2, <1>3, <1>4, <1>6, Topmost
    <2>2. Newest(manual).version \in Nat \ {0} /\ draft.version = Newest(manual).version + 1
      BY <1>1, <1>2, <1>3, <1>6, <2>1
    <2>3. Newest(manual).version = draft.version - 1 /\ draft.version \in Nat \ {0}
      BY <2>2
    <2>4. SamePrice(draft, Newest(manual)) /\ Newest(manual) \in prices
      BY <1>3, <2>1
    <2> QED  BY <1>0, <2>3, <2>4 DEF Follows, draft
  <1> QED  BY <1>5, <1>6

LEMMA InitPrices == Init => PricesFollow
  <1> SUFFICES ASSUME Init PROVE PricesFollow
    OBVIOUS
  <1>1. Chain(prices) /\ \A p \in prices : Kind(p)
    BY StoredAssumption DEF Init, Kind
  <1>2. \A v \in Valuers : local[v].prices = {}
    BY DEF Init, NoLocal
  <1>3. \A e \in Enterers : DOMAIN entered[e] = {}
    BY DEF Init
  <1> QED  BY <1>1, <1>2, <1>3, FS_EmptySet DEF PricesFollow, Once

LEMMA PricesStep == TypeInv /\ PricesFollow /\ [Next]_vars => PricesFollow'
  <1> SUFFICES ASSUME TypeInv, PricesFollow, [Next]_vars PROVE PricesFollow'
    OBVIOUS
  <1>a. NoLocal.prices = {} /\ {"prices"} \subseteq DOMAIN NoLocal
    BY DEF NoLocal
  <1>b. IsFiniteSet({}) /\ Once({})
    BY FS_EmptySet DEF Once
  <1>0. ASSUME UNCHANGED prices,
               \A v \in Valuers : local'[v].prices = local[v].prices \/ local'[v].prices = {},
               \A e \in Enterers : entered'[e] = entered[e] \/ entered'[e] = <<>>
        PROVE  PricesFollow'
    <2>1. ASSUME NEW v \in Valuers
          PROVE  /\ IsFiniteSet(local'[v].prices) /\ Once(local'[v].prices)
                 /\ \A p \in local'[v].prices : Follows(p, prices' \cup local'[v].prices)
      BY <1>0, <1>b DEF PricesFollow
    <2>2. ASSUME NEW e \in Enterers, NEW i \in DOMAIN entered'[e]
          PROVE  Follows(entered'[e][i], prices')
      BY <1>0 DEF PricesFollow
    <2> QED  BY <1>0, <2>1, <2>2 DEF PricesFollow
  <1>1. ASSUME NEW v \in Valuers,
               \/ StartRun(v) \/ ReadOpen(v) \/ PlanFetches(v) \/ FetchWindow(v) \/ FetchFails(v)
               \/ SkipMissing(v) \/ NoteReview(v) \/ LeaveOpen(v)
               \/ DecideNative(v) \/ DecideCached(v) \/ Abort(v)
        PROVE  PricesFollow'
    <2>1. /\ OthersSame(v) /\ local'[v].prices \in {local[v].prices, {}}
          /\ UNCHANGED <<prices, entered>>
      <3>1. CASE StartRun(v)
        BY <3>1, <1>a, StartEffect DEF tables, NoLocal
      <3>2. CASE ReadOpen(v) \/ PlanFetches(v)
        <4>1. /\ OthersSame(v) /\ UNCHANGED <<tables, entered>>
              /\ Keeps(v, {"todo", "known"}) \/ Keeps(v, {"cached", "windows", "batches"})
          BY <3>2, ReadEffect, PlanEffect
        <4> QED  BY <4>1 DEF tables, Keeps, NoLocal
      <3>3. CASE FetchWindow(v) \/ FetchFails(v)
        <4>1. step[v] = "fetching" /\ \E w, kept, results : Fetched(v, w, kept, results)
          BY <3>3 DEF FetchWindow, FetchFails
        <4> QED  BY <4>1, FetchEffect DEF tables, Keeps, NoLocal
      <3>4. CASE SkipMissing(v) \/ NoteReview(v) \/ LeaveOpen(v)
        BY <3>4, PassEffect DEF tables, Keeps, NoLocal
      <3>5. CASE DecideNative(v) \/ DecideCached(v)
        BY <3>5, DraftEffect DEF tables, Keeps, NoLocal
      <3>6. CASE Abort(v)
        BY <3>6, <1>a, EndEffect DEF Abort, tables
      <3> QED  BY <1>1, <3>1, <3>2, <3>3, <3>4, <3>5, <3>6
    <2> QED  BY <1>0, <2>1 DEF OthersSame
  <1>2. ASSUME NEW v \in Valuers, DecideFetched(v) PROVE PricesFollow'
    <2>1. PICK b, used : Found(v, b, used) \/ New(v, b, used)
      BY <1>2, FetchedEffect
    <2>2. OthersSame(v) /\ UNCHANGED <<prices, entered>>
      BY <1>2, FetchedEffect DEF tables
    <2>3. CASE Found(v, b, used)
      BY <1>0, <2>2, <2>3 DEF OthersSame, Found
    <2>4. CASE New(v, b, used)
      <3> DEFINE new == local'[v].prices
      <3>1. new = local[v].prices \cup {used}
        BY <2>4 DEF New
      <3>2. IsFiniteSet(new)
        BY <3>1, FS_AddElement DEF PricesFollow
      <3>3. /\ Follows(used, prices \cup local[v].prices)
            /\ \A q \in local[v].prices : SamePrice(used, q) => q.version # used.version
        BY <2>4, NewFollows
      <3>4. Once(new)
        BY <3>1, <3>3 DEF Once, SamePrice, PricesFollow
      <3>5. ASSUME NEW p \in new PROVE Follows(p, prices \cup new)
        <4>1. Follows(p, prices \cup local[v].prices)
          BY <3>1, <3>3 DEF PricesFollow
        <4>2. prices \cup local[v].prices \subseteq prices \cup new
          BY <3>1
        <4> QED  BY <4>1, <4>2, FollowsMore
      <3> HIDE DEF new
      <3>6. ASSUME NEW u \in Valuers
            PROVE  /\ IsFiniteSet(local'[u].prices) /\ Once(local'[u].prices)
                   /\ \A p \in local'[u].prices : Follows(p, prices' \cup local'[u].prices)
        <4>1. CASE u = v
          BY <2>2, <3>2, <3>4, <3>5, <4>1 DEF new
        <4>2. CASE u # v
          BY <2>2, <4>2 DEF OthersSame, PricesFollow
        <4> QED  BY <4>1, <4>2
      <3> QED  BY <2>2, <3>6 DEF PricesFollow
    <2> QED  BY <2>1, <2>3, <2>4
  <1>c. ASSUME NEW new, prices' = prices \cup new, IsFiniteSet(new), Once(new), PricesFree(new),
               \A p \in new : Follows(p, prices \cup new),
               \A v \in Valuers : local'[v].prices = local[v].prices \/ local'[v].prices = {},
               \A e \in Enterers : entered'[e] = entered[e] \/ entered'[e] = <<>>
        PROVE  PricesFollow'
    <2>1. Chain(prices')
      BY <1>c, ChainGrows DEF PricesFollow, PricesFree
    <2>2. \A p \in prices' : Kind(p)
      BY <1>c DEF PricesFollow, Follows
    <2>3. ASSUME NEW v \in Valuers
          PROVE  /\ IsFiniteSet(local'[v].prices) /\ Once(local'[v].prices)
                 /\ \A p \in local'[v].prices : Follows(p, prices' \cup local'[v].prices)
      <3>1. CASE local'[v].prices = local[v].prices
        <4>1. prices \cup local[v].prices \subseteq prices' \cup local[v].prices
          BY <1>c
        <4>2. ASSUME NEW p \in local[v].prices
              PROVE  Follows(p, prices' \cup local[v].prices)
          <5>1. Follows(p, prices \cup local[v].prices)
            BY DEF PricesFollow
          <5> QED  BY <4>1, <5>1, FollowsMore
        <4> QED  BY <3>1, <4>2 DEF PricesFollow
      <3>2. CASE local'[v].prices = {}
        BY <1>b, <3>2
      <3> QED  BY <1>c, <3>1, <3>2
    <2>4. ASSUME NEW e \in Enterers, NEW i \in DOMAIN entered'[e]
          PROVE  Follows(entered'[e][i], prices')
      <3>1. entered'[e] = entered[e]
        BY <1>c, <2>4
      <3>2. Follows(entered[e][i], prices) /\ prices \subseteq prices'
        BY <1>c, <2>4, <3>1 DEF PricesFollow
      <3> QED  BY <3>1, <3>2, FollowsMore
    <2> QED  BY <2>1, <2>2, <2>3, <2>4 DEF PricesFollow
  <1>3. ASSUME NEW v \in Valuers, Commit(v) PROVE PricesFollow'
    <2>1. /\ prices' = prices \cup local[v].prices /\ PricesFree(local[v].prices)
          /\ OthersSame(v) /\ local'[v].prices = {} /\ UNCHANGED entered
      BY <1>3, <1>a, EndEffect DEF Commit, RunCommits
    <2>2. /\ IsFiniteSet(local[v].prices) /\ Once(local[v].prices)
          /\ \A p \in local[v].prices : Follows(p, prices \cup local[v].prices)
      BY DEF PricesFollow
    <2> QED  BY <1>c, <2>1, <2>2 DEF OthersSame
  <1>4. ASSUME NEW e \in Enterers, EnterPrices(e) PROVE PricesFollow'
    <2>1. PICK rows : entered'[e] = [i \in {i \in DOMAIN rows : ~Repeats(rows[i])} |-> ManualDraft(rows[i])]
      BY <1>4 DEF EnterPrices, TypeInv
    <2>2. \A i \in DOMAIN entered'[e] : Follows(entered'[e][i], prices)
      BY <2>1, ManualFollows
    <2>3. UNCHANGED <<prices, local>> /\ \A d \in Enterers \ {e} : entered'[d] = entered[d]
      BY <1>4, EntryEffect DEF EnterPrices, tables
    <2> QED  BY <2>2, <2>3 DEF PricesFollow
  <1>5. ASSUME NEW e \in Enterers, StorePrices(e) PROVE PricesFollow'
    <2> DEFINE new == Range(entered[e])
    <2>1. /\ prices' = prices \cup new /\ PricesFree(new)
          /\ \A i, j \in DOMAIN entered[e] : i # j => ~SamePrice(entered[e][i], entered[e][j])
      BY <1>5 DEF StorePrices, EntryCommits
    <2>2. IsFiniteSet(new)
      <3> DEFINE f == [i \in DOMAIN entered[e] |-> entered[e][i]]
      <3>1. f \in Surjection(DOMAIN entered[e], new)
        BY DEF Surjection, Range
      <3> QED  BY <3>1, FS_Surjection DEF TypeInv
    <2>3. Once(new)
      BY <2>1 DEF Once, Range
    <2>4. \A p \in new : Follows(p, prices)
      BY DEF Range, PricesFollow
    <2>5. \A p \in new : Follows(p, prices \cup new)
      BY <2>4, FollowsMore
    <2>6. /\ \A v \in Valuers : local'[v].prices = local[v].prices
          /\ \A d \in Enterers : entered'[d] = entered[d] \/ entered'[d] = <<>>
      <3>1. ~EnterPrices(e)
        BY <1>5 DEF StorePrices, EnterPrices
      <3> QED  BY <1>5, <3>1, EntryEffect
    <2> HIDE DEF new
    <2> QED  BY <1>c, <2>1, <2>2, <2>3, <2>5, <2>6
  <1>6. ASSUME NEW e \in Enterers, RefusePrices(e) PROVE PricesFollow'
    <2>1. /\ local' = local /\ prices' = prices
          /\ \A d \in Enterers : entered'[d] = entered[d] \/ entered'[d] = <<>>
      BY <1>6 DEF RefusePrices, tables, TypeInv
    <2> QED  BY <1>0, <2>1
  <1>7. ASSUME NEW a, NEW d, NEW c, Revise(a, d, c) PROVE PricesFollow'
    BY <1>0, <1>7 DEF Revise, tables
  <1>8. CASE UNCHANGED vars
    BY <1>0, <1>8 DEF vars
  <1> QED  BY <1>1, <1>2, <1>3, <1>4, <1>5, <1>6, <1>7, <1>8 DEF Next

LEMMA ChainsHaveNoGaps == Chain(prices) => PriceHistoryIsAChain
  <1> SUFFICES ASSUME Chain(prices), NEW p \in prices
               PROVE  LET same == {q \in prices : SamePrice(p, q)}
                      IN {q.version : q \in same} = 1 .. Cardinality(same)
    BY DEF PriceHistoryIsAChain
  <1> DEFINE same == {q \in prices : SamePrice(p, q)}
  <1>1. IsFiniteSet(same)
    BY FS_Subset DEF Chain
  <1>2. \A q \in same : q.version \in Nat \ {0}
    BY DEF Chain
  <1>3. \A q \in same : q.version > 1 => \E s \in same : s.version = q.version - 1
    BY DEF Chain, SamePrice
  <1>4. \A q, s \in same : q.version = s.version => q = s
    BY DEF Chain, SamePrice
  <1> HIDE DEF same
  <1>5. {q.version : q \in same} = 1 .. Cardinality(same)
    BY <1>1, <1>2, <1>3, <1>4, VersionsCount
  <1> QED  BY <1>5 DEF same

\* What a request is about to write follows what is stored, so that the chains never
\* break: the strengthening PriceHistoryIsAChain needs.
THEOREM PricesInductive == Spec => [](TypeInv /\ PricesFollow)
  <1> QED  BY InitType, InitPrices, TypeStep, PricesStep, PTL DEF Spec

\* The versions of a price have neither gap nor repetition, however many requests take
\* their versions from what they read before.
THEOREM PricesAreChains == Spec => []PriceHistoryIsAChain
  <1>1. PricesFollow => PriceHistoryIsAChain
    BY ChainsHaveNoGaps DEF PricesFollow
  <1> QED  BY <1>1, PricesInductive, PTL

-----------------------------------------------------------------------------
(* Decisions.                                                              *)

LEMMA VersionsOn ==
    ASSUME DecisionsFollow, NEW r
    PROVE  /\ IsFiniteSet(DecisionsOn(r)) /\ Cardinality(DecisionsOn(r)) \in Nat
           /\ {d.version : d \in DecisionsOn(r)} = 1 .. Cardinality(DecisionsOn(r))
  <1> DEFINE rows == DecisionsOn(r)
  <1>1. IsFiniteSet(rows) /\ Cardinality(rows) \in Nat
    BY FS_Subset, FS_CardinalityType DEF DecisionsOn, DecisionsFollow
  <1>2. \A d \in rows : d.version \in Nat \ {0}
    BY DEF DecisionsOn, DecisionsFollow
  <1>3. \A d \in rows : d.version > 1 => \E e \in rows : e.version = d.version - 1
    BY DEF DecisionsOn, DecisionsFollow
  <1>4. \A d, e \in rows : d.version = e.version => d = e
    BY DEF DecisionsOn, DecisionsFollow
  <1> HIDE DEF rows
  <1>5. {d.version : d \in rows} = 1 .. Cardinality(rows)
    BY <1>1, <1>2, <1>3, <1>4, VersionsCount
  <1> QED  BY <1>1, <1>5 DEF rows

\* A decision the unique key lets in is the next one of its requirement, and the run
\* has seen all decisions before it.
LEMMA DecidesNext ==
    ASSUME DecisionsFollow, NEW v \in Valuers, DraftsOf(v), KnownOf(v),
           VersionsFree(local[v].drafts), NEW d \in local[v].drafts
    PROVE  /\ local[v].known[d.requirement] = Cardinality(DecisionsOn(d.requirement))
           /\ d.version = Cardinality(DecisionsOn(d.requirement)) + 1
           /\ \A e \in DecisionsOn(d.requirement) :
                 e.version \in 1 .. Cardinality(DecisionsOn(d.requirement))
  <1> DEFINE r == d.requirement
             n == Cardinality(DecisionsOn(d.requirement))
             k == local[v].known[d.requirement]
             S == {e.version : e \in DecisionsOn(d.requirement)}
  <1>1. n \in Nat /\ S = 1 .. n
    BY VersionsOn
  <1>2. k \in Nat /\ (k > 0 => k \in S) /\ d.version = k + 1
    BY DEF DraftsOf, KnownOf
  <1>3. d.version \notin S
    BY DEF VersionsFree
  <1>4. \A e \in DecisionsOn(d.requirement) : e.version \in S
    OBVIOUS
  <1> HIDE DEF n, k, S
  <1>5. k = n
    BY <1>1, <1>2, <1>3
  <1>6. d.version = n + 1 /\ \A e \in DecisionsOn(d.requirement) : e.version \in 1 .. n
    BY <1>1, <1>2, <1>4, <1>5
  <1> QED  BY <1>5, <1>6 DEF n, k

LEMMA NewestIsStored ==
    ASSUME DecisionsFollow, NEW r
    PROVE  /\ NewestVersion(r) \in Nat
           /\ NewestVersion(r) > 0 => \E d \in DecisionsOn(r) : d.version = NewestVersion(r)
           /\ \A d \in DecisionsOn(r) : d.version <= NewestVersion(r)
  <1> DEFINE S == {d.version : d \in DecisionsOn(r)} \cup {0}
             n == Cardinality(DecisionsOn(r))
             top == NewestVersion(r)
  <1>1. n \in Nat /\ {d.version : d \in DecisionsOn(r)} = 1 .. n
    BY VersionsOn
  <1>2. S \in SUBSET Nat /\ S # {} /\ \A m \in S : m <= n
    BY <1>1
  <1>3. top = Max(S)
    BY DEF NewestVersion
  <1>4. top \in S /\ \A m \in S : m <= top
    <2> HIDE DEF S, n, top
    <2> QED  BY <1>1, <1>2, <1>3, GreatestNatural
  <1>5. \A d \in DecisionsOn(r) : d.version \in S
    OBVIOUS
  <1>6. top > 0 => \E d \in DecisionsOn(r) : d.version = top
    <2> HIDE DEF top
    <2> QED  BY <1>4
  <1> HIDE DEF top
  <1>7. top \in Nat /\ \A d \in DecisionsOn(r) : d.version <= top
    BY <1>2, <1>4, <1>5
  <1> QED  BY <1>6, <1>7 DEF top

LEMMA InitDecisions == Init => DecisionsFollow /\ DraftsFollow
  <1> SUFFICES ASSUME Init PROVE DecisionsFollow /\ DraftsFollow
    OBVIOUS
  <1>1. decisions = {} /\ \A v \in Valuers : local[v].drafts = {} /\ ~HasRead(v)
    BY DEF Init, NoLocal, HasRead, Requests
  <1> QED  BY <1>1, FS_EmptySet DEF DecisionsFollow, DraftsFollow, DraftsOf, KnownOf

LEMMA DraftsGrow ==
    ASSUME NEW v \in Valuers, DraftsOf(v), KnownOf(v), NEW r \in local[v].todo, NEW p,
           TypeInv, step[v] = "applying", step' = step, UNCHANGED <<open, decisions>>,
           local'[v].todo = local[v].todo \ {r},
           local'[v].drafts = local[v].drafts \cup {Draft(v, r, p)},
           local'[v].known = local[v].known, local'[v].method = local[v].method
    PROVE  DraftsOf(v)' /\ KnownOf(v)'
  <1> DEFINE d == Draft(v, r, p)
  <1>1. /\ d.requirement = r /\ d.method = local[v].method /\ d.by = v
        /\ d.version = local[v].known[r] + 1
    BY DEF Draft
  <1>2. r \in open /\ HasRead(v) /\ HasRead(v)'
    BY DEF TypeInv, HasRead
  <1>3. IsFiniteSet(local'[v].drafts)
    BY FS_AddElement DEF DraftsOf
  <1> HIDE DEF d
  <1>4. local'[v].drafts = local[v].drafts \cup {d}
    BY DEF d
  <1>5. \A e \in local[v].drafts : e.requirement # r
    BY DEF DraftsOf
  <1>6. DraftsOf(v)'
    BY <1>1, <1>2, <1>3, <1>4, <1>5 DEF DraftsOf
  <1>7. KnownOf(v)'
    <2> SUFFICES ASSUME NEW s \in open
                 PROVE  /\ local[v].known[s] \in Nat
                        /\ local[v].known[s] > 0 =>
                              \E e \in DecisionsOn(s) : e.version = local[v].known[s]
                        /\ (s \in local'[v].todo \/ \E e \in local'[v].drafts : e.requirement = s) =>
                              \A e \in DecisionsOn(s) :
                                  e.version <= local[v].known[s] => e.method # local[v].method
      BY DEF KnownOf, DecisionsOn
    <2>1. (s \in local'[v].todo \/ \E e \in local'[v].drafts : e.requirement = s) =>
              (s \in local[v].todo \/ \E e \in local[v].drafts : e.requirement = s)
      BY <1>1, <1>4
    <2> QED  BY <1>2, <2>1 DEF KnownOf
  <1> QED  BY <1>6, <1>7

LEMMA DecisionsStep == TypeInv /\ DecisionsFollow /\ DraftsFollow /\ [Next]_vars => DecisionsFollow'
  <1> SUFFICES ASSUME TypeInv, DecisionsFollow, DraftsFollow, [Next]_vars PROVE DecisionsFollow'
    OBVIOUS
  <1>0. ASSUME UNCHANGED <<decisions, open>>, \A v \in Valuers : step[v] = "done" => step'[v] = "done"
        PROVE  DecisionsFollow'
    BY <1>0 DEF DecisionsFollow, DecisionsOn
  <1>1. ASSUME NEW v \in Valuers, step[v] # "done", UNCHANGED <<decisions, open>>, OthersSame(v)
        PROVE  DecisionsFollow'
    BY <1>0, <1>1 DEF OthersSame
  <1>2. ASSUME NEW v \in Valuers, StartRun(v) PROVE DecisionsFollow'
    BY <1>1, <1>2, StartEffect DEF fixed, tables
  <1>3. ASSUME NEW v \in Valuers, ReadOpen(v) PROVE DecisionsFollow'
    BY <1>1, <1>3, ReadEffect DEF fixed, tables
  <1>4. ASSUME NEW v \in Valuers, PlanFetches(v) PROVE DecisionsFollow'
    <2>1. step[v] = "planning" /\ OthersSame(v) /\ UNCHANGED <<fixed, tables>>
      BY <1>4, PlanEffect
    <2> QED  BY <1>1, <2>1 DEF fixed, tables
  <1>5. ASSUME NEW v \in Valuers, FetchWindow(v) \/ FetchFails(v) PROVE DecisionsFollow'
    <2>1. step[v] = "fetching" /\ \E w, kept, results : Fetched(v, w, kept, results)
      BY <1>5 DEF FetchWindow, FetchFails
    <2>2. OthersSame(v) /\ UNCHANGED <<fixed, tables>>
      BY <2>1, FetchEffect
    <2> QED  BY <1>1, <2>1, <2>2 DEF fixed, tables
  <1>6. ASSUME NEW v \in Valuers,
               \/ SkipMissing(v) \/ NoteReview(v) \/ LeaveOpen(v)
               \/ DecideNative(v) \/ DecideCached(v) \/ DecideFetched(v)
        PROVE  DecisionsFollow'
    <2>1. step[v] = "applying" /\ OthersSame(v) /\ UNCHANGED <<fixed, tables>>
      BY <1>6, PassEffect, DraftEffect, FetchedEffect
    <2> QED  BY <1>1, <2>1 DEF fixed, tables
  <1>7. ASSUME NEW v \in Valuers, Abort(v) PROVE DecisionsFollow'
    BY <1>1, <1>7, EndEffect DEF Abort, fixed, tables
  <1>8. ASSUME NEW v \in Valuers, Commit(v) PROVE DecisionsFollow'
    <2>1. /\ step[v] = "applying" /\ step'[v] = "done" /\ OthersSame(v) /\ open' = open
          /\ decisions' = decisions \cup local[v].drafts /\ VersionsFree(local[v].drafts)
      BY <1>8, EndEffect DEF Commit, RunCommits, fixed
    <2>2. DraftsOf(v) /\ KnownOf(v)
      BY DEF DraftsFollow
    <2>3. IsFiniteSet(decisions')
      BY <2>1, <2>2, FS_Union DEF DraftsOf, DecisionsFollow
    <2>4. \A u \in Valuers : step[u] = "done" => step'[u] = "done"
      BY <2>1 DEF OthersSame
    <2>5. ASSUME NEW d \in local[v].drafts
          PROVE  /\ d.requirement \in open /\ d.version \in Nat \ {0}
                 /\ d.method \in Methods /\ d.by = v
                 /\ d.version > 1 => \E e \in DecisionsOn(d.requirement) : e.version = d.version - 1
                 /\ \A e \in decisions' : d.requirement = e.requirement /\ d.version = e.version => d = e
      <3>1. d.requirement \in open /\ d.by = v /\ d.method \in Methods
        BY <2>1, <2>2 DEF DraftsOf, TypeInv, Running
      <3>2. /\ local[v].known[d.requirement] \in Nat /\ d.version = local[v].known[d.requirement] + 1
            /\ local[v].known[d.requirement] > 0 =>
                  \E e \in DecisionsOn(d.requirement) : e.version = local[v].known[d.requirement]
        BY <2>1, <2>2, <3>1 DEF DraftsOf, KnownOf
      <3>3. \A e \in decisions' : d.requirement = e.requirement /\ d.version = e.version => d = e
        BY <2>1, <2>2 DEF DraftsOf, VersionsFree, DecisionsOn
      <3> QED  BY <3>1, <3>2, <3>3
    <2>6. ASSUME NEW d \in decisions'
          PROVE  /\ d.requirement \in open /\ d.version \in Nat \ {0}
                 /\ d.method \in Methods /\ d.by \in Valuers /\ step'[d.by] = "done"
                 /\ d.version > 1 =>
                       \E e \in DecisionsOn(d.requirement)' : e.version = d.version - 1
                 /\ \A e \in DecisionsOn(d.requirement)' : d.version = e.version => d = e
      <3>1. CASE d \in decisions
        <4>1. /\ d.requirement \in open /\ d.version \in Nat \ {0}
              /\ d.method \in Methods /\ d.by \in Valuers /\ step'[d.by] = "done"
              /\ d.version > 1 => \E e \in DecisionsOn(d.requirement) : e.version = d.version - 1
              /\ \A e \in DecisionsOn(d.requirement) : d.version = e.version => d = e
          BY <2>4, <3>1 DEF DecisionsFollow
        <4>2. \A e \in local[v].drafts : d.requirement = e.requirement /\ d.version = e.version => d = e
          BY <2>5, <3>1
        <4> QED  BY <2>1, <4>1, <4>2 DEF DecisionsOn
      <3>2. CASE d \in local[v].drafts
        BY <2>1, <2>5, <3>2 DEF DecisionsOn
      <3> QED  BY <2>1, <3>1, <3>2
    <2> QED  BY <2>1, <2>3, <2>6 DEF DecisionsFollow
  <1>9. ASSUME NEW e \in Enterers, EnterPrices(e) \/ StorePrices(e) \/ RefusePrices(e)
        PROVE  DecisionsFollow'
    BY <1>0, <1>9, EntryEffect DEF fixed
  <1>10. ASSUME NEW a, NEW d, NEW c, Revise(a, d, c) PROVE DecisionsFollow'
    BY <1>0, <1>10 DEF Revise, fixed, tables
  <1>11. CASE UNCHANGED vars
    BY <1>0, <1>11 DEF vars
  <1> QED  BY <1>2, <1>3, <1>4, <1>5, <1>6, <1>7, <1>8, <1>9, <1>10, <1>11 DEF Next

LEMMA DraftsStep == TypeInv /\ DecisionsFollow /\ DraftsFollow /\ [Next]_vars => DraftsFollow'
  <1> SUFFICES ASSUME TypeInv, DecisionsFollow, DraftsFollow, [Next]_vars PROVE DraftsFollow'
    OBVIOUS
  <1>a. {"drafts", "known", "method", "todo"} \subseteq DOMAIN NoLocal /\ NoLocal.drafts = {}
    BY DEF NoLocal
  <1>0. ASSUME NEW u \in Valuers, UNCHANGED <<decisions, open>>,
               local'[u] = local[u], step'[u] = step[u]
        PROVE  DraftsOf(u)' /\ KnownOf(u)'
    <2>1. DraftsOf(u) /\ KnownOf(u)
      BY DEF DraftsFollow
    <2> QED  BY <1>0, <2>1 DEF DraftsOf, KnownOf, HasRead, DecisionsOn
  <1>b. ASSUME NEW v \in Valuers, local'[v].drafts = {}, ~HasRead(v)' PROVE DraftsOf(v)' /\ KnownOf(v)'
    BY <1>b, FS_EmptySet DEF DraftsOf, KnownOf
  \* A run that goes on without a new decision.
  <1>c. ASSUME NEW v \in Valuers, HasRead(v), HasRead(v)', UNCHANGED <<decisions, open>>,
               local'[v].drafts = local[v].drafts, local'[v].known = local[v].known,
               local'[v].method = local[v].method, local'[v].todo \subseteq local[v].todo
        PROVE  DraftsOf(v)' /\ KnownOf(v)'
    <2>1. DraftsOf(v) /\ KnownOf(v)
      BY DEF DraftsFollow
    <2> QED  BY <1>c, <2>1 DEF DraftsOf, KnownOf, DecisionsOn
  <1>d. ASSUME NEW v \in Valuers, OthersSame(v), UNCHANGED <<decisions, open>>,
               DraftsOf(v)', KnownOf(v)'
        PROVE  DraftsFollow'
    <2>1. ASSUME NEW u \in Valuers, u # v PROVE DraftsOf(u)' /\ KnownOf(u)'
      BY <1>0, <1>d, <2>1 DEF OthersSame
    <2> QED  BY <1>d, <2>1 DEF DraftsFollow
  <1>1. ASSUME NEW v \in Valuers, StartRun(v) PROVE DraftsFollow'
    <2>1. OthersSame(v) /\ UNCHANGED <<decisions, open>> /\ ~HasRead(v)' /\ local'[v].drafts = {}
      BY <1>1, StartEffect DEF fixed, tables, HasRead, NoLocal
    <2> QED  BY <1>b, <1>d, <2>1
  <1>2. ASSUME NEW v \in Valuers, ReadOpen(v) PROVE DraftsFollow'
    <2>1. /\ OthersSame(v) /\ UNCHANGED <<decisions, open>> /\ ~HasRead(v)
          /\ local'[v].drafts = local[v].drafts /\ local'[v].method = local[v].method
          /\ \A r \in local'[v].todo : \A d \in DecisionsOn(r) : d.method # local[v].method
          /\ local'[v].known = [r \in open |-> NewestVersion(r)]
      <3>1. OthersSame(v) /\ UNCHANGED <<decisions, open>> /\ step[v] = "reading"
        BY <1>2, ReadEffect DEF fixed, tables
      <3>2. local'[v].drafts = local[v].drafts /\ local'[v].method = local[v].method
        BY <1>2, <1>a, ReadEffect DEF Keeps
      <3>3. /\ \A r \in local'[v].todo : \A d \in DecisionsOn(r) : d.method # local[v].method
            /\ local'[v].known = [r \in open |-> NewestVersion(r)]
        BY <1>2, ReadEffect
      <3> QED  BY <3>1, <3>2, <3>3 DEF HasRead
    <2>2. local'[v].drafts = {}
      BY <2>1 DEF DraftsFollow, DraftsOf
    <2>3. DraftsOf(v)'
      BY <2>2, FS_EmptySet DEF DraftsOf
    <2>4. KnownOf(v)'
      <3> SUFFICES ASSUME NEW r \in open
                   PROVE  /\ local'[v].known[r] \in Nat
                          /\ local'[v].known[r] > 0 =>
                                \E d \in DecisionsOn(r) : d.version = local'[v].known[r]
                          /\ r \in local'[v].todo =>
                                \A d \in DecisionsOn(r) : d.method # local'[v].method
        BY <2>1, <2>2 DEF KnownOf, DecisionsOn
      <3>1. local'[v].known[r] = NewestVersion(r)
        BY <2>1
      <3> QED  BY <2>1, <3>1, NewestIsStored
    <2> QED  BY <1>d, <2>1, <2>3, <2>4
  <1>3. ASSUME NEW v \in Valuers, PlanFetches(v) PROVE DraftsFollow'
    <2>1. /\ OthersSame(v) /\ UNCHANGED <<fixed, tables>>
          /\ step[v] = "planning" /\ step'[v] \in {"applying", "fetching"}
          /\ Keeps(v, {"cached", "windows", "batches"})
      BY <1>3, PlanEffect
    <2>2. /\ OthersSame(v) /\ UNCHANGED <<decisions, open>> /\ HasRead(v) /\ HasRead(v)'
          /\ local'[v].drafts = local[v].drafts /\ local'[v].known = local[v].known
          /\ local'[v].method = local[v].method /\ local'[v].todo = local[v].todo
      BY <1>a, <2>1 DEF fixed, tables, HasRead, Keeps
    <2> QED  BY <1>c, <1>d, <2>2
  <1>4. ASSUME NEW v \in Valuers, FetchWindow(v) \/ FetchFails(v) PROVE DraftsFollow'
    <2>1. step[v] = "fetching" /\ \E w, kept, results : Fetched(v, w, kept, results)
      BY <1>4 DEF FetchWindow, FetchFails
    <2>2. /\ OthersSame(v) /\ UNCHANGED <<fixed, tables>>
          /\ step'[v] \in {"applying", "fetching"} /\ Keeps(v, {"windows", "evidence", "batches"})
      BY <2>1, FetchEffect
    <2>3. /\ OthersSame(v) /\ UNCHANGED <<decisions, open>> /\ HasRead(v) /\ HasRead(v)'
          /\ local'[v].drafts = local[v].drafts /\ local'[v].known = local[v].known
          /\ local'[v].method = local[v].method /\ local'[v].todo = local[v].todo
      BY <1>a, <2>1, <2>2 DEF fixed, tables, HasRead, Keeps
    <2> QED  BY <1>c, <1>d, <2>3
  <1>5. ASSUME NEW v \in Valuers, SkipMissing(v) \/ NoteReview(v) \/ LeaveOpen(v) PROVE DraftsFollow'
    <2>1. /\ OthersSame(v) /\ UNCHANGED <<decisions, open>> /\ HasRead(v) /\ HasRead(v)'
          /\ local'[v].drafts = local[v].drafts /\ local'[v].known = local[v].known
          /\ local'[v].method = local[v].method /\ local'[v].todo \subseteq local[v].todo
      BY <1>5, <1>a, PassEffect DEF fixed, tables, HasRead, Keeps
    <2> QED  BY <1>c, <1>d, <2>1
  <1>6. ASSUME NEW v \in Valuers, DecideNative(v) \/ DecideCached(v) \/ DecideFetched(v)
        PROVE  DraftsFollow'
    <2>1. /\ OthersSame(v) /\ UNCHANGED <<decisions, open>>
          /\ step[v] = "applying" /\ step' = step
          /\ local'[v].known = local[v].known /\ local'[v].method = local[v].method
          /\ \E r \in local[v].todo : \E p :
                /\ local'[v].todo = local[v].todo \ {r}
                /\ local'[v].drafts = local[v].drafts \cup {Draft(v, r, p)}
      BY <1>6, <1>a, DraftEffect, FetchedEffect DEF fixed, tables, Keeps
    <2>2. PICK r \in local[v].todo : \E p :
                /\ local'[v].todo = local[v].todo \ {r}
                /\ local'[v].drafts = local[v].drafts \cup {Draft(v, r, p)}
      BY <2>1
    <2>3. DraftsOf(v) /\ KnownOf(v)
      BY DEF DraftsFollow
    <2>4. DraftsOf(v)' /\ KnownOf(v)'
      BY <2>1, <2>2, <2>3, DraftsGrow
    <2> QED  BY <1>d, <2>1, <2>4
  <1>7. ASSUME NEW v \in Valuers, Abort(v) PROVE DraftsFollow'
    <2>1. OthersSame(v) /\ UNCHANGED <<decisions, open>> /\ ~HasRead(v)' /\ local'[v].drafts = {}
      BY <1>7, <1>a, EndEffect DEF Abort, fixed, tables, HasRead
    <2> QED  BY <1>b, <1>d, <2>1
  <1>8. ASSUME NEW v \in Valuers, Commit(v) PROVE DraftsFollow'
    <2>1. /\ OthersSame(v) /\ open' = open /\ ~HasRead(v)' /\ local'[v].drafts = {}
          /\ decisions' = decisions \cup local[v].drafts /\ VersionsFree(local[v].drafts)
      BY <1>8, <1>a, EndEffect DEF Commit, RunCommits, fixed, HasRead
    <2>2. DraftsOf(v) /\ KnownOf(v)
      BY DEF DraftsFollow
    <2>3. ASSUME NEW u \in Valuers, u # v PROVE DraftsOf(u)' /\ KnownOf(u)'
      <3>1. local'[u] = local[u] /\ step'[u] = step[u] /\ DraftsOf(u) /\ KnownOf(u)
        BY <2>1, <2>3 DEF OthersSame, DraftsFollow
      <3>2. DraftsOf(u)'
        BY <2>1, <3>1 DEF DraftsOf, HasRead
      <3>3. ASSUME HasRead(u), NEW r \in open
            PROVE  /\ local[u].known[r] \in Nat
                   /\ local[u].known[r] > 0 =>
                         \E d \in DecisionsOn(r)' : d.version = local[u].known[r]
                   /\ (r \in local[u].todo \/ \E d \in local[u].drafts : d.requirement = r) =>
                         \A d \in DecisionsOn(r)' :
                             d.version <= local[u].known[r] => d.method # local[u].method
        <4> DEFINE k == local[u].known[r]
                   n == Cardinality(DecisionsOn(r))
        <4>1. k \in Nat /\ (k > 0 => \E d \in DecisionsOn(r) : d.version = k)
          BY <3>1, <3>3 DEF KnownOf
        <4>2. n \in Nat /\ {d.version : d \in DecisionsOn(r)} = 1 .. n
          BY VersionsOn
        <4>3. k <= n
          <5> HIDE DEF k, n
          <5> QED  BY <4>1, <4>2
        <4>4. \A d \in local[v].drafts : d.requirement = r => d.version = n + 1
          BY <2>1, <2>2, DecidesNext
        <4>5. \A d \in DecisionsOn(r)' :
                  d \in DecisionsOn(r) \/ (d \in local[v].drafts /\ d.requirement = r)
          BY <2>1 DEF DecisionsOn
        <4>6. \A d \in DecisionsOn(r)' : d.version <= k => d \in DecisionsOn(r)
          <5> HIDE DEF k, n
          <5> QED  BY <4>1, <4>2, <4>3, <4>4, <4>5
        <4>7. k > 0 => \E d \in DecisionsOn(r)' : d.version = k
          BY <2>1, <4>1 DEF DecisionsOn
        <4> QED  BY <3>1, <3>3, <4>1, <4>6, <4>7 DEF KnownOf
      <3>4. KnownOf(u)'
        BY <2>1, <3>1, <3>3 DEF KnownOf, HasRead
      <3> QED  BY <3>2, <3>4
    <2> QED  BY <1>b, <2>1, <2>3 DEF DraftsFollow
  <1>e. ASSUME UNCHANGED <<decisions, open>>,
               \A v \in Valuers : local'[v] = local[v] /\ step'[v] = step[v]
        PROVE  DraftsFollow'
    BY <1>0, <1>e DEF DraftsFollow
  <1>9. ASSUME NEW e \in Enterers, EnterPrices(e) \/ StorePrices(e) \/ RefusePrices(e)
        PROVE  DraftsFollow'
    BY <1>e, <1>9, EntryEffect DEF fixed
  <1>10. ASSUME NEW a, NEW d, NEW c, Revise(a, d, c) PROVE DraftsFollow'
    BY <1>e, <1>10 DEF Revise, fixed, tables
  <1>11. CASE UNCHANGED vars
    BY <1>e, <1>11 DEF vars
  <1> QED  BY <1>1, <1>2, <1>3, <1>4, <1>5, <1>6, <1>7, <1>8, <1>9, <1>10, <1>11 DEF Next

-----------------------------------------------------------------------------
(* The refinement.                                                         *)

LEMMA HistoryOf ==
    ASSUME DecisionsFollow, NEW r \in DOMAIN Requirement
    PROVE  /\ IsFiniteSet(History[r])
           /\ Cardinality(History[r]) = Cardinality(DecisionsOn(r))
           /\ History[r] \in SUBSET DecisionLog!Entry
  <1> DEFINE Said(d) == [version |-> d.version, method |-> d.method, by |-> d.by]
             rows == DecisionsOn(r)
             f == [d \in rows |-> Said(d)]
  <1>1. History[r] = {Said(d) : d \in rows}
    BY DEF History
  <1>2. f \in Bijection(rows, History[r])
    <2>1. f \in [rows -> History[r]] /\ \A h \in History[r] : \E d \in rows : f[d] = h
      BY <1>1
    <2>2. \A d, e \in rows : f[d] = f[e] => d = e
      <3> SUFFICES ASSUME NEW d \in rows, NEW e \in rows, f[d] = f[e] PROVE d = e
        OBVIOUS
      <3>1. Said(d).version = Said(e).version
        OBVIOUS
      <3>2. d.version = e.version /\ d \in decisions /\ e \in DecisionsOn(d.requirement)
        BY <3>1 DEF DecisionsOn
      <3> QED  BY <3>2 DEF DecisionsFollow
    <2> QED  BY <2>1, <2>2 DEF Bijection, Injection, Surjection, IsInjective
  <1>3. IsFiniteSet(rows)
    BY VersionsOn
  <1>4. IsFiniteSet(History[r]) /\ Cardinality(History[r]) = Cardinality(rows)
    <2> HIDE DEF f, rows
    <2> QED  BY <1>2, <1>3, FS_Bijection DEF ExistsBijection
  <1>5. \A d \in rows : Said(d) \in DecisionLog!Entry
    BY DEF DecisionLog!Entry, DecisionsOn, DecisionsFollow
  <1> QED  BY <1>1, <1>4, <1>5

LEMMA HistoryStarts == Init => DecisionLog!HistoryInit
  BY DEF Init, History, DecisionsOn, DecisionLog!HistoryInit

LEMMA HistorySteps ==
    ASSUME TypeInv, DecisionsFollow, DraftsFollow, DecisionsFollow', [Next]_vars
    PROVE  [DecisionLog!HistoryNext]_History
  <1>0. ASSUME decisions' = decisions PROVE UNCHANGED History
    BY <1>0 DEF History, DecisionsOn
  <1>1. ASSUME NEW v \in Valuers, Commit(v) PROVE DecisionLog!HistoryNext
    <2> DEFINE m == local[v].method
    <2>1. /\ step[v] = "applying" /\ decisions' = decisions \cup local[v].drafts
          /\ VersionsFree(local[v].drafts)
      BY <1>1 DEF Commit, RunCommits
    <2>2. DraftsOf(v) /\ KnownOf(v) /\ m \in Methods
      BY <2>1 DEF DraftsFollow, TypeInv, Running
    <2>3. History' \in [DOMAIN Requirement -> SUBSET DecisionLog!Entry]
      <3>1. \A r \in DOMAIN Requirement : History'[r] \in SUBSET DecisionLog!Entry
        <4> SUFFICES ASSUME NEW r \in DOMAIN Requirement, NEW d \in DecisionsOn(r)'
                     PROVE  [version |-> d.version, method |-> d.method, by |-> d.by]
                                \in DecisionLog!Entry
          BY DEF History
        <4>1. d.version \in Nat \ {0} /\ d.method \in Methods /\ d.by \in Valuers
          BY DEF DecisionsFollow, DecisionsOn
        <4> QED  BY <4>1 DEF DecisionLog!Entry
      <3> QED  BY <3>1 DEF History
    <2>4. ASSUME NEW r \in DOMAIN Requirement
          PROVE  History'[r] = History[r] \/ DecisionLog!Decided(r, m, v)
      <3> DEFINE Said(d) == [version |-> d.version, method |-> d.method, by |-> d.by]
                 n == Cardinality(DecisionsOn(r))
      <3>1. /\ History[r] = {Said(d) : d \in DecisionsOn(r)}
            /\ History'[r] = {Said(d) : d \in DecisionsOn(r)'}
        BY DEF History
      <3>2. CASE \A d \in local[v].drafts : d.requirement # r
        BY <2>1, <3>1, <3>2 DEF DecisionsOn
      <3>3. CASE \E d \in local[v].drafts : d.requirement = r
        <4>1. PICK d \in local[v].drafts : d.requirement = r
          BY <3>3
        <4>2. DecisionsOn(r)' = DecisionsOn(r) \cup {d}
          BY <2>1, <2>2, <4>1 DEF DecisionsOn, DraftsOf
        <4>3. /\ d.version = n + 1 /\ local[v].known[r] = n
              /\ \A e \in DecisionsOn(r) : e.version \in 1 .. n
          BY <2>1, <2>2, <4>1, DecidesNext
        <4>4. d.method = m /\ d.by = v /\ r \in open
          BY <2>2, <4>1 DEF DraftsOf
        <4>5. Said(d) = [version |-> Cardinality(History[r]) + 1, method |-> m, by |-> v]
          BY <4>3, <4>4, HistoryOf
        <4>6. \A e \in DecisionsOn(r) : e.method # m
          <5>1. \A e \in DecisionsOn(r) : e.version <= local[v].known[r] => e.method # m
            BY <2>1, <2>2, <4>1, <4>4 DEF KnownOf, HasRead
          <5>2. n \in Nat
            BY VersionsOn
          <5> QED  BY <4>3, <5>1, <5>2
        <4>7. \A e \in DecisionsOn(r) : e.by # v
          BY <2>1 DEF DecisionsFollow, DecisionsOn
        <4>8. \A h \in History[r] : h.method # m /\ h.by # v
          BY <3>1, <4>6, <4>7
        <4>9. History'[r] = History[r] \cup {Said(d)}
          BY <3>1, <4>2
        <4>10. DecisionLog!Cardinality(History[r]) = Cardinality(History[r])
          BY DEF DecisionLog!Cardinality, Cardinality
        <4> QED  BY <4>5, <4>8, <4>9, <4>10 DEF DecisionLog!Decided
      <3> QED  BY <3>2, <3>3
    <2> QED  BY <2>2, <2>3, <2>4 DEF DecisionLog!HistoryNext
  <1>2. ASSUME NEW v \in Valuers,
               \/ StartRun(v) \/ ReadOpen(v) \/ PlanFetches(v) \/ FetchWindow(v) \/ FetchFails(v)
               \/ SkipMissing(v) \/ NoteReview(v) \/ LeaveOpen(v)
               \/ DecideNative(v) \/ DecideCached(v) \/ DecideFetched(v) \/ Abort(v)
        PROVE  decisions' = decisions
    <2>1. CASE StartRun(v) \/ ReadOpen(v) \/ PlanFetches(v) \/ Abort(v)
      BY <2>1 DEF StartRun, ReadOpen, PlanFetches, Abort, tables
    <2>2. CASE FetchWindow(v) \/ FetchFails(v)
      BY <2>2 DEF FetchWindow, FetchFails, Fetched, tables
    <2>3. CASE SkipMissing(v) \/ NoteReview(v) \/ LeaveOpen(v) \/ DecideNative(v)
                  \/ DecideCached(v) \/ DecideFetched(v)
      BY <2>3, PassEffect, DraftEffect, FetchedEffect DEF tables
    <2> QED  BY <1>2, <2>1, <2>2, <2>3
  <1>3. ASSUME NEW e \in Enterers, EnterPrices(e) \/ StorePrices(e) \/ RefusePrices(e)
        PROVE  decisions' = decisions
    BY <1>3, EntryEffect
  <1>4. ASSUME NEW a, NEW d, NEW c, Revise(a, d, c) PROVE decisions' = decisions
    BY <1>4 DEF Revise, tables
  <1>5. CASE UNCHANGED vars
    BY <1>5 DEF vars, History, DecisionsOn
  <1> QED  BY <1>0, <1>1, <1>2, <1>3, <1>4, <1>5 DEF Next

\* What a run knows of a requirement's decisions is among those stored, and what it
\* will add comes after them: the strengthening the refinement needs.
THEOREM DecisionsInductive == Spec => [](DecisionsFollow /\ DraftsFollow)
  <1> QED  BY InitType, InitDecisions, TypeStep, DecisionsStep, DraftsStep, PTL DEF Spec

\* The decisions on a requirement are one history, to which each run adds at the end
\* and a method version at most once, on either database and however runs overlap.
THEOREM DecisionsAreHistory == Spec => ImplementsHistory
  <1>1. TypeInv /\ DecisionsFollow /\ DraftsFollow /\ DecisionsFollow' /\ [Next]_vars
            => [DecisionLog!HistoryNext]_History
    BY HistorySteps
  <1>2. Spec => []TypeInv
    BY PricesInductive, PTL
  <1> QED  BY <1>1, <1>2, DecisionsInductive, HistoryStarts, PTL
           DEF Spec, ImplementsHistory, DecisionLog!HistorySpec

-----------------------------------------------------------------------------
(* Manual prices.                                                          *)

LEMMA LockStep == TypeInv /\ LockHeld /\ [Next]_vars => LockHeld'
  <1> SUFFICES ASSUME TypeInv, LockHeld, [Next]_vars, engine' = "sqlite"
               PROVE  \A v \in Valuers : Running(v)' => writer' = v
    BY DEF LockHeld
  <1>0. ASSUME engine' = engine, writer' = writer,
               \A v \in Valuers : Running(v)' => Running(v)
        PROVE  \A v \in Valuers : Running(v)' => writer' = v
    BY <1>0 DEF LockHeld
  <1>a. ASSUME NEW v \in Valuers, OthersSame(v), Running(v), engine' = engine, writer' = writer
        PROVE  \A u \in Valuers : Running(u)' => writer' = u
    BY <1>0, <1>a DEF OthersSame, Running
  <1>1. ASSUME NEW v \in Valuers, StartRun(v) PROVE \A u \in Valuers : Running(u)' => writer' = u
    <2>1. OthersSame(v) /\ writer \in {None, v} /\ writer' = v /\ engine = "sqlite"
      BY <1>1, StartEffect DEF fixed
    <2>2. \A u \in Valuers \ {v} : ~Running(u)
      BY <2>1, Apart DEF LockHeld
    <2> QED  BY <2>1, <2>2 DEF OthersSame, Running
  <1>2. ASSUME NEW v \in Valuers, ReadOpen(v) PROVE \A u \in Valuers : Running(u)' => writer' = u
    BY <1>a, <1>2, ReadEffect DEF fixed, Running
  <1>3. ASSUME NEW v \in Valuers, PlanFetches(v) PROVE \A u \in Valuers : Running(u)' => writer' = u
    <2>1. step[v] = "planning" /\ OthersSame(v) /\ UNCHANGED <<fixed, writer>>
      BY <1>3, PlanEffect
    <2> QED  BY <1>a, <2>1 DEF fixed, Running
  <1>4. ASSUME NEW v \in Valuers, FetchWindow(v) \/ FetchFails(v)
        PROVE  \A u \in Valuers : Running(u)' => writer' = u
    <2>1. step[v] = "fetching" /\ \E w, kept, results : Fetched(v, w, kept, results)
      BY <1>4 DEF FetchWindow, FetchFails
    <2>2. OthersSame(v) /\ UNCHANGED <<fixed, writer>>
      BY <2>1, FetchEffect
    <2> QED  BY <1>a, <2>1, <2>2 DEF fixed, Running
  <1>5. ASSUME NEW v \in Valuers,
               \/ SkipMissing(v) \/ NoteReview(v) \/ LeaveOpen(v)
               \/ DecideNative(v) \/ DecideCached(v) \/ DecideFetched(v)
        PROVE  \A u \in Valuers : Running(u)' => writer' = u
    <2>1. step[v] = "applying" /\ OthersSame(v) /\ UNCHANGED <<fixed, writer>>
      BY <1>5, PassEffect, DraftEffect, FetchedEffect
    <2> QED  BY <1>a, <2>1 DEF fixed, Running
  <1>6. ASSUME NEW v \in Valuers, Commit(v) \/ Abort(v)
        PROVE  \A u \in Valuers : Running(u)' => writer' = u
    <2>1. OthersSame(v) /\ step'[v] = "done" /\ engine' = engine
          /\ writer' = IF writer = v THEN None ELSE writer
      BY <1>6, EndEffect DEF fixed
    <2> QED  BY <2>1 DEF OthersSame, Running, LockHeld
  <1>7. ASSUME NEW e \in Enterers, EnterPrices(e) \/ StorePrices(e) \/ RefusePrices(e)
        PROVE  \A u \in Valuers : Running(u)' => writer' = u
    BY <1>0, <1>7, EntryEffect DEF fixed, Running
  <1>8. ASSUME NEW a, NEW d, NEW c, Revise(a, d, c)
        PROVE  \A u \in Valuers : Running(u)' => writer' = u
    BY <1>0, <1>8 DEF Revise, fixed, Running
  <1>9. CASE UNCHANGED vars
    BY <1>0, <1>9 DEF vars, Running
  <1> QED  BY <1>1, <1>2, <1>3, <1>4, <1>5, <1>6, <1>7, <1>8, <1>9 DEF Next

LEMMA NewestEligible ==
    ASSUME PricesFollow, NEW asset, NEW day, NEW refresh, Eligible(asset, day, refresh) # {}
    PROVE  LET p == Newest(Eligible(asset, day, refresh))
           IN  /\ p \in prices /\ p.asset = asset /\ p.day = day
               /\ p \in Eligible(asset, day, refresh) /\ NewestIfManual(p, asset, day)
  <1> DEFINE rows == Eligible(asset, day, refresh)
  <1>1. rows \in SUBSET prices /\ \A p \in rows : p.asset = asset /\ p.day = day
    BY DEF Eligible, ManualFor, AutomaticFor, For
  <1>2. ManualFor(prices, asset, day) # {} => rows = ManualFor(prices, asset, day)
    BY DEF Eligible
  <1>3. IsFiniteSet(rows) /\ \A p \in rows : p.version \in Nat
    <2>1. IsFiniteSet(prices) /\ \A p \in prices : p.version \in Nat \ {0}
      BY DEF PricesFollow, Chain
    <2> HIDE DEF rows
    <2> QED  BY <1>1, <2>1, FS_Subset
  <1>4. rows # {}
    OBVIOUS
  <1> HIDE DEF rows
  <1>5. Newest(rows) \in rows
    BY <1>3, <1>4, Topmost
  <1> QED  BY <1>1, <1>2, <1>5 DEF NewestIfManual, rows

LEMMA AssetOfDays ==
    ASSUME NEW rs, NEW m, NEW a, NEW d \in DaysNeeded(rs, m, a)
    PROVE  a \in AssetsNeeded(rs, m)
  BY DEF DaysNeeded, AssetsNeeded

LEMMA FewerDays ==
    ASSUME NEW rs, NEW fewer \in SUBSET rs, NEW m
    PROVE  /\ AssetsNeeded(fewer, m) \subseteq AssetsNeeded(rs, m)
           /\ \A a : DaysNeeded(fewer, m, a) \subseteq DaysNeeded(rs, m, a)
  BY DEF DaysNeeded, AssetsNeeded

LEMMA ManualStep ==
    ASSUME TypeInv, PricesFollow, LockHeld, ManualRead, [Next]_vars
    PROVE  ManualRead'
  <1> SUFFICES ASSUME engine' = "sqlite" PROVE \A v \in Valuers : ManualOf(v)'
    BY DEF ManualRead
  <1>e. engine = "sqlite" /\ \A v \in Valuers : ManualOf(v)
    <2>1. engine' = engine
      <3>1. CASE \E e \in Enterers : EnterPrices(e) \/ StorePrices(e) \/ RefusePrices(e)
        BY <3>1, EntryEffect DEF fixed
      <3>2. CASE \E a \in Mapped : \E d \in DOMAIN listing[a], c \in Contents \cup {NoData} : Revise(a, d, c)
        BY <3>2 DEF Revise, fixed
      <3>3. CASE UNCHANGED vars
        BY <3>3 DEF vars
      <3>4. ASSUME NEW v \in Valuers,
                   \/ StartRun(v) \/ ReadOpen(v) \/ PlanFetches(v) \/ FetchWindow(v) \/ FetchFails(v)
                   \/ Commit(v) \/ Abort(v)
            PROVE  engine' = engine
        BY <3>4 DEF StartRun, ReadOpen, PlanFetches, FetchWindow, FetchFails, Fetched, Commit, Abort, fixed
      <3>5. ASSUME NEW v \in Valuers,
                   \/ SkipMissing(v) \/ NoteReview(v) \/ LeaveOpen(v)
                   \/ DecideNative(v) \/ DecideCached(v) \/ DecideFetched(v)
            PROVE  engine' = engine
        BY <3>5, PassEffect, DraftEffect, FetchedEffect DEF fixed
      <3> QED  BY <3>1, <3>2, <3>3, <3>4, <3>5 DEF Next
    <2> QED  BY <2>1 DEF ManualRead
  <1>0. ASSUME NEW u \in Valuers, prices' = prices, local'[u] = local[u], step'[u] = step[u]
        PROVE  ManualOf(u)'
    <2>1. ManualOf(u)
      BY <1>e
    <2> QED  BY <1>0, <2>1 DEF ManualOf, HasPlanned, NewestIfManual
  <1>n. NoLocal.cached = {} /\ NoLocal.batches = {} /\ NoLocal.drafts = {}
    BY DEF NoLocal
  <1>a. ASSUME NEW v \in Valuers, ~HasPlanned(v)',
               local'[v].cached = {}, local'[v].batches = {}, local'[v].drafts = {}
        PROVE  ManualOf(v)'
    BY <1>a DEF ManualOf
  <1>b. ASSUME NEW v \in Valuers, OthersSame(v), prices' = prices, ManualOf(v)'
        PROVE  \A u \in Valuers : ManualOf(u)'
    BY <1>0, <1>b DEF OthersSame
  \* No run is under way that would not see the prices another commits.
  <1>c. ASSUME NEW u \in Valuers, ~Running(u), local'[u] = local[u], step'[u] = step[u]
        PROVE  ManualOf(u)'
    <2>1. local[u] = NoLocal /\ ~HasPlanned(u)'
      BY <1>c DEF TypeInv, Running, HasPlanned
    <2> QED  BY <1>a, <1>c, <1>n, <2>1
  <1>1. ASSUME NEW v \in Valuers, StartRun(v) PROVE \A u \in Valuers : ManualOf(u)'
    <2>1. /\ OthersSame(v) /\ prices' = prices /\ step'[v] = "reading"
      BY <1>1, StartEffect DEF tables
    <2>2. local'[v].cached = {} /\ local'[v].batches = {} /\ local'[v].drafts = {}
      BY <1>1, StartEffect DEF NoLocal
    <2> QED  BY <1>a, <1>b, <2>1, <2>2 DEF HasPlanned
  <1>2. ASSUME NEW v \in Valuers, ReadOpen(v) PROVE \A u \in Valuers : ManualOf(u)'
    <2>1. /\ OthersSame(v) /\ prices' = prices /\ step'[v] = "planning"
      BY <1>2, ReadEffect DEF tables
    <2>2. /\ local'[v].cached = local[v].cached /\ local'[v].batches = local[v].batches
          /\ local'[v].drafts = local[v].drafts
      BY <1>2, ReadEffect DEF Keeps, NoLocal
    <2>3. ManualOf(v)'
      <3>1. ManualOf(v) /\ ~HasPlanned(v)'
        BY <1>e, <2>1 DEF HasPlanned
      <3> QED  BY <2>1, <2>2, <3>1 DEF ManualOf, NewestIfManual
    <2> QED  BY <1>b, <2>1, <2>3
  <1>3. ASSUME NEW v \in Valuers, PlanFetches(v) PROVE \A u \in Valuers : ManualOf(u)'
    <2> DEFINE m == local[v].method
               refresh == local[v].refresh
               assets == AssetsNeeded(local[v].todo, m)
               keys == UNION {{[asset |-> a, day |-> d] : d \in DaysNeeded(local[v].todo, m, a)}
                                  : a \in assets}
    <2>1. /\ OthersSame(v) /\ UNCHANGED tables
          /\ local'[v].cached = {Newest(Eligible(k.asset, k.day, refresh)) :
                                    k \in {k \in keys : Eligible(k.asset, k.day, refresh) # {}}}
          /\ local'[v].batches = {} /\ Keeps(v, {"cached", "windows", "batches"})
      BY <1>3, PlanEffect
    <2>2. prices' = prices /\ local'[v].todo = local[v].todo /\ local'[v].method = local[v].method
          /\ local'[v].drafts = local[v].drafts
      BY <2>1 DEF tables, Keeps, NoLocal
    <2>3. ASSUME NEW p \in local'[v].cached PROVE NewestIfManual(p, p.asset, p.day)
      <3>1. PICK k \in keys : /\ Eligible(k.asset, k.day, refresh) # {}
                              /\ p = Newest(Eligible(k.asset, k.day, refresh))
        BY <2>1
      <3> HIDE DEF keys, refresh
      <3> QED  BY <3>1, NewestEligible
    <2>4. ASSUME NEW a \in assets, NEW d \in DaysNeeded(local[v].todo, m, a),
                 ManualFor(prices, a, d) # {}
          PROVE  For(local'[v].cached, a, d) # {}
      <3> DEFINE k == [asset |-> a, day |-> d]
      <3>1. k \in keys /\ k.asset = a /\ k.day = d
        OBVIOUS
      <3>2. Eligible(a, d, refresh) # {}
        BY <2>4 DEF Eligible
      <3>3. Newest(Eligible(a, d, refresh)) \in local'[v].cached
        <4> HIDE DEF keys, k, refresh
        <4> QED  BY <2>1, <3>1, <3>2
      <3>4. /\ Newest(Eligible(a, d, refresh)).asset = a
            /\ Newest(Eligible(a, d, refresh)).day = d
        <4> HIDE DEF refresh
        <4> QED  BY <3>2, NewestEligible
      <3> QED  BY <3>3, <3>4 DEF For
    <2>5. ManualOf(v)'
      <3>1. ManualOf(v)
        BY <1>e
      <3> QED  BY <2>1, <2>2, <2>3, <2>4, <3>1 DEF ManualOf, NewestIfManual
    <2> QED  BY <1>b, <2>1, <2>2, <2>5
  <1>4. ASSUME NEW v \in Valuers, FetchWindow(v) \/ FetchFails(v)
        PROVE  \A u \in Valuers : ManualOf(u)'
    <2>1. step[v] = "fetching" /\ \E w, kept, outcome : Fetched(v, w, kept, Results(v, w, outcome))
      BY <1>4 DEF FetchWindow, FetchFails
    <2>2. PICK w, kept, outcome : Fetched(v, w, kept, Results(v, w, outcome))
      BY <2>1
    <2>3. /\ OthersSame(v) /\ UNCHANGED tables
          /\ local'[v].batches = local[v].batches \cup Results(v, w, outcome)
          /\ Keeps(v, {"windows", "evidence", "batches"})
      BY <2>1, <2>2, FetchEffect
    <2>4. /\ prices' = prices /\ local'[v].todo = local[v].todo
          /\ local'[v].method = local[v].method
          /\ local'[v].drafts = local[v].drafts /\ local'[v].cached = local[v].cached
      BY <2>3 DEF tables, Keeps, NoLocal
    <2>5. HasPlanned(v) /\ ManualOf(v)
      BY <1>e, <2>1 DEF HasPlanned
    <2>6. ASSUME NEW b \in Results(v, w, outcome) PROVE ManualFor(prices, b.asset, b.day) = {}
      <3>1. /\ b.day \in DaysNeeded(local[v].todo, local[v].method, b.asset)
            /\ For(local[v].cached, b.asset, b.day) = {}
        BY DEF Results
      <3> QED  BY <2>5, <3>1, AssetOfDays DEF ManualOf
    <2>7. ManualOf(v)'
      BY <2>3, <2>4, <2>5, <2>6 DEF ManualOf, NewestIfManual
    <2> QED  BY <1>b, <2>3, <2>4, <2>7
  <1>5. ASSUME NEW v \in Valuers, SkipMissing(v) \/ NoteReview(v) \/ LeaveOpen(v)
        PROVE  \A u \in Valuers : ManualOf(u)'
    <2>1. /\ step[v] = "applying" /\ OthersSame(v) /\ prices' = prices
          /\ local'[v].todo \in SUBSET local[v].todo /\ local'[v].method = local[v].method
          /\ local'[v].drafts = local[v].drafts /\ local'[v].cached = local[v].cached
          /\ local'[v].batches = local[v].batches
      BY <1>5, PassEffect DEF tables, Keeps, NoLocal
    <2>2. HasPlanned(v) /\ ManualOf(v)
      BY <1>e, <2>1 DEF HasPlanned
    <2>3. ManualOf(v)'
      BY <2>1, <2>2, FewerDays DEF ManualOf, NewestIfManual
    <2> QED  BY <1>b, <2>1, <2>3
  <1>6. ASSUME NEW v \in Valuers, DecideNative(v) \/ DecideCached(v)
        PROVE  \A u \in Valuers : ManualOf(u)'
    <2>1. PICK r \in local[v].todo, p \in {Native} \cup local[v].cached :
              /\ p # Native => p \in CachedFor(v, r)
              /\ local'[v].todo = local[v].todo \ {r}
              /\ local'[v].drafts = local[v].drafts \cup {Draft(v, r, p)}
      BY <1>6, DraftEffect
    <2>2. /\ step[v] = "applying" /\ OthersSame(v) /\ prices' = prices
          /\ local'[v].todo \in SUBSET local[v].todo /\ local'[v].method = local[v].method
          /\ local'[v].cached = local[v].cached /\ local'[v].batches = local[v].batches
      BY <1>6, <2>1, DraftEffect DEF tables, Keeps, NoLocal
    <2>3. HasPlanned(v) /\ ManualOf(v)
      BY <1>e, <2>2 DEF HasPlanned
    <2>4. ASSUME p # Native
          PROVE  NewestIfManual(p, Requirement[r].asset, Requirement[r].day)
      BY <2>1, <2>3, <2>4 DEF ManualOf, CachedFor, For
    <2>5. /\ Draft(v, r, p).price = p /\ Draft(v, r, p).requirement = r
      BY DEF Draft
    <2>6. ManualOf(v)'
      BY <2>1, <2>2, <2>3, <2>4, <2>5, FewerDays DEF ManualOf, NewestIfManual
    <2> QED  BY <1>b, <2>2, <2>6
  <1>7. ASSUME NEW v \in Valuers, DecideFetched(v) PROVE \A u \in Valuers : ManualOf(u)'
    <2>1. PICK r \in local[v].todo : \E b \in BatchFor(v, r) : \E used :
              /\ local'[v].todo = local[v].todo \ {r}
              /\ local'[v].drafts = local[v].drafts \cup {Draft(v, r, used)}
              /\ local'[v].cached = local[v].cached \cup {used}
              /\ Found(v, b, used) \/ New(v, b, used)
      BY <1>7, FetchedEffect
    <2>2. PICK b, used :
              /\ b \in BatchFor(v, r)
              /\ local'[v].todo = local[v].todo \ {r}
              /\ local'[v].drafts = local[v].drafts \cup {Draft(v, r, used)}
              /\ local'[v].cached = local[v].cached \cup {used}
              /\ Found(v, b, used) \/ New(v, b, used)
      BY <2>1
    <2>3. /\ step[v] = "applying" /\ OthersSame(v) /\ prices' = prices
          /\ local'[v].todo \in SUBSET local[v].todo /\ local'[v].method = local[v].method
          /\ local'[v].batches = local[v].batches
      BY <1>7, <2>2, FetchedEffect DEF tables, Keeps, NoLocal
    <2>4. HasPlanned(v) /\ ManualOf(v)
      BY <1>e, <2>3 DEF HasPlanned
    <2>5. used.asset = b.asset /\ used.day = b.day
      BY <2>2 DEF Found, New, AutomaticRead, AutomaticFor, For, Price
    <2>6. /\ b.asset = Requirement[r].asset /\ b.day = Requirement[r].day
          /\ ManualFor(prices, b.asset, b.day) = {}
      BY <2>2, <2>4 DEF BatchFor, ManualOf
    <2>7. /\ Draft(v, r, used).price = used /\ Draft(v, r, used).requirement = r
      BY DEF Draft
    <2>8. \A a, d : For(local'[v].cached, a, d) = {} => For(local[v].cached, a, d) = {}
      BY <2>2 DEF For
    <2>9. ManualOf(v)'
      <3>1. /\ HasPlanned(v)' => \A a \in AssetsNeeded(local'[v].todo, local'[v].method) :
               \A d \in DaysNeeded(local'[v].todo, local'[v].method, a) :
                  For(local'[v].cached, a, d) = {} => ManualFor(prices', a, d) = {}
        BY <2>3, <2>4, <2>8, FewerDays DEF ManualOf
      <3>2. \A p \in local'[v].cached : NewestIfManual(p, p.asset, p.day)
        BY <2>2, <2>4, <2>5, <2>6 DEF ManualOf, NewestIfManual
      <3>3. \A d \in local'[v].drafts : d.price # Native =>
                NewestIfManual(d.price, Requirement[d.requirement].asset,
                               Requirement[d.requirement].day)
        BY <2>2, <2>4, <2>6, <2>7 DEF ManualOf, NewestIfManual
      <3> QED  BY <2>3, <2>4, <3>1, <3>2, <3>3 DEF ManualOf, NewestIfManual
    <2> QED  BY <1>b, <2>3, <2>9
  <1>8. ASSUME NEW v \in Valuers, Commit(v) \/ Abort(v) PROVE \A u \in Valuers : ManualOf(u)'
    <2>1. OthersSame(v) /\ step'[v] = "done" /\ local'[v] = NoLocal
      BY <1>8, EndEffect
    <2>2. ManualOf(v)'
      BY <1>a, <1>n, <2>1 DEF HasPlanned
    <2>3. CASE Commit(v)
      <3>1. writer = v
        BY <1>e, <2>3 DEF Commit, LockHeld, Running
      <3>2. \A u \in Valuers \ {v} : ~Running(u)
        BY <1>e, <3>1 DEF LockHeld
      <3> QED  BY <1>c, <2>1, <2>2, <3>2 DEF OthersSame
    <2>4. CASE Abort(v)
      BY <1>b, <2>1, <2>2, <2>4 DEF Abort, tables
    <2> QED  BY <1>8, <2>3, <2>4
  <1>d. ASSUME prices' = prices, \A u \in Valuers : local'[u] = local[u] /\ step'[u] = step[u]
        PROVE  \A u \in Valuers : ManualOf(u)'
    BY <1>0, <1>d
  <1>9. ASSUME NEW e \in Enterers, EnterPrices(e) \/ RefusePrices(e)
        PROVE  \A u \in Valuers : ManualOf(u)'
    <2>1. prices' = prices
      BY <1>9 DEF EnterPrices, RefusePrices, tables
    <2> QED  BY <1>d, <1>9, <2>1, EntryEffect
  <1>10. ASSUME NEW e \in Enterers, StorePrices(e) PROVE \A u \in Valuers : ManualOf(u)'
    <2>1. writer \in {None, e}
      BY <1>e, <1>10 DEF StorePrices, MayWrite
    <2>2. \A u \in Valuers : ~Running(u)
      BY <1>e, <2>1, Apart DEF LockHeld
    <2> QED  BY <1>c, <1>10, <2>2, EntryEffect
  <1>11. ASSUME NEW a, NEW d, NEW c, Revise(a, d, c) PROVE \A u \in Valuers : ManualOf(u)'
    BY <1>d, <1>11 DEF Revise, tables
  <1>12. CASE UNCHANGED vars
    BY <1>d, <1>12 DEF vars
  <1> QED  BY <1>1, <1>2, <1>3, <1>4, <1>5, <1>6, <1>7, <1>8, <1>9, <1>10, <1>11, <1>12 DEF Next

LEMMA InitManual == Init => LockHeld /\ ManualRead
  <1> SUFFICES ASSUME Init PROVE LockHeld /\ ManualRead
    OBVIOUS
  <1>1. \A v \in Valuers : /\ ~Running(v) /\ ~HasPlanned(v)
                           /\ local[v].cached = {} /\ local[v].batches = {} /\ local[v].drafts = {}
    BY DEF Init, NoLocal, Running, HasPlanned, Requests
  <1> QED  BY <1>1 DEF LockHeld, ManualRead, ManualOf

LEMMA ManualDecided ==
    ASSUME TypeInv, DecisionsFollow, DraftsFollow, ManualRead, [Next]_vars, engine = "sqlite",
           NEW d \in decisions' \ decisions, d.price # Native
    PROVE  NewestIfManual(d.price, Requirement[d.requirement].asset,
                          Requirement[d.requirement].day)
  <1>1. PICK v \in Valuers : Commit(v)
    <2>1. ASSUME NEW v \in Valuers,
                 \/ StartRun(v) \/ ReadOpen(v) \/ PlanFetches(v) \/ FetchWindow(v) \/ FetchFails(v)
                 \/ Abort(v)
          PROVE  decisions' = decisions
      BY <2>1 DEF StartRun, ReadOpen, PlanFetches, FetchWindow, FetchFails, Fetched, Abort, tables
    <2>2. ASSUME NEW v \in Valuers,
                 \/ SkipMissing(v) \/ NoteReview(v) \/ LeaveOpen(v)
                 \/ DecideNative(v) \/ DecideCached(v) \/ DecideFetched(v)
          PROVE  decisions' = decisions
      BY <2>2, PassEffect, DraftEffect, FetchedEffect DEF tables
    <2>3. ASSUME NEW e \in Enterers, EnterPrices(e) \/ StorePrices(e) \/ RefusePrices(e)
          PROVE  decisions' = decisions
      BY <2>3, EntryEffect
    <2>4. ASSUME NEW a, NEW x, NEW c, Revise(a, x, c) PROVE decisions' = decisions
      BY <2>4 DEF Revise, tables
    <2>5. ASSUME UNCHANGED vars PROVE decisions' = decisions
      BY <2>5 DEF vars
    <2> QED  BY <2>1, <2>2, <2>3, <2>4, <2>5 DEF Next
  <1>2. d \in local[v].drafts
    BY <1>1 DEF Commit
  <1> QED  BY <1>2 DEF ManualRead, ManualOf

\* While a run is under way nothing else is written with SQLite, so what it has read
\* of manual prices is still so: the strengthening ManualPriceWins needs.
THEOREM LockInductive == Spec => [](LockHeld /\ ManualRead)
  <1> QED  BY PricesInductive, InitManual, LockStep, ManualStep, PTL DEF Spec

\* With SQLite no requirement is decided by anything but the newest manual price of its
\* day once there is one, whatever was read or entered when.
THEOREM ManualPricesWin == Spec => ManualPriceWins
  <1>1. TypeInv /\ DecisionsFollow /\ DraftsFollow /\ ManualRead /\ [Next]_vars =>
            [engine = "sqlite" =>
                \A d \in decisions' \ decisions :
                    LET manual == ManualFor(prices, Requirement[d.requirement].asset,
                                            Requirement[d.requirement].day)
                    IN d.price # Native /\ manual # {} => d.price = Newest(manual)]_vars
    BY ManualDecided DEF NewestIfManual
  <1> QED  BY <1>1, PricesInductive, DecisionsInductive, LockInductive, PTL
           DEF Spec, ManualPriceWins

-----------------------------------------------------------------------------
(* Windows.                                                                *)

LEMMA MultiplesApart ==
    ASSUME NEW m \in Nat \ {0}, NEW a \in Nat, NEW b \in Nat, a % m = 0, b % m = 0, a < b
    PROVE  a + m <= b
  <1>1. a = m * (a \div m) + (a % m) /\ b = m * (b \div m) + (b % m)
    OBVIOUS
  <1>2. PICK k \in Int : k = a \div m
    OBVIOUS
  <1>3. PICK l \in Int : l = b \div m
    OBVIOUS
  <1>4. a = m * k /\ b = m * l
    BY <1>1, <1>2, <1>3
  <1>5. k < l
    BY <1>4
  <1>6. m * k + m <= m * l
    BY <1>5
  <1> QED  BY <1>4, <1>6

LEMMA MultipleBelow ==
    ASSUME NEW m \in Nat \ {0}, NEW a \in Nat
    PROVE  \E b \in 0 .. a : b % m = 0 /\ a < b + m
  <1>1. /\ a = m * (a \div m) + (a % m)
        /\ a \div m \in Int /\ a % m \in Int /\ 0 <= a % m /\ a % m < m
    OBVIOUS
  <1>2. PICK k \in Int : k = a \div m
    BY <1>1
  <1>3. PICK r \in Int : r = a % m
    BY <1>1
  <1>4. a = m * k + r /\ 0 <= r /\ r < m
    BY <1>1, <1>2, <1>3
  <1>5. k \in Nat
    BY <1>4
  <1>6. (m * k) % m = 0 /\ m * k \in Nat
    BY <1>5
  <1> QED  BY <1>4, <1>6

LEMMA WindowOf ==
    ASSUME NEW asset, NEW missing \in SUBSET Nat, IsFiniteSet(missing), missing # {}
    PROVE  /\ Min(missing) \in Nat /\ Max(missing) \in Nat
           /\ \A n \in missing : Min(missing) <= n /\ n <= Max(missing)
           /\ \A w \in Windows(asset, missing) :
                 /\ w.asset = asset /\ w.from \in Min(missing) .. Max(missing)
                 /\ (w.from - Min(missing)) % MaxDays = 0
                 /\ w.until = IF w.from + MaxDays <= Max(missing) + 1
                              THEN w.from + MaxDays ELSE Max(missing) + 1
                 /\ w = [asset |-> asset, from |-> w.from, until |-> w.until]
           /\ \A d \in Min(missing) .. Max(missing) : (d - Min(missing)) % MaxDays = 0 =>
                 \E w \in Windows(asset, missing) : w.from = d
  <1>1. Min(missing) \in missing /\ \A n \in missing : Min(missing) <= n
    BY LeastNatural DEF Min
  <1>2. Max(missing) \in missing /\ \A n \in missing : n <= Max(missing)
    <2> DEFINE f == [n \in missing |-> n]
    <2>1. \A n \in missing : f[n] \in Nat /\ f[n] = n
      OBVIOUS
    <2> HIDE DEF f
    <2>2. SumOf(f, missing) \in Nat /\ \A n \in missing : n <= SumOf(f, missing)
      BY <2>1, SumPositive
    <2> QED  BY <2>2, GreatestNatural
  <1>3. \A a, b \in Int : Min({a, b}) = IF a <= b THEN a ELSE b
    BY DEF Min
  <1>4. MaxDays \in Nat \ {0}
    BY ProviderAssumption
  <1>5. \A w : w \in Windows(asset, missing) <=>
            \E d \in Min(missing) .. (WindowEnd(missing) - 1) :
                /\ (d - Min(missing)) % MaxDays = 0
                /\ w = [asset |-> asset, from |-> d,
                        until |-> Min({d + MaxDays, WindowEnd(missing)})]
    BY DEF Windows
  <1>6. PICK first \in Nat, last \in Nat : first = Min(missing) /\ last = Max(missing)
    BY <1>1, <1>2
  <1>a. WindowEnd(missing) = last + 1 /\ WindowEnd(missing) - 1 = last
    BY <1>6 DEF WindowEnd
  <1>7. \A w : w \in Windows(asset, missing) <=>
            \E d \in first .. last :
                /\ (d - first) % MaxDays = 0
                /\ w = [asset |-> asset, from |-> d, until |-> Min({d + MaxDays, last + 1})]
    BY <1>5, <1>6, <1>a
  <1>8. ASSUME NEW w \in Windows(asset, missing)
        PROVE  /\ w.asset = asset /\ w.from \in first .. last
               /\ (w.from - first) % MaxDays = 0
               /\ w.until = IF w.from + MaxDays <= last + 1 THEN w.from + MaxDays ELSE last + 1
               /\ w = [asset |-> asset, from |-> w.from, until |-> w.until]
    <2>1. PICK d \in first .. last :
              /\ (d - first) % MaxDays = 0
              /\ w = [asset |-> asset, from |-> d, until |-> Min({d + MaxDays, last + 1})]
      BY <1>7
    <2>2. w.from = d /\ w.asset = asset /\ w.until = Min({d + MaxDays, last + 1})
      BY <2>1
    <2>3. d + MaxDays \in Int /\ last + 1 \in Int
      BY <1>4
    <2>4. Min({d + MaxDays, last + 1}) = IF d + MaxDays <= last + 1 THEN d + MaxDays ELSE last + 1
      BY <1>3, <2>3
    <2> QED  BY <2>1, <2>2, <2>4
  <1>9. ASSUME NEW d \in first .. last, (d - first) % MaxDays = 0
        PROVE  \E w \in Windows(asset, missing) : w.from = d
    <2> DEFINE w == [asset |-> asset, from |-> d, until |-> Min({d + MaxDays, last + 1})]
    <2>1. w \in Windows(asset, missing) /\ w.from = d
      BY <1>7, <1>9
    <2> QED  BY <2>1
  <1> QED  BY <1>1, <1>2, <1>6, <1>8, <1>9

\* The windows of an asset are at most MaxDays long, do not overlap, and every missing
\* day is in one of them.
LEMMA WindowsCover ==
    ASSUME NEW asset, NEW missing \in SUBSET Nat, IsFiniteSet(missing)
    PROVE  /\ \A w \in Windows(asset, missing) :
                 w.asset = asset /\ w.from \in Nat /\ w.until - w.from \in 1 .. MaxDays
           /\ \A w \in Windows(asset, missing) : \A x \in Windows(asset, missing) :
                 w # x => DaysOf(x) \cap DaysOf(w) = {}
           /\ \A d \in missing : \E w \in Windows(asset, missing) : d \in DaysOf(w)
  <1>0. MaxDays \in Nat \ {0}
    BY ProviderAssumption
  <1>1. CASE missing = {}
    BY <1>1 DEF Windows
  <1>2. CASE missing # {}
    <2>0. PICK first \in Nat, last \in Nat : first = Min(missing) /\ last = Max(missing)
      BY <1>2, WindowOf
    <2>1. /\ \A n \in missing : first <= n /\ n <= last
          /\ \A w \in Windows(asset, missing) :
                /\ w.asset = asset /\ w.from \in first .. last
                /\ (w.from - first) % MaxDays = 0
                /\ w.until = IF w.from + MaxDays <= last + 1 THEN w.from + MaxDays ELSE last + 1
                /\ w = [asset |-> asset, from |-> w.from, until |-> w.until]
          /\ \A d \in first .. last : (d - first) % MaxDays = 0 =>
                \E w \in Windows(asset, missing) : w.from = d
      BY <1>2, <2>0, WindowOf
    <2>2. \A w \in Windows(asset, missing) :
              w.asset = asset /\ w.from \in Nat /\ w.until - w.from \in 1 .. MaxDays
      BY <1>0, <2>1
    <2>3. ASSUME NEW w \in Windows(asset, missing), NEW x \in Windows(asset, missing),
                 w.from < x.from
          PROVE  DaysOf(x) \cap DaysOf(w) = {}
      <3>1. /\ w.from \in first .. last /\ x.from \in first .. last
            /\ (w.from - first) % MaxDays = 0 /\ (x.from - first) % MaxDays = 0
            /\ w.until \in Nat /\ w.until <= w.from + MaxDays
        BY <1>0, <2>1
      <3>2. w.from - first \in Nat /\ x.from - first \in Nat /\ w.from - first < x.from - first
        BY <2>3, <3>1
      <3>3. (w.from - first) + MaxDays <= x.from - first
        BY <1>0, <3>1, <3>2, MultiplesApart
      <3>4. w.until <= x.from
        BY <1>0, <3>1, <3>3
      <3> QED  BY <3>1, <3>4 DEF DaysOf
    <2>4. ASSUME NEW w \in Windows(asset, missing), NEW x \in Windows(asset, missing),
                 w.from = x.from
          PROVE  w = x
      <3>1. w.until = x.until
        BY <2>1, <2>4
      <3> QED  BY <2>1, <2>4, <3>1
    <2>5. ASSUME NEW w \in Windows(asset, missing), NEW x \in Windows(asset, missing), w # x
          PROVE  DaysOf(x) \cap DaysOf(w) = {}
      <3>1. w.from < x.from \/ x.from < w.from
        BY <2>2, <2>4, <2>5
      <3> QED  BY <2>3, <3>1
    <2>6. ASSUME NEW d \in missing PROVE \E w \in Windows(asset, missing) : d \in DaysOf(w)
      <3>1. d \in first .. last /\ d - first \in Nat
        BY <2>1
      <3>2. PICK b \in 0 .. (d - first) : b % MaxDays = 0 /\ d - first < b + MaxDays
        BY <1>0, <3>1, MultipleBelow
      <3>3. first + b \in first .. last /\ (first + b) - first = b
        BY <3>1, <3>2
      <3>4. PICK w \in Windows(asset, missing) : w.from = first + b
        BY <2>1, <3>2, <3>3
      <3>5. d >= w.from /\ d < w.until /\ w.until \in Nat
        BY <1>0, <2>1, <3>1, <3>2, <3>4
      <3> QED  BY <3>1, <3>3, <3>4, <3>5 DEF DaysOf
    <2> QED  BY <2>2, <2>5, <2>6
  <1> QED  BY <1>1, <1>2

LEMMA DaysAreFinite ==
    ASSUME NEW rs \in SUBSET DOMAIN Requirement, NEW m, NEW a
    PROVE  DaysNeeded(rs, m, a) \in SUBSET Nat /\ IsFiniteSet(DaysNeeded(rs, m, a))
  <1> DEFINE R == {r \in rs : Priced(r, m) /\ Requirement[r].asset = a}
             f == [r \in R |-> Requirement[r].day]
  <1>1. R \in SUBSET DOMAIN Requirement
    OBVIOUS
  <1>2. IsFiniteSet(R)
    <2> HIDE DEF R
    <2> QED  BY <1>1, FS_Subset, ValuationAssumption
  <1>3. f \in Surjection(R, DaysNeeded(rs, m, a))
    BY DEF Surjection, DaysNeeded
  <1>4. IsFiniteSet(DaysNeeded(rs, m, a))
    <2> HIDE DEF f, R
    <2> QED  BY <1>2, <1>3, FS_Surjection
  <1>5. DaysNeeded(rs, m, a) \in SUBSET Nat
    BY ValuationAssumption DEF DaysNeeded
  <1> QED  BY <1>4, <1>5

LEMMA PlanMade ==
    ASSUME TypeInv, PricesFollow, NEW v \in Valuers, PlanFetches(v)
    PROVE  PlanOf(v)'
  <1> DEFINE m == local[v].method
             refresh == local[v].refresh
             assets == AssetsNeeded(local[v].todo, m)
             keys == UNION {{[asset |-> a, day |-> d] : d \in DaysNeeded(local[v].todo, m, a)}
                                : a \in assets}
  <1>1. /\ OthersSame(v)
        /\ step'[v] = IF local'[v].windows = {} THEN "applying" ELSE "fetching"
        /\ local'[v].cached = {Newest(Eligible(k.asset, k.day, refresh)) :
                                  k \in {k \in keys : Eligible(k.asset, k.day, refresh) # {}}}
        /\ local'[v].windows = UNION {Windows(a, MissingDays(v, a)) : a \in assets}
        /\ local'[v].batches = {} /\ Keeps(v, {"cached", "windows", "batches"})
    BY PlanEffect
  <1>2. local'[v].todo = local[v].todo /\ local'[v].method = m
    BY <1>1 DEF Keeps, NoLocal
  <1>3. ASSUME NEW a
        PROVE  MissingDays(v, a) \in SUBSET Nat /\ IsFiniteSet(MissingDays(v, a))
    <2>1. local[v].todo \in SUBSET DOMAIN Requirement
      BY DEF TypeInv
    <2>2. MissingDays(v, a) \in SUBSET DaysNeeded(local[v].todo, m, a)
      BY DEF MissingDays
    <2>3. DaysNeeded(local[v].todo, m, a) \in SUBSET Nat /\ IsFiniteSet(DaysNeeded(local[v].todo, m, a))
      BY <2>1, DaysAreFinite
    <2> HIDE DEF m
    <2> QED  BY <2>2, <2>3, FS_Subset
  <1>4. ASSUME NEW a
        PROVE  /\ \A w \in Windows(a, MissingDays(v, a)) :
                     w.asset = a /\ w.from \in Nat /\ w.until - w.from \in 1 .. MaxDays
               /\ \A w \in Windows(a, MissingDays(v, a)) : \A x \in Windows(a, MissingDays(v, a)) :
                     w # x => DaysOf(x) \cap DaysOf(w) = {}
               /\ \A d \in MissingDays(v, a) : \E w \in Windows(a, MissingDays(v, a)) : d \in DaysOf(w)
    BY <1>3, WindowsCover
  <1>5. ASSUME NEW w \in local'[v].windows
        PROVE  /\ w.from \in Nat /\ w.until - w.from \in 1 .. MaxDays
               /\ \A x \in local'[v].windows \ {w} :
                     x.asset = w.asset => DaysOf(x) \cap DaysOf(w) = {}
    <2>1. PICK a \in assets : w \in Windows(a, MissingDays(v, a))
      BY <1>1
    <2>2. w.asset = a /\ w.from \in Nat /\ w.until - w.from \in 1 .. MaxDays
      BY <1>4, <2>1
    <2>3. ASSUME NEW x \in local'[v].windows, x # w, x.asset = w.asset
          PROVE  DaysOf(x) \cap DaysOf(w) = {}
      <3>1. PICK b \in assets : x \in Windows(b, MissingDays(v, b))
        BY <1>1
      <3>2. b = a
        BY <1>4, <2>2, <2>3, <3>1
      <3> QED  BY <1>4, <2>1, <2>3, <3>1, <3>2
    <2> QED  BY <2>2, <2>3
  <1>6. ASSUME NEW r \in local[v].todo, Priced(r, m) PROVE Covers(v, r)'
    <2> DEFINE a == Requirement[r].asset
               d == Requirement[r].day
               k == [asset |-> a, day |-> d]
    <2>1. a \in assets /\ d \in DaysNeeded(local[v].todo, m, a)
      BY <1>6 DEF AssetsNeeded, DaysNeeded
    <2>2. k \in keys /\ k.asset = a /\ k.day = d
      BY <2>1
    <2>3. CASE Eligible(a, d, refresh) # {}
      <3>1. Newest(Eligible(a, d, refresh)) \in local'[v].cached
        <4> HIDE DEF keys, k, refresh
        <4> QED  BY <1>1, <2>2, <2>3
      <3>2. /\ Newest(Eligible(a, d, refresh)).asset = a
            /\ Newest(Eligible(a, d, refresh)).day = d
        <4> HIDE DEF refresh, a, d
        <4> QED  BY <2>3, NewestEligible
      <3> QED  BY <3>1, <3>2 DEF Covers, CachedFor, For
    <2>4. CASE Eligible(a, d, refresh) = {}
      <3>1. d \in MissingDays(v, a)
        BY <2>1, <2>4 DEF MissingDays
      <3>2. PICK w \in Windows(a, MissingDays(v, a)) : d \in DaysOf(w)
        <4> HIDE DEF a, d
        <4> QED  BY <1>4, <3>1
      <3>3. w.asset = a
        <4> HIDE DEF a
        <4> QED  BY <1>4
      <3>4. w \in local'[v].windows
        <4> HIDE DEF a, assets
        <4> QED  BY <1>1, <2>1
      <3> QED  BY <3>2, <3>3, <3>4 DEF Covers
    <2> QED  BY <2>3, <2>4
  <1>7. step'[v] = "fetching" => local'[v].windows # {}
    BY <1>1
  <1> QED  BY <1>1, <1>2, <1>5, <1>6, <1>7 DEF PlanOf

LEMMA NextWindowIn ==
    ASSUME NEW v \in Valuers, PlanOf(v), step[v] = "fetching"
    PROVE  NextWindow(v) \in local[v].windows
  <1> DEFINE ws == local[v].windows
  <1>1. ws # {} /\ \A w \in ws : w.from \in Nat
    BY DEF PlanOf, HasPlanned
  <1>2. PICK w \in ws : TRUE
    BY <1>1
  <1> DEFINE S == {x.from : x \in {x \in ws : x.asset = w.asset}}
  <1>3. S \in SUBSET Nat /\ S # {}
    BY <1>1, <1>2
  <1>4. PICK n \in S : \A k \in S : n <= k
    <2> HIDE DEF S
    <2> QED  BY <1>3, LeastNatural
  <1>5. \E y \in ws : \A x \in ws : x.asset = y.asset => y.from <= x.from
    BY <1>4
  <1> QED  BY <1>5 DEF NextWindow

LEMMA PlanStep == TypeInv /\ PricesFollow /\ PlanInv /\ [Next]_vars => PlanInv'
  <1> SUFFICES ASSUME TypeInv, PricesFollow, PlanInv, [Next]_vars PROVE PlanInv'
    OBVIOUS
  <1>0. ASSUME NEW u \in Valuers, local'[u] = local[u], step'[u] = step[u]
        PROVE  PlanOf(u)'
    <2>1. PlanOf(u)
      BY DEF PlanInv
    <2> QED  BY <1>0, <2>1 DEF PlanOf, HasPlanned, Covers, CachedFor, BatchFor
  <1>a. ASSUME NEW v \in Valuers, OthersSame(v), PlanOf(v)' PROVE PlanInv'
    BY <1>0, <1>a DEF OthersSame, PlanInv
  <1>b. ASSUME NEW v \in Valuers, ~HasPlanned(v)' PROVE PlanOf(v)'
    BY <1>b DEF PlanOf
  \* A turn of the loop.
  <1>c. ASSUME NEW v \in Valuers, step[v] = "applying", step' = step,
               local'[v].method = local[v].method, local'[v].windows = local[v].windows,
               local'[v].batches = local[v].batches,
               local'[v].todo \subseteq local[v].todo, local[v].cached \subseteq local'[v].cached
        PROVE  PlanOf(v)'
    <2>1. PlanOf(v) /\ HasPlanned(v)
      BY <1>c DEF PlanInv, HasPlanned
    <2>2. \A r : Covers(v, r) => Covers(v, r)'
      BY <1>c DEF Covers, CachedFor, BatchFor, For
    <2> QED  BY <1>c, <2>1, <2>2 DEF PlanOf
  <1>1. ASSUME NEW v \in Valuers, StartRun(v) PROVE PlanInv'
    BY <1>1, <1>a, <1>b, StartEffect DEF HasPlanned
  <1>2. ASSUME NEW v \in Valuers, ReadOpen(v) PROVE PlanInv'
    BY <1>2, <1>a, <1>b, ReadEffect DEF HasPlanned
  <1>3. ASSUME NEW v \in Valuers, PlanFetches(v) PROVE PlanInv'
    <2>1. OthersSame(v)
      BY <1>3, PlanEffect
    <2> QED  BY <1>3, <1>a, <2>1, PlanMade
  <1>4. ASSUME NEW v \in Valuers, FetchWindow(v) \/ FetchFails(v) PROVE PlanInv'
    <2> DEFINE w == NextWindow(v)
    <2>1. step[v] = "fetching" /\ \E kept, outcome : Fetched(v, w, kept, Results(v, w, outcome))
      BY <1>4 DEF FetchWindow, FetchFails
    <2>2. PICK kept, outcome : Fetched(v, w, kept, Results(v, w, outcome))
      BY <2>1
    <2>3. PlanOf(v) /\ HasPlanned(v)
      BY <2>1 DEF PlanInv, HasPlanned
    <2>4. w \in local[v].windows
      BY <2>1, <2>3, NextWindowIn
    <2> HIDE DEF w
    <2>5. /\ OthersSame(v)
          /\ step'[v] = IF local[v].windows = {w} THEN "applying" ELSE "fetching"
          /\ local'[v].windows = local[v].windows \ {w}
          /\ local'[v].batches = local[v].batches \cup Results(v, w, outcome)
          /\ Keeps(v, {"windows", "evidence", "batches"})
      BY <2>1, <2>2, FetchEffect
    <2>6. /\ local'[v].todo = local[v].todo /\ local'[v].method = local[v].method
          /\ local'[v].cached = local[v].cached
      BY <2>5 DEF Keeps, NoLocal
    <2>7. \A b \in Results(v, w, outcome) : b.asset = w.asset /\ b.day \in DaysOf(w)
      BY DEF Results
    <2>8. ASSUME NEW r \in local[v].todo, Priced(r, local[v].method) PROVE Covers(v, r)'
      <3>1. Covers(v, r)
        BY <2>3, <2>8 DEF PlanOf
      <3>2. CASE CachedFor(v, r) # {}
        BY <2>6, <3>2 DEF Covers, CachedFor
      <3>3. CASE BatchFor(v, r) # {}
        BY <2>5, <3>3 DEF Covers, BatchFor
      <3>4. CASE \E x \in local[v].windows \ {w} :
                    x.asset = Requirement[r].asset /\ Requirement[r].day \in DaysOf(x)
        BY <2>5, <3>4 DEF Covers
      <3>5. CASE /\ w.asset = Requirement[r].asset /\ Requirement[r].day \in DaysOf(w)
                 /\ CachedFor(v, r) = {}
        <4> DEFINE b == [asset |-> w.asset, day |-> Requirement[r].day, outcome |-> outcome]
        <4>1. Requirement[r].day \in DaysNeeded(local[v].todo, local[v].method, w.asset)
          BY <2>8, <3>5 DEF DaysNeeded
        <4>2. b \in Results(v, w, outcome)
          BY <3>5, <4>1 DEF Results, CachedFor
        <4>3. b \in BatchFor(v, r)'
          BY <2>5, <3>5, <4>2 DEF BatchFor
        <4> QED  BY <4>3 DEF Covers
      <3> QED  BY <3>1, <3>2, <3>3, <3>4, <3>5 DEF Covers
    <2>9. ASSUME NEW x \in local'[v].windows
          PROVE  /\ x.from \in Nat /\ x.until - x.from \in 1 .. MaxDays
                 /\ \A y \in local'[v].windows \ {x} :
                       y.asset = x.asset => DaysOf(y) \cap DaysOf(x) = {}
                 /\ \A b \in local'[v].batches : b.asset = x.asset => b.day \notin DaysOf(x)
      <3>1. /\ x \in local[v].windows /\ x # w
            /\ x.from \in Nat /\ x.until - x.from \in 1 .. MaxDays
            /\ \A y \in local[v].windows \ {x} :
                  y.asset = x.asset => DaysOf(y) \cap DaysOf(x) = {}
            /\ \A b \in local[v].batches : b.asset = x.asset => b.day \notin DaysOf(x)
        BY <2>3, <2>5 DEF PlanOf
      <3>2. \A b \in Results(v, w, outcome) : b.asset = x.asset => b.day \notin DaysOf(x)
        BY <2>4, <2>7, <3>1
      <3> QED  BY <2>5, <3>1, <3>2
    <2>10. step'[v] = "fetching" => local'[v].windows # {}
      BY <2>4, <2>5
    <2>11. PlanOf(v)'
      BY <2>6, <2>8, <2>9, <2>10 DEF PlanOf
    <2> QED  BY <1>a, <2>5, <2>11
  <1>5. ASSUME NEW v \in Valuers,
               \/ SkipMissing(v) \/ NoteReview(v) \/ LeaveOpen(v)
               \/ DecideNative(v) \/ DecideCached(v) \/ DecideFetched(v)
        PROVE  PlanInv'
    <2>1. /\ OthersSame(v) /\ step[v] = "applying" /\ step' = step
          /\ local'[v].method = local[v].method /\ local'[v].windows = local[v].windows
          /\ local'[v].batches = local[v].batches
          /\ local'[v].todo \subseteq local[v].todo
          /\ local[v].cached \subseteq local'[v].cached
      <3>1. CASE SkipMissing(v) \/ NoteReview(v) \/ LeaveOpen(v)
        BY <3>1, PassEffect DEF Keeps, NoLocal
      <3>2. CASE DecideNative(v) \/ DecideCached(v)
        BY <3>2, DraftEffect DEF Keeps, NoLocal
      <3>3. CASE DecideFetched(v)
        <4>1. /\ OthersSame(v) /\ step[v] = "applying" /\ step' = step
              /\ local'[v].todo \subseteq local[v].todo
              /\ local[v].cached \subseteq local'[v].cached
          BY <3>3, FetchedEffect
        <4>2. /\ local'[v].method = local[v].method /\ local'[v].windows = local[v].windows
              /\ local'[v].batches = local[v].batches
          BY <3>3, FetchedEffect DEF Keeps, NoLocal
        <4> QED  BY <4>1, <4>2
      <3> QED  BY <1>5, <3>1, <3>2, <3>3
    <2> QED  BY <1>a, <1>c, <2>1
  <1>6. ASSUME NEW v \in Valuers, Commit(v) \/ Abort(v) PROVE PlanInv'
    BY <1>6, <1>a, <1>b, EndEffect DEF HasPlanned
  <1>d. ASSUME \A v \in Valuers : local'[v] = local[v] /\ step'[v] = step[v] PROVE PlanInv'
    BY <1>0, <1>d DEF PlanInv
  <1>7. ASSUME NEW e \in Enterers, EnterPrices(e) \/ StorePrices(e) \/ RefusePrices(e)
        PROVE  PlanInv'
    BY <1>7, <1>d, EntryEffect
  <1>8. ASSUME NEW a, NEW d, NEW c, Revise(a, d, c) PROVE PlanInv'
    BY <1>8, <1>d DEF Revise
  <1>9. CASE UNCHANGED vars
    BY <1>9, <1>d DEF vars
  <1> QED  BY <1>1, <1>2, <1>3, <1>4, <1>5, <1>6, <1>7, <1>8, <1>9 DEF Next

LEMMA InitPlan == Init => PlanInv
  <1> SUFFICES ASSUME Init, NEW v \in Valuers PROVE ~HasPlanned(v)
    BY DEF PlanInv, PlanOf
  <1> QED  BY DEF Init, HasPlanned, Requests

\* Whatever a run has to price it has a price, an answer or a window for, and the
\* windows of an asset share no day: for any days, and any length of a window.
THEOREM PlansAreCovered == Spec => []FetchCoversPlan
  <1>1. PlanInv => FetchCoversPlan
    BY DEF PlanInv, PlanOf, HasPlanned, Covers, FetchCoversPlan
  <1> QED  BY <1>1, PricesInductive, InitPlan, PlanStep, PTL DEF Spec

-----------------------------------------------------------------------------
(* Evidence.                                                               *)

\* The recursion behind KeptAll, for the sets of attempts in D.
KeepsAll(g, rows, w, attempts, D) ==
    g = [s \in D |-> IF s = {} THEN rows
                     ELSE Kept(g[s \ {Max(s)}], w, attempts[Max(s)])]

LEMMA LastTaken ==
    ASSUME NEW k \in Nat, NEW n \in Nat, NEW s \in UpTo(1..k, n + 1), s # {}
    PROVE  s \ {Max(s)} \in UpTo(1..k, n)
  <1>1. s \in SUBSET (1..k) /\ Cardinality(s) <= n + 1
    BY DEF UpTo
  <1>2. IsFiniteSet(s) /\ Cardinality(s) \in Nat
    <2>1. IsFiniteSet(1..k)
      BY FS_Interval
    <2> QED  BY <1>1, <2>1, FS_Subset, FS_CardinalityType
  <1>3. Max(s) \in s
    <2>1. s \in SUBSET Nat /\ \A x \in s : x <= k
      BY <1>1
    <2> QED  BY <2>1, GreatestNatural
  <1>4. Cardinality(s \ {Max(s)}) = Cardinality(s) - 1
    BY <1>2, <1>3, FS_RemoveElement
  <1>5. s \ {Max(s)} \in SUBSET (1..k)
    BY <1>1
  <1>6. Cardinality(s \ {Max(s)}) <= n
    BY <1>1, <1>2, <1>4
  <1> QED  BY <1>5, <1>6 DEF UpTo

LEMMA KeptExists ==
    ASSUME NEW k \in Nat, NEW rows, NEW w, NEW attempts
    PROVE  \A n \in Nat : \E g : KeepsAll(g, rows, w, attempts, UpTo(1..k, n))
  <1> DEFINE N == {n \in Nat : \E g : KeepsAll(g, rows, w, attempts, UpTo(1..k, n))}
  <1>0. \A s \in SUBSET (1..k) : IsFiniteSet(s) /\ Cardinality(s) \in Nat
    <2>1. IsFiniteSet(1..k)
      BY FS_Interval
    <2> QED  BY <2>1, FS_Subset, FS_CardinalityType
  <1>1. 0 \in N
    <2>1. \A s \in UpTo(1..k, 0) : s = {}
      BY <1>0, FS_EmptySet DEF UpTo
    <2>2. KeepsAll([s \in UpTo(1..k, 0) |-> rows], rows, w, attempts, UpTo(1..k, 0))
      BY <2>1 DEF KeepsAll
    <2> QED  BY <2>2
  <1>2. ASSUME NEW n \in N
        PROVE  n + 1 \in N
    <2>0. n \in Nat /\ UpTo(1..k, n) \subseteq UpTo(1..k, n + 1)
      BY <1>0 DEF UpTo
    <2>1. PICK g : KeepsAll(g, rows, w, attempts, UpTo(1..k, n))
      OBVIOUS
    <2> DEFINE h == [s \in UpTo(1..k, n + 1) |-> IF s = {} THEN rows
                         ELSE Kept(g[s \ {Max(s)}], w, attempts[Max(s)])]
    <2>2. \A s \in UpTo(1..k, n) : h[s] = g[s]
      BY <2>0, <2>1 DEF KeepsAll
    <2>3. \A s \in UpTo(1..k, n + 1) : s # {} => s \ {Max(s)} \in UpTo(1..k, n)
      BY <2>0, LastTaken
    <2>4. h = [s \in UpTo(1..k, n + 1) |-> IF s = {} THEN rows
                   ELSE Kept(h[s \ {Max(s)}], w, attempts[Max(s)])]
      BY <2>2, <2>3
    <2> HIDE DEF h
    <2>5. KeepsAll(h, rows, w, attempts, UpTo(1..k, n + 1))
      BY <2>4 DEF KeepsAll
    <2> QED  BY <2>0, <2>5
  <1> HIDE DEF N
  <1>3. N = Nat
    <2>1. N \in SUBSET Nat
      BY DEF N
    <2> QED  BY <1>1, <1>2, <2>1, NaturalsBySteps
  <1> QED  BY <1>3 DEF N

\* So KeptAll takes one attempt after the other.
OneByOne(g, rows, w, attempts, k) ==
    /\ KeepsAll(g, rows, w, attempts, SUBSET (1..k))
    /\ KeptAll(rows, w, attempts) = g[1..k]

LEMMA KeptRecursion ==
    ASSUME NEW k \in Nat, NEW rows, NEW w, NEW attempts, DOMAIN attempts = 1..k
    PROVE  \E g : OneByOne(g, rows, w, attempts, k)
  <1> DEFINE it == CHOOSE g : g = [s \in SUBSET (1..k) |->
                       IF s = {} THEN rows ELSE Kept(g[s \ {Max(s)}], w, attempts[Max(s)])]
  <1>1. SUBSET (1..k) = UpTo(1..k, k)
    <2>1. IsFiniteSet(1..k) /\ Cardinality(1..k) = k
      BY FS_Interval
    <2> QED  BY <2>1, FS_Subset DEF UpTo
  <1>2. \E g : g = [s \in SUBSET (1..k) |->
                       IF s = {} THEN rows ELSE Kept(g[s \ {Max(s)}], w, attempts[Max(s)])]
    <2>1. \E g : KeepsAll(g, rows, w, attempts, UpTo(1..k, k))
      BY KeptExists
    <2>2. \E g : KeepsAll(g, rows, w, attempts, SUBSET (1..k))
      BY <1>1, <2>1
    <2> QED  BY <2>2 DEF KeepsAll
  <1>3. it = [s \in SUBSET (1..k) |->
                 IF s = {} THEN rows ELSE Kept(it[s \ {Max(s)}], w, attempts[Max(s)])]
    BY <1>2
  <1>4. KeptAll(rows, w, attempts) = it[1..k]
    BY DEF KeptAll, FoldLeft, MapThenFoldSet
  <1> HIDE DEF it
  <1> QED  BY <1>3, <1>4 DEF KeepsAll, OneByOne

LEMMA KeptOne ==
    ASSUME NEW rows, NEW w, NEW attempt, Silent(rows),
           attempt.status # Success => attempt.answer = Silence(w)
    PROVE  /\ rows \subseteq Kept(rows, w, attempt) /\ Silent(Kept(rows, w, attempt))
           /\ \E e \in Kept(rows, w, attempt) : SameEvidence(e, w, attempt.answer)
  <1> DEFINE new == [asset |-> w.asset, from |-> w.from, until |-> w.until,
                     answer |-> attempt.answer, status |-> attempt.status]
  <1>1. /\ SameEvidence(new, w, attempt.answer) /\ Silence(new) = Silence(w)
        /\ new.status = attempt.status /\ new.answer = attempt.answer
    BY DEF SameEvidence, Silence, DaysOf
  <1>2. Kept(rows, w, attempt) \in {rows, rows \cup {new}}
    BY DEF Kept
  <1>3. Kept(rows, w, attempt) = rows => \E e \in rows : SameEvidence(e, w, attempt.answer)
    <2> SUFFICES ASSUME Kept(rows, w, attempt) = rows,
                        ~ \E e \in rows : SameEvidence(e, w, attempt.answer)
                 PROVE FALSE
      OBVIOUS
    <2>1. Kept(rows, w, attempt) = rows \cup {new}
      BY DEF Kept
    <2> HIDE DEF new
    <2> QED  BY <1>1, <2>1
  <1> HIDE DEF new
  <1> QED  BY <1>1, <1>2, <1>3 DEF Silent

LEMMA KeptSound ==
    ASSUME NEW k \in Nat, NEW rows, NEW w, NEW attempts, DOMAIN attempts = 1..k, Silent(rows),
           \A i \in 1..k : attempts[i].status # Success => attempts[i].answer = Silence(w)
    PROVE  /\ rows \subseteq KeptAll(rows, w, attempts) /\ Silent(KeptAll(rows, w, attempts))
           /\ k > 0 => \E e \in KeptAll(rows, w, attempts) : SameEvidence(e, w, attempts[k].answer)
  <1>0. PICK g : OneByOne(g, rows, w, attempts, k)
    BY KeptRecursion
  <1>1. KeepsAll(g, rows, w, attempts, SUBSET (1..k)) /\ KeptAll(rows, w, attempts) = g[1..k]
    BY <1>0 DEF OneByOne
  <1> DEFINE N == {n \in Nat : n <= k =>
                      /\ rows \subseteq g[1..n] /\ Silent(g[1..n])
                      /\ n > 0 => \E e \in g[1..n] : SameEvidence(e, w, attempts[n].answer)}
  <1>2. 0 \in N
    <2>1. 1..0 = {} /\ {} \in SUBSET (1..k)
      OBVIOUS
    <2>2. g[1..0] = rows
      BY <1>1, <2>1 DEF KeepsAll
    <2> QED  BY <2>2
  <1>3. ASSUME NEW n \in N
        PROVE  n + 1 \in N
    <2>0. n \in Nat
      OBVIOUS
    <2> SUFFICES ASSUME n + 1 <= k
                 PROVE  /\ rows \subseteq g[1..(n + 1)] /\ Silent(g[1..(n + 1)])
                        /\ \E e \in g[1..(n + 1)] : SameEvidence(e, w, attempts[n + 1].answer)
      BY <2>0
    <2>1. rows \subseteq g[1..n] /\ Silent(g[1..n])
      BY <2>0
    <2>2. 1..(n + 1) \in SUBSET (1..k) /\ 1..(n + 1) # {} /\ n + 1 \in 1..k
      <3>1. n + 1 \in 1..k /\ n + 1 \in 1..(n + 1)
        BY <2>0
      <3>2. \A i \in 1..(n + 1) : i \in 1..k
        BY <2>0
      <3> QED  BY <3>1, <3>2
    <2>3. Max(1..(n + 1)) = n + 1
      <3>1. 1..(n + 1) \in SUBSET Nat /\ n + 1 \in Nat /\ \A s \in 1..(n + 1) : s <= n + 1
        BY <2>0
      <3>2. Max(1..(n + 1)) \in 1..(n + 1) /\ \A s \in 1..(n + 1) : s <= Max(1..(n + 1))
        BY <2>2, <3>1, GreatestNatural
      <3>3. n + 1 \in 1..(n + 1)
        BY <2>0
      <3> QED  BY <2>0, <3>2, <3>3
    <2>4. (1..(n + 1)) \ {n + 1} = 1..n
      BY <2>0
    <2>5. g[1..(n + 1)] = Kept(g[1..n], w, attempts[n + 1])
      BY <1>1, <2>2, <2>3, <2>4 DEF KeepsAll
    <2>6. /\ g[1..n] \subseteq Kept(g[1..n], w, attempts[n + 1])
          /\ Silent(Kept(g[1..n], w, attempts[n + 1]))
          /\ \E e \in Kept(g[1..n], w, attempts[n + 1]) :
                SameEvidence(e, w, attempts[n + 1].answer)
      BY <2>1, <2>2, KeptOne
    <2> QED  BY <2>1, <2>5, <2>6
  <1> HIDE DEF N
  <1>4. k \in N
    <2>1. N \in SUBSET Nat
      BY DEF N
    <2>2. N = Nat
      BY <1>2, <1>3, <2>1, NaturalsBySteps
    <2> QED  BY <2>2
  <1> QED  BY <1>1, <1>4 DEF N

LEMMA RetriesAreSequences ==
    ASSUME NEW n \in Nat, NEW t \in Again(n)
    PROVE  t \in Seq(Nat) /\ \E k \in Nat : DOMAIN t = 1..k
  <1>1. PICK k \in 0..n : t \in [1..k -> Temporary]
    BY DEF Again
  <1>2. k \in Nat /\ t \in [1..k -> Nat]
    BY <1>1, ProviderAssumption
  <1> QED  BY <1>2

\* Attempts that gave nothing.
LEMMA SilentAttempts ==
    ASSUME NEW statuses, NEW w, NEW k \in Nat, DOMAIN statuses = 1..k
    PROVE  /\ DOMAIN Attempts(statuses, w) = 1..k
           /\ \A i \in 1..k : Attempts(statuses, w)[i].answer = Silence(w)
  BY DEF Attempts

LEMMA FailedStatuses ==
    ASSUME NEW statuses \in FailedCalls \cup {<<>>}
    PROVE  \E k \in Nat : DOMAIN statuses = 1..k
  <1>0. Retries \in Nat /\ Retries + 1 \in Nat /\ Permanent \cup {Success} \subseteq Nat
    BY ProviderAssumption DEF Success
  <1>1. CASE statuses \in Again(Retries + 1)
    BY <1>0, <1>1, RetriesAreSequences
  <1>2. CASE \E t \in TriedAgain, s \in Permanent \cup {Success} : statuses = Append(t, s)
    <2>1. PICK t \in TriedAgain, s \in Permanent \cup {Success} : statuses = Append(t, s)
      BY <1>2
    <2>2. t \in Seq(Nat) /\ s \in Nat
      BY <1>0, <2>1, RetriesAreSequences DEF TriedAgain
    <2>3. Append(t, s) \in Seq(Nat)
      BY <2>2
    <2>4. statuses \in Seq(Nat)
      BY <2>1, <2>3
    <2> QED  BY <2>4
  <1>3. CASE statuses = <<>>
    <2>1. DOMAIN statuses = 1..0
      BY <1>3
    <2> QED  BY <2>1
  <1> QED  BY <1>1, <1>2, <1>3 DEF FailedCalls

LEMMA AnsweredSound ==
    ASSUME NEW tried \in TriedAgain, NEW w, NEW listed
    PROVE  LET attempts == AnsweredAttempts(tried, w, listed)
           IN \E k \in Nat \ {0} :
                /\ DOMAIN attempts = 1..k /\ Len(attempts) = k
                /\ attempts[k].answer = listed
                /\ \A i \in 1..k : attempts[i].status # Success => attempts[i].answer = Silence(w)
  <1> DEFINE last == [status |-> Success, answer |-> listed]
             S == {[status |-> x, answer |-> Silence(w)] : x \in Nat} \cup {last}
             before == Attempts(tried, w)
  <1>1. tried \in Seq(Nat)
    BY RetriesAreSequences, ProviderAssumption DEF TriedAgain
  <1>2. PICK n \in Nat : n = Len(tried) /\ tried \in [1..n -> Nat]
    BY <1>1
  <1>3. before \in [1..n -> S]
    BY <1>2 DEF Attempts
  <1>4. /\ DOMAIN before = 1..n /\ \A i \in 1..n : before[i].answer = Silence(w)
    BY <1>2, SilentAttempts
  <1>5. last \in S /\ last.status = Success /\ last.answer = listed
    OBVIOUS
  <1> HIDE DEF S, before, last
  <1>6. before \in Seq(S) /\ Len(before) = n
    BY <1>2, <1>3
  <1>7. PICK attempts : attempts = Append(before, last)
    OBVIOUS
  <1>8. /\ DOMAIN attempts = 1..(n + 1) /\ Len(attempts) = n + 1
        /\ attempts[n + 1] = last /\ \A i \in 1..n : attempts[i] = before[i]
    BY <1>2, <1>5, <1>6, <1>7
  <1>9. \A i \in 1..(n + 1) : i = n + 1 \/ i \in 1..n
    BY <1>2
  <1>10. \A i \in 1..(n + 1) : attempts[i].status # Success => attempts[i].answer = Silence(w)
    BY <1>4, <1>5, <1>8, <1>9
  <1>11. attempts = AnsweredAttempts(tried, w, listed)
    BY <1>7 DEF AnsweredAttempts, before, last
  <1>12. n + 1 \in Nat \ {0}
    BY <1>2
  <1> QED  BY <1>5, <1>8, <1>10, <1>11, <1>12

\* What a call leaves, answered or not.
LEMMA CallLeaves ==
    ASSUME NEW v \in Valuers, FetchWindow(v) \/ FetchFails(v),
           Silent(evidence \cup local[v].evidence)
    PROVE  \E w, kept, results :
              /\ Fetched(v, w, kept, results)
              /\ evidence \cup local[v].evidence \subseteq kept /\ Silent(kept)
              /\ \A b \in results : AnswerRests(b, kept)
  <1> DEFINE w == NextWindow(v)
             rows == evidence \cup local[v].evidence
  <1>1. CASE FetchWindow(v)
    <2> DEFINE listed == [d \in DaysOf(w) |-> listing[w.asset][d]]
    <2>1. PICK tried \in TriedAgain :
              \E attempts \in {AnsweredAttempts(tried, w, listed)} :
                  \E kept \in {KeptAll(rows, w, attempts)} :
                      Fetched(v, w, kept,
                          Results(v, w, [answer |-> listed,
                                         evidence |-> EvidenceOf(kept, w, Last(attempts))]))
      BY <1>1 DEF FetchWindow
    <2>a. PICK attempts : attempts = AnsweredAttempts(tried, w, listed)
      OBVIOUS
    <2>b. PICK kept : kept = KeptAll(rows, w, attempts)
      OBVIOUS
    <2>c. PICK outcome : outcome = [answer |-> listed,
                                    evidence |-> EvidenceOf(kept, w, Last(attempts))]
      OBVIOUS
    <2>2. Fetched(v, w, kept, Results(v, w, outcome))
      BY <2>1, <2>a, <2>b, <2>c
    <2>3. \A d \in DaysOf(w) : listed[d] = listing[w.asset][d]
      OBVIOUS
    <2>4. DOMAIN listed = DaysOf(w)
      OBVIOUS
    <2>5. outcome.answer = listed /\ outcome.evidence = EvidenceOf(kept, w, Last(attempts))
      BY <2>c
    <2> HIDE DEF w, rows, listed
    <2>6. PICK k \in Nat \ {0} :
              /\ DOMAIN attempts = 1..k /\ Len(attempts) = k
              /\ attempts[k].answer = listed
              /\ \A i \in 1..k : attempts[i].status # Success => attempts[i].answer = Silence(w)
      BY <2>a, AnsweredSound
    <2>7. Silent(rows)
      BY DEF rows
    <2>8. /\ rows \subseteq kept /\ Silent(kept)
          /\ \E e \in kept : SameEvidence(e, w, attempts[k].answer)
      BY <2>b, <2>6, <2>7, KeptSound
    <2>9. Last(attempts).answer = listed
      BY <2>6 DEF Last
    <2>10. outcome.evidence \in kept /\ SameEvidence(outcome.evidence, w, listed)
      BY <2>5, <2>6, <2>8, <2>9 DEF EvidenceOf
    <2>11. ASSUME NEW b \in Results(v, w, outcome) PROVE AnswerRests(b, kept)
      <3>1. b.asset = w.asset /\ b.day \in DaysOf(w) /\ b.outcome = outcome
        BY DEF Results
      <3>2. /\ outcome.evidence.asset = w.asset /\ outcome.evidence.answer = listed
            /\ DaysOf(outcome.evidence) = DaysOf(w) /\ Silence(outcome.evidence) = Silence(w)
        BY <2>10 DEF SameEvidence, DaysOf, Silence
      <3>3. listed[b.day] # NoData => outcome.evidence.status = Success
        <4>1. outcome.evidence.status # Success => listed = Silence(w)
          BY <2>8, <2>10, <3>2 DEF Silent
        <4>2. Silence(w)[b.day] = NoData
          BY <3>1 DEF Silence
        <4> QED  BY <4>1, <4>2
      <3> QED  BY <2>5, <2>10, <3>1, <3>2, <3>3 DEF AnswerRests, Rests
    <2> QED  BY <2>2, <2>8, <2>11 DEF rows
  <1>2. CASE FetchFails(v)
    <2> DEFINE outcome == [answer |-> Silence(w), evidence |-> None]
    <2>1. PICK statuses \in FailedCalls \cup {<<>>} :
              Fetched(v, w, KeptAll(rows, w, Attempts(statuses, w)), Results(v, w, outcome))
      BY <1>2 DEF FetchFails
    <2>2. outcome.answer = Silence(w)
      OBVIOUS
    <2> HIDE DEF w, rows, outcome
    <2>3. PICK k \in Nat : DOMAIN statuses = 1..k
      BY FailedStatuses
    <2>4. PICK attempts : attempts = Attempts(statuses, w)
      OBVIOUS
    <2>5. DOMAIN attempts = 1..k /\ \A i \in 1..k : attempts[i].answer = Silence(w)
      BY <2>3, <2>4, SilentAttempts
    <2>6. Silent(rows)
      BY DEF rows
    <2>7. rows \subseteq KeptAll(rows, w, attempts) /\ Silent(KeptAll(rows, w, attempts))
      BY <2>5, <2>6, KeptSound
    <2>8. ASSUME NEW b \in Results(v, w, outcome) PROVE AnswerRests(b, KeptAll(rows, w, attempts))
      <3>1. b.day \in DaysOf(w) /\ b.outcome = outcome
        BY DEF Results
      <3> QED  BY <2>2, <3>1 DEF AnswerRests, Silence
    <2> QED  BY <2>1, <2>4, <2>7, <2>8 DEF rows
  <1> QED  BY <1>1, <1>2

LEMMA EvidenceStep == TypeInv /\ EvidenceSound /\ [Next]_vars => EvidenceSound'
  <1> SUFFICES ASSUME TypeInv, EvidenceSound, [Next]_vars PROVE EvidenceSound'
    OBVIOUS
  \* More rows carry what fewer rows carried.
  <1>m. ASSUME NEW rows, NEW more, rows \subseteq more
        PROVE  /\ \A b : AnswerRests(b, rows) => AnswerRests(b, more)
               /\ \A p : PriceRests(p, rows) => PriceRests(p, more)
    BY <1>m DEF AnswerRests, PriceRests
  <1>n. NoLocal.evidence = {} /\ NoLocal.batches = {} /\ NoLocal.prices = {}
        /\ {"evidence", "batches", "prices"} \subseteq DOMAIN NoLocal
    BY DEF NoLocal
  \* A run that only forgets.
  <1>0. ASSUME NEW u \in Valuers, evidence \subseteq evidence',
               \/ /\ local'[u].evidence = local[u].evidence
                  /\ local'[u].batches \subseteq local[u].batches
                  /\ local'[u].prices = local[u].prices
               \/ local'[u] = NoLocal
        PROVE  RunRests(u)'
    <2>1. RunRests(u)
      BY DEF EvidenceSound
    <2>2. CASE local'[u] = NoLocal
      BY <1>n, <2>2 DEF RunRests, Silent
    <2>3. CASE /\ local'[u].evidence = local[u].evidence
               /\ local'[u].batches \subseteq local[u].batches
               /\ local'[u].prices = local[u].prices
      <3>1. evidence \cup local[u].evidence \subseteq evidence' \cup local'[u].evidence
        BY <1>0, <2>3
      <3>2. \A b \in local'[u].batches : AnswerRests(b, evidence' \cup local'[u].evidence)
        BY <1>m, <2>1, <2>3, <3>1 DEF RunRests
      <3>3. \A p \in local'[u].prices : PriceRests(p, evidence' \cup local'[u].evidence)
        BY <1>m, <2>1, <2>3, <3>1 DEF RunRests
      <3>4. Silent(local'[u].evidence)
        BY <2>1, <2>3 DEF RunRests
      <3> QED  BY <3>2, <3>3, <3>4 DEF RunRests
    <2> QED  BY <1>0, <2>2, <2>3
  \* A step of a run that writes nothing.
  <1>a. ASSUME NEW v \in Valuers, OthersSame(v), UNCHANGED <<prices, evidence, entered>>,
               RunRests(v)'
        PROVE  EvidenceSound'
    <2>1. \A u \in Valuers : RunRests(u)'
      BY <1>0, <1>a DEF OthersSame
    <2>2. Silent(evidence)' /\ \A p \in prices' : ~p.manual /\ p.contract = Contract => PriceRests(p, evidence')
      BY <1>a DEF EvidenceSound, Silent
    <2>3. \A e \in Enterers : \A i \in DOMAIN entered'[e] : entered'[e][i].manual
      BY <1>a DEF EvidenceSound
    <2> QED  BY <2>1, <2>2, <2>3 DEF EvidenceSound
  <1>1. ASSUME NEW v \in Valuers,
               \/ StartRun(v) \/ ReadOpen(v) \/ PlanFetches(v)
               \/ SkipMissing(v) \/ NoteReview(v) \/ LeaveOpen(v)
               \/ DecideNative(v) \/ DecideCached(v) \/ Abort(v)
        PROVE  EvidenceSound'
    <2>1. /\ OthersSame(v) /\ UNCHANGED <<prices, evidence, entered>>
          /\ \/ /\ local'[v].evidence = local[v].evidence
                /\ local'[v].batches \subseteq local[v].batches
                /\ local'[v].prices = local[v].prices
             \/ local'[v] = NoLocal
      <3>1. CASE StartRun(v)
        <4>1. /\ local'[v].evidence = {} /\ local'[v].batches = {} /\ local'[v].prices = {}
              /\ OthersSame(v) /\ UNCHANGED <<tables, entered>> /\ step[v] = "idle"
          BY <3>1, <1>n, StartEffect DEF NoLocal
        <4>2. local[v] = NoLocal
          BY <4>1 DEF TypeInv, Running
        <4> QED  BY <4>1, <4>2, <1>n DEF tables
      <3>2. CASE ReadOpen(v)
        BY <3>2, ReadEffect DEF tables, Keeps, NoLocal
      <3>3. CASE PlanFetches(v)
        <4>1. OthersSame(v) /\ UNCHANGED <<tables, entered>> /\ local'[v].batches = {}
              /\ Keeps(v, {"cached", "windows", "batches"})
          BY <3>3, PlanEffect
        <4> QED  BY <4>1 DEF tables, Keeps, NoLocal
      <3>4. CASE SkipMissing(v) \/ NoteReview(v) \/ LeaveOpen(v)
        BY <3>4, PassEffect DEF tables, Keeps, NoLocal
      <3>5. CASE DecideNative(v) \/ DecideCached(v)
        BY <3>5, DraftEffect DEF tables, Keeps, NoLocal
      <3>6. CASE Abort(v)
        BY <3>6, EndEffect DEF Abort, tables
      <3> QED  BY <1>1, <3>1, <3>2, <3>3, <3>4, <3>5, <3>6
    <2> QED  BY <1>0, <1>a, <2>1
  <1>2. ASSUME NEW v \in Valuers, FetchWindow(v) \/ FetchFails(v) PROVE EvidenceSound'
    <2>1. RunRests(v) /\ Silent(evidence) /\ Silent(evidence \cup local[v].evidence)
      BY DEF EvidenceSound, RunRests, Silent
    <2>2. PICK w, kept, results :
              /\ Fetched(v, w, kept, results)
              /\ evidence \cup local[v].evidence \subseteq kept /\ Silent(kept)
              /\ \A b \in results : AnswerRests(b, kept)
      BY <1>2, <2>1, CallLeaves
    <2>3. step[v] = "fetching"
      BY <1>2 DEF FetchWindow, FetchFails
    <2>4. /\ OthersSame(v) /\ UNCHANGED <<tables, entered>>
          /\ local'[v].evidence = kept \ evidence
          /\ local'[v].batches = local[v].batches \cup results
          /\ Keeps(v, {"windows", "evidence", "batches"})
      BY <2>2, <2>3, FetchEffect
    <2>5. local'[v].prices = local[v].prices /\ UNCHANGED <<prices, evidence>>
      BY <2>4 DEF Keeps, NoLocal, tables
    <2>6. kept \subseteq evidence' \cup local'[v].evidence
      BY <2>4, <2>5
    <2>7. evidence \cup local[v].evidence \subseteq evidence' \cup local'[v].evidence
      BY <2>2, <2>6
    <2>8. \A b \in local'[v].batches : AnswerRests(b, evidence' \cup local'[v].evidence)
      BY <1>m, <2>1, <2>2, <2>4, <2>6, <2>7 DEF RunRests
    <2>9. \A p \in local'[v].prices : PriceRests(p, evidence' \cup local'[v].evidence)
      BY <1>m, <2>1, <2>5, <2>7 DEF RunRests
    <2>10. Silent(local'[v].evidence)
      BY <2>2, <2>4 DEF Silent
    <2>11. RunRests(v)'
      BY <2>8, <2>9, <2>10 DEF RunRests
    <2> QED  BY <1>a, <2>4, <2>5, <2>11
  <1>3. ASSUME NEW v \in Valuers, DecideFetched(v) PROVE EvidenceSound'
    <2>1. PICK b, used :
              /\ b \in local[v].batches
              /\ b.outcome.answer[b.day] # NoData
              /\ Found(v, b, used) \/ New(v, b, used)
      BY <1>3, FetchedEffect DEF BatchFor
    <2>2. /\ OthersSame(v) /\ UNCHANGED <<tables, entered>>
          /\ Keeps(v, {"todo", "drafts", "cached", "prices"})
      BY <1>3, FetchedEffect
    <2>3. /\ UNCHANGED <<prices, evidence>> /\ local'[v].evidence = local[v].evidence
          /\ local'[v].batches = local[v].batches
      BY <2>2 DEF tables, Keeps, NoLocal
    <2>4. CASE Found(v, b, used)
      <3>1. RunRests(v)'
        BY <1>0, <2>3, <2>4 DEF Found
      <3> QED  BY <1>a, <2>2, <2>3, <3>1
    <2>5. CASE New(v, b, used)
      <3> DEFINE rows == evidence \cup local[v].evidence
      <3>1. RunRests(v) /\ AnswerRests(b, rows)
        BY <2>1 DEF EvidenceSound, RunRests
      <3>2. /\ used.evidence = b.outcome.evidence /\ used.asset = b.asset /\ used.day = b.day
            /\ used.content = b.outcome.answer[b.day]
            /\ local'[v].prices = local[v].prices \cup {used}
        BY <2>5 DEF New, Price
      <3>3. PriceRests(used, rows)
        BY <2>1, <3>1, <3>2 DEF AnswerRests, PriceRests
      <3>4. RunRests(v)'
        BY <2>3, <3>1, <3>2, <3>3 DEF RunRests
      <3> QED  BY <1>a, <2>2, <2>3, <3>4
    <2> QED  BY <2>1, <2>4, <2>5
  <1>4. ASSUME NEW v \in Valuers, Commit(v) PROVE EvidenceSound'
    <2>1. /\ prices' = prices \cup local[v].prices
          /\ evidence' = evidence \cup local[v].evidence
          /\ OthersSame(v) /\ local'[v] = NoLocal /\ UNCHANGED entered
      BY <1>4, EndEffect DEF Commit
    <2>2. RunRests(v)
      BY DEF EvidenceSound
    <2>3. Silent(evidence')
      BY <2>1, <2>2 DEF Silent, RunRests, EvidenceSound
    <2>4. ASSUME NEW p \in prices', ~p.manual, p.contract = Contract
          PROVE  PriceRests(p, evidence')
      <3>1. p \in prices => PriceRests(p, evidence)
        BY <2>4 DEF EvidenceSound
      <3>2. evidence \subseteq evidence'
        BY <2>1
      <3>3. p \in local[v].prices => PriceRests(p, evidence')
        BY <2>1, <2>2 DEF RunRests
      <3> QED  BY <1>m, <2>1, <3>1, <3>2, <3>3
    <2>5. \A u \in Valuers : RunRests(u)'
      BY <1>0, <2>1 DEF OthersSame
    <2>6. \A e \in Enterers : \A i \in DOMAIN entered'[e] : entered'[e][i].manual
      BY <2>1 DEF EvidenceSound
    <2> QED  BY <2>3, <2>4, <2>5, <2>6 DEF EvidenceSound
  \* Manual prices name no evidence.
  <1>b. ASSUME local' = local, evidence' = evidence,
               \A p \in prices' \ prices : p.manual,
               \A e \in Enterers : \A i \in DOMAIN entered'[e] : entered'[e][i].manual
        PROVE  EvidenceSound'
    <2>1. \A u \in Valuers : RunRests(u)'
      BY <1>0, <1>b
    <2>2. \A p \in prices' : ~p.manual /\ p.contract = Contract => PriceRests(p, evidence')
      BY <1>b DEF EvidenceSound
    <2> QED  BY <1>b, <2>1, <2>2 DEF EvidenceSound
  <1>5. ASSUME NEW e \in Enterers, EnterPrices(e) \/ StorePrices(e) \/ RefusePrices(e)
        PROVE  EvidenceSound'
    <2>1. /\ local' = local /\ evidence' = evidence
          /\ \A d \in Enterers \ {e} : entered'[d] = entered[d]
          /\ ~EnterPrices(e) => entered'[e] = <<>>
      BY <1>5, EntryEffect
    <2>2. \A i \in DOMAIN entered'[e] : entered'[e][i].manual
      <3>1. CASE EnterPrices(e)
        <4>1. PICK rows : entered'[e] = [i \in {i \in DOMAIN rows : ~Repeats(rows[i])} |-> ManualDraft(rows[i])]
          BY <3>1 DEF EnterPrices, TypeInv
        <4> QED  BY <4>1 DEF ManualDraft, Price
      <3>2. CASE ~EnterPrices(e)
        BY <2>1, <3>2
      <3> QED  BY <3>1, <3>2
    <2>3. \A d \in Enterers : \A i \in DOMAIN entered'[d] : entered'[d][i].manual
      BY <2>1, <2>2 DEF EvidenceSound
    <2>4. \A p \in prices' \ prices : p.manual
      <3>1. CASE StorePrices(e)
        <4>1. prices' = prices \cup Range(entered[e])
          BY <3>1 DEF StorePrices
        <4> QED  BY <4>1 DEF Range, EvidenceSound
      <3>2. CASE EnterPrices(e) \/ RefusePrices(e)
        BY <3>2 DEF EnterPrices, RefusePrices, tables
      <3> QED  BY <1>5, <3>1, <3>2
    <2> QED  BY <1>b, <2>1, <2>3, <2>4
  <1>6. ASSUME NEW a, NEW d, NEW c, Revise(a, d, c) PROVE EvidenceSound'
    BY <1>6, <1>b DEF Revise, tables, EvidenceSound
  <1>7. CASE UNCHANGED vars
    BY <1>7, <1>b DEF vars, EvidenceSound
  <1> QED  BY <1>1, <1>2, <1>3, <1>4, <1>5, <1>6, <1>7 DEF Next

LEMMA InitEvidence == Init => EvidenceSound
  <1> SUFFICES ASSUME Init PROVE EvidenceSound
    OBVIOUS
  <1>1. evidence = {} /\ prices = StoredPrices /\ \A e \in Enterers : entered[e] = <<>>
    BY DEF Init
  <1>2. \A v \in Valuers : RunRests(v)
    BY DEF Init, NoLocal, RunRests, Silent
  <1>3. \A p \in prices : p.contract # Contract
    BY <1>1, StoredAssumption
  <1> QED  BY <1>1, <1>2, <1>3 DEF EvidenceSound, Silent

\* An automatic price names evidence that was stored with it or before it, of a successful
\* call, that lists for the day the observations the price is made of.  The run must
\* remember it of every answer it keeps until the commit, whatever other runs store.
THEOREM PricesRestOnEvidence == Spec => []PriceRestsOnItsEvidence
  <1>1. EvidenceSound => PriceRestsOnItsEvidence
    BY DEF EvidenceSound, PriceRests, Rests, PriceRestsOnItsEvidence
  <1>2. Spec => []TypeInv
    BY InitType, TypeStep, PTL DEF Spec
  <1> QED  BY <1>1, <1>2, InitEvidence, EvidenceStep, PTL DEF Spec
=============================================================================
