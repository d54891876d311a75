------------------------------ MODULE Valuation ------------------------------
(***************************************************************************)
(* api/workflows.py, POST /valuations and POST /prices/manual (one price   *)
(* or a CSV of them): valuation runs price the requirements that the       *)
(* transformation has raised, from native EUR amounts, manual prices,      *)
(* stored daily prices or the provider, and decide each of them once per   *)
(* method version.                                                         *)
(*                                                                         *)
(* A request is a transaction with one commit at its end; one action is    *)
(* one query, one provider call, one turn of the loop, or the commit.      *)
(* With SQLite the run's row, flushed before anything is read, takes the   *)
(* only write lock until the commit.  With PostgreSQL requests overlap,    *)
(* and only unique constraints keep them apart.  Both are modelled.        *)
(***************************************************************************)
EXTENDS PriceProvider

CONSTANTS
    Valuers,        \* the POST /valuations requests
    Enterers,       \* the requests that enter manual prices
    Requirement,    \* valuation_requirements: what each asks for
    Situations,     \* the database, the requirements in it, and the requests that come
    Methods,        \* method versions a client may name
    Legacy,         \* eur-valuation-v1, which does not look at reward components
    Contract,       \* the contract version of the provider in use
    Mapped,         \* assets with a provider id
    Contents,       \* what the provider may list for a day
    FirstListing,   \* what it lists at first
    StoredPrices,   \* daily prices of earlier contracts
    Entries,        \* the lists of manual prices a request may bring
    Today,
    MaxRevisions,   \* bound: changes of what the provider lists
    Native,         \* stands for the price of a decision in EUR
    None

ASSUME ValuationAssumption ==
    /\ None \notin Valuers \cup Enterers
    /\ NoData \notin Contents
    /\ \A s \in Situations : /\ s.engine \in {"sqlite", "postgresql"}
                            /\ s.open \subseteq DOMAIN Requirement
                            /\ s.requests \subseteq Valuers \cup Enterers
    /\ Valuers \cap Enterers = {}
    /\ IsFiniteSet(DOMAIN Requirement)
    /\ \A r \in DOMAIN Requirement : Requirement[r].day \in Nat
    /\ \A rows \in Entries : IsFiniteSet(DOMAIN rows)

VARIABLES
    engine,      \* which database it is
    open,        \* valuation_requirements
    prices,      \* daily_prices
    decisions,   \* valuation_decisions
    noted,       \* audit events of reviews that name requirement and method
    evidence,    \* provider_evidence
    listing,     \* what the provider would answer, by asset and day
    revisions,   \* how often that has changed
    writer,      \* who holds SQLite's write lock
    step,        \* where each request is
    local,       \* what each valuation run remembers
    entered      \* the rows each price request will write, by their place in the file

tables == <<prices, decisions, noted, evidence>>
fixed == <<engine, open>>
world == <<listing, revisions>>
vars == <<engine, open, prices, decisions, noted, evidence, listing, revisions, writer,
          step, local, entered>>

Requests == Valuers \cup Enterers

\* A price is found by what the unique keys name; supersedes_id is the row with
\* the preceding version.
Price(asset, day, manual, contract, version, content, from) ==
    [asset |-> asset, day |-> day, manual |-> manual, contract |-> contract,
     version |-> version, content |-> content, evidence |-> from]

SamePrice(p, q) ==
    p.asset = q.asset /\ p.day = q.day /\ p.manual = q.manual /\ p.contract = q.contract

\* No version twice, and every version but the first supersedes another.
Chain(rows) ==
    /\ IsFiniteSet(rows)
    /\ \A p \in rows :
          /\ p.version \in Nat \ {0}
          /\ p.version > 1 => \E q \in rows : SamePrice(p, q) /\ q.version = p.version - 1
          /\ \A q \in rows : SamePrice(p, q) /\ p.version = q.version => p = q

ASSUME StoredAssumption ==
    Chain(StoredPrices) /\ \A p \in StoredPrices : p.manual = FALSE /\ p.contract # Contract

NoLocal == [method |-> None, refresh |-> FALSE, todo |-> {}, known |-> <<>>,
            cached |-> {}, windows |-> {}, batches |-> {}, evidence |-> {},
            prices |-> {}, drafts |-> {}, noted |-> {}]

Init ==
    /\ \E s \in Situations :
          /\ engine = s.engine
          /\ open = s.open
          /\ step = [q \in Requests |-> IF q \in s.requests THEN "idle" ELSE "done"]
    /\ prices = StoredPrices
    /\ decisions = {} /\ noted = {} /\ evidence = {}
    /\ listing = FirstListing
    /\ revisions = 0
    /\ writer = None
    /\ local = [v \in Valuers |-> NoLocal]
    /\ entered = [e \in Enterers |-> <<>>]

-----------------------------------------------------------------------------
(* Daily prices and which of them is used.                                 *)

Newest(rows) == CHOOSE p \in rows : \A q \in rows : q.version <= p.version

For(rows, asset, day) == {p \in rows : p.asset = asset /\ p.day = day}
ManualFor(rows, asset, day) == {p \in For(rows, asset, day) : p.manual}

AutomaticFor(rows, asset, day) ==
    {p \in For(rows, asset, day) : ~p.manual /\ p.contract = Contract}

\* The stored prices plan_fetches may use: manual ones come first, automatic ones
\* only when no new price is asked for.
Eligible(asset, day, refresh) ==
    IF ManualFor(prices, asset, day) # {} THEN ManualFor(prices, asset, day)
    ELSE IF refresh THEN {} ELSE AutomaticFor(prices, asset, day)

-----------------------------------------------------------------------------
(* Requirements.                                                           *)

\* The object it is about: None if there is none, else its quantities; those of
\* a reward may lack the gross quantity or the fee (rows of earlier versions).
Missing(r) == Requirement[r].object = None

\* What calculate_reward_valuation does not accept: gross must be net and fee, and
\* a fee in the same asset.
Contradictory(reward) ==
    IF reward.gross = None THEN reward.fee \notin {None, 0}
    ELSE \/ reward.fee = None
         \/ reward.fee < 0
         \/ reward.gross # reward.net + reward.fee
         \/ reward.fee # 0 /\ ~reward.sameAsset

\* The legacy method does not look at the components.
Unsound(r, m) ==
    /\ m # Legacy /\ ~Missing(r)
    /\ Requirement[r].object.reward /\ Contradictory(Requirement[r].object)
IsNative(r) == Requirement[r].native
Fetchable(r, m) == ~Missing(r) /\ ~Unsound(r, m)
Priced(r, m) == Fetchable(r, m) /\ ~IsNative(r)

DaysNeeded(rs, m, asset) ==
    {Requirement[r].day : r \in {r \in rs : Priced(r, m) /\ Requirement[r].asset = asset}}
AssetsNeeded(rs, m) == {Requirement[r].asset : r \in {r \in rs : Priced(r, m)}}

DecisionsOn(r) == {d \in decisions : d.requirement = r}
NewestVersion(r) == Max({d.version : d \in DecisionsOn(r)} \cup {0})

-----------------------------------------------------------------------------
(* Who may write.                                                          *)

MayWrite(q) == engine = "sqlite" => writer \in {None, q}
TakeLock(q) == writer' = IF engine = "sqlite" THEN q ELSE writer
ReleaseLock(q) == writer' = IF writer = q THEN None ELSE writer

Goto(q, where) == step' = [step EXCEPT ![q] = where]

-----------------------------------------------------------------------------
(* A valuation run.                                                        *)

\* MUTANT of StartRun: the run's row is added, but not flushed.
StartUnflushed(v) ==
    /\ step[v] = "idle"
    /\ \E m \in Methods, refresh \in BOOLEAN :
          local' = [local EXCEPT ![v].method = m, ![v].refresh = refresh]
    /\ Goto(v, "reading")
    /\ UNCHANGED <<fixed, tables, world, writer, entered>>

\* The run's row is flushed: with SQLite this waits for the lock and takes it.
StartRun(v) ==
    /\ step[v] = "idle"
    /\ MayWrite(v)
    /\ \E m \in Methods, refresh \in BOOLEAN :
          local' = [local EXCEPT ![v].method = m, ![v].refresh = refresh]
    /\ TakeLock(v)
    /\ Goto(v, "reading")
    /\ UNCHANGED <<fixed, tables, world, entered>>

\* Requirements this method version has neither decided nor put to review.
ReadOpen(v) ==
    LET m == local[v].method
        todo == {r \in open : /\ \A d \in DecisionsOn(r) : d.method # m
                              /\ [requirement |-> r, method |-> m] \notin noted}
    IN
    /\ step[v] = "reading"
    /\ local' = [local EXCEPT ![v].todo = todo,
                              ![v].known = [r \in open |-> NewestVersion(r)]]
    /\ Goto(v, "planning")
    /\ UNCHANGED <<fixed, tables, world, writer, entered>>

MissingDays(v, asset) ==
    {d \in DaysNeeded(local[v].todo, local[v].method, asset) :
        Eligible(asset, d, local[v].refresh) = {}}

\* plan_fetches: stored prices are remembered, the other days asked for.
PlanFetches(v) ==
    LET m == local[v].method
        assets == AssetsNeeded(local[v].todo, m)
        keys == UNION {{[asset |-> a, day |-> d] : d \in DaysNeeded(local[v].todo, m, a)}
                          : a \in assets}
        stored == {Newest(Eligible(k.asset, k.day, local[v].refresh)) :
                      k \in {k \in keys : Eligible(k.asset, k.day, local[v].refresh) # {}}}
        windows == UNION {Windows(a, MissingDays(v, a)) : a \in assets}
    IN
    /\ step[v] = "planning"
    /\ local' = [local EXCEPT ![v].cached = stored, ![v].windows = windows,
                    ![v].batches = {}]
    /\ Goto(v, IF windows = {} THEN "applying" ELSE "fetching")
    /\ UNCHANGED <<fixed, tables, world, writer, entered>>

\* The days of a window that were missing, with what came of them.
Results(v, w, outcome) ==
    {[asset |-> w.asset, day |-> d, outcome |-> outcome] :
        d \in {d \in DaysOf(w) \cap DaysNeeded(local[v].todo, local[v].method, w.asset) :
                  For(local[v].cached, w.asset, d) = {}}}

NextWindow(v) ==
    CHOOSE w \in local[v].windows :
        \A x \in local[v].windows : x.asset = w.asset => w.from <= x.from

Fetched(v, w, kept, results) ==
    /\ local' = [local EXCEPT ![v].windows = @ \ {w}, ![v].evidence = kept \ evidence,
                              ![v].batches = @ \cup results]
    /\ Goto(v, IF local[v].windows = {w} THEN "applying" ELSE "fetching")
    /\ UNCHANGED <<fixed, tables, world, writer, entered>>

\* One provider call of prefetch is answered, perhaps after some attempts.
FetchWindow(v) ==
    /\ step[v] = "fetching"
    /\ LET w == NextWindow(v)
           answer == [d \in DaysOf(w) |-> listing[w.asset][d]]
           rows == evidence \cup local[v].evidence
       IN
       /\ w.asset \in Mapped
       /\ \E tried \in TriedAgain :
              \E attempts \in {AnsweredAttempts(tried, w, answer)} :
                  \E kept \in {KeptAll(rows, w, attempts)} :
                      Fetched(v, w, kept,
                          Results(v, w, [answer |-> answer,
                                         evidence |-> EvidenceOf(kept, w, Last(attempts))]))

\* It fails: every day of the window has failed.  An asset without a mapping
\* fails without a request.
FetchFails(v) ==
    /\ step[v] = "fetching"
    /\ LET w == NextWindow(v)
           rows == evidence \cup local[v].evidence
       IN
       \E statuses \in IF w.asset \in Mapped THEN FailedCalls ELSE {<<>>} :
           \E kept \in {KeptAll(rows, w, Attempts(statuses, w))} :
               Fetched(v, w, kept, Results(v, w, [answer |-> Silence(w), evidence |-> None]))

-----------------------------------------------------------------------------
(* The loop over the pending requirements, in the order of the table.      *)

NextOpen(v) == Min(local[v].todo)
Turn(v, r) == step[v] = "applying" /\ local[v].todo # {} /\ r = NextOpen(v)

AfterTurn(v, r, change) ==
    /\ local' = [local EXCEPT ![v] = [change EXCEPT !.todo = @ \ {r}]]
    /\ UNCHANGED <<fixed, tables, world, writer, step, entered>>

Draft(v, r, price) ==
    [requirement |-> r, method |-> local[v].method, by |-> v,
     version |-> local[v].known[r] + 1, price |-> price]

CachedFor(v, r) == For(local[v].cached, Requirement[r].asset, Requirement[r].day)
BatchFor(v, r) ==
    {b \in local[v].batches : b.asset = Requirement[r].asset /\ b.day = Requirement[r].day}

\* The audit event of a missing object names no method version, and so does not
\* keep the requirement from being looked at again.
SkipMissing(v) == \E r \in local[v].todo :
    /\ Turn(v, r) /\ Missing(r)
    /\ AfterTurn(v, r, local[v])

NoteReview(v) == \E r \in local[v].todo :
    /\ Turn(v, r) /\ Unsound(r, local[v].method)
    /\ AfterTurn(v, r, [local[v] EXCEPT
           !.noted = @ \cup {[requirement |-> r, method |-> local[v].method]}])

DecideNative(v) == \E r \in local[v].todo :
    /\ Turn(v, r) /\ Fetchable(r, local[v].method) /\ IsNative(r)
    /\ AfterTurn(v, r, [local[v] EXCEPT !.drafts = @ \cup {Draft(v, r, Native)}])

DecideCached(v) == \E r \in local[v].todo :
    /\ Turn(v, r) /\ Priced(r, local[v].method)
    /\ \E p \in CachedFor(v, r) :
          AfterTurn(v, r, [local[v] EXCEPT !.drafts = @ \cup {Draft(v, r, p)}])

\* No price can be made of the answer: the call failed, the day has no data or is
\* not over.
NoPrice(b) == b.outcome.answer[b.day] = NoData \/ b.day >= Today

LeaveOpen(v) == \E r \in local[v].todo :
    /\ Turn(v, r) /\ Priced(r, local[v].method) /\ CachedFor(v, r) = {}
    /\ \E b \in BatchFor(v, r) : NoPrice(b)
    /\ AfterTurn(v, r, local[v])

\* The automatic prices of the day are read again; the same observations give
\* the price they gave before, others the next version.
DecideFetched(v) == \E r \in local[v].todo :
    /\ Turn(v, r) /\ Priced(r, local[v].method) /\ CachedFor(v, r) = {}
    /\ \E b \in BatchFor(v, r) :
        LET automatic == AutomaticFor(prices \cup local[v].prices, b.asset, b.day)
            content == b.outcome.answer[b.day]
            identical == {p \in automatic : p.content = content}
            version == IF automatic = {} THEN 1 ELSE Newest(automatic).version + 1
            new == Price(b.asset, b.day, FALSE, Contract, version, content, b.outcome.evidence)
            used == IF identical # {} THEN CHOOSE p \in identical : TRUE ELSE new
        IN
        /\ ~NoPrice(b)
        /\ AfterTurn(v, r, [local[v] EXCEPT
               !.drafts = @ \cup {Draft(v, r, used)},
               !.cached = @ \cup {used},
               !.prices = IF identical # {} THEN @ ELSE @ \cup {used}])

-----------------------------------------------------------------------------
(* Commit, with the unique constraints of the tables.                      *)

\* MUTANT of PricesFree: without uq_daily_price_version.
ContentsFree(new) ==
    \A p \in new, q \in prices : SamePrice(p, q) => p.content # q.content

\* uq_daily_price_evidence and uq_daily_price_version
PricesFree(new) ==
    \A p \in new, q \in prices :
        SamePrice(p, q) => p.content # q.content /\ p.version # q.version

\* MUTANT of VersionsFree: without uq_valuation_decision_version.
AnyVersion(drafts) == TRUE

\* uq_valuation_decision_version
VersionsFree(drafts) ==
    \A d \in drafts : \A e \in DecisionsOn(d.requirement) : d.version # e.version

\* uq_provider_evidence_identity
EvidenceFree(new) ==
    \A e \in new : ~\E f \in evidence : SameEvidence(f, e, e.answer)

RunCommits(v) ==
    /\ PricesFree(local[v].prices)
    /\ VersionsFree(local[v].drafts)
    /\ EvidenceFree(local[v].evidence)

Commit(v) ==
    /\ step[v] = "applying" /\ local[v].todo = {}
    /\ MayWrite(v) /\ RunCommits(v)
    /\ prices' = prices \cup local[v].prices
    /\ decisions' = decisions \cup local[v].drafts
    /\ noted' = noted \cup local[v].noted
    /\ evidence' = evidence \cup local[v].evidence
    /\ local' = [local EXCEPT ![v] = NoLocal]
    /\ Goto(v, "done") /\ ReleaseLock(v)
    /\ UNCHANGED <<fixed, world, entered>>

\* Nothing catches what is raised on the way: everything is rolled back, the row
\* of the run too.  A refused commit, a lock that was not released in time and the
\* end of the process are among the reasons.
Abort(v) ==
    /\ step[v] # "done"
    /\ local' = [local EXCEPT ![v] = NoLocal]
    /\ Goto(v, "done") /\ ReleaseLock(v)
    /\ UNCHANGED <<fixed, tables, world, entered>>

-----------------------------------------------------------------------------
(* Manual prices.                                                          *)

NewestManual(row) == Newest(ManualFor(prices, row.asset, row.day))
HasManual(row) == ManualFor(prices, row.asset, row.day) # {}

\* The same as the newest one: only an audit event is written.
Repeats(row) == HasManual(row) /\ NewestManual(row).content = row.content

ManualDraft(row) ==
    Price(row.asset, row.day, TRUE, "manual-v1",
          IF HasManual(row) THEN NewestManual(row).version + 1 ELSE 1, row.content, None)

\* _add_manual_price for each row; none sees the rows before it (autoflush is off).
EnterPrices(e) ==
    /\ step[e] = "idle"
    /\ \E rows \in Entries :
          /\ \A i \in DOMAIN rows : rows[i].day <= Today
          /\ LET new == {i \in DOMAIN rows : ~Repeats(rows[i])}
             IN entered' = [entered EXCEPT ![e] = [i \in new |-> ManualDraft(rows[i])]]
    /\ Goto(e, "entering")
    /\ UNCHANGED <<fixed, tables, world, writer, local>>

EntryCommits(e) ==
    /\ PricesFree(Range(entered[e]))
    /\ \A i, j \in DOMAIN entered[e] : i # j => ~SamePrice(entered[e][i], entered[e][j])

StorePrices(e) ==
    /\ step[e] = "entering"
    /\ MayWrite(e) /\ EntryCommits(e)
    /\ prices' = prices \cup Range(entered[e])
    /\ entered' = [entered EXCEPT ![e] = <<>>]
    /\ Goto(e, "done")
    /\ UNCHANGED <<fixed, world, writer, decisions, noted, evidence, local>>

\* A date in the future, a constraint, or the lock: nothing is written.
RefusePrices(e) ==
    /\ step[e] \in {"idle", "entering"}
    /\ entered' = [entered EXCEPT ![e] = <<>>]
    /\ Goto(e, "done")
    /\ UNCHANGED <<fixed, tables, world, writer, local>>

-----------------------------------------------------------------------------
\* The provider corrects a day.
Revise(asset, day, content) ==
    /\ revisions < MaxRevisions
    /\ listing[asset][day] # content
    /\ listing' = [listing EXCEPT ![asset][day] = content]
    /\ revisions' = revisions + 1
    /\ UNCHANGED <<fixed, tables, writer, step, local, entered>>

Next ==
    \/ \E v \in Valuers :
          \/ StartRun(v) \/ ReadOpen(v) \/ PlanFetches(v) \/ FetchWindow(v) \/ FetchFails(v)
          \/ SkipMissing(v) \/ NoteReview(v) \/ DecideNative(v) \/ DecideCached(v)
          \/ LeaveOpen(v) \/ DecideFetched(v) \/ Commit(v) \/ Abort(v)
    \/ \E e \in Enterers : EnterPrices(e) \/ StorePrices(e) \/ RefusePrices(e)
    \/ \E a \in Mapped : \E d \in DOMAIN listing[a], c \in Contents \cup {NoData} : Revise(a, d, c)

Spec == Init /\ [][Next]_vars

-----------------------------------------------------------------------------
(* Properties.                                                             *)

History ==
    [r \in DOMAIN Requirement |->
        {[version |-> d.version, method |-> d.method, by |-> d.by] : d \in DecisionsOn(r)}]

DecisionLog == INSTANCE DecisionHistory
    WITH Requirements <- DOMAIN Requirement, Runs <- Valuers, history <- History

\* Whatever overlaps, decisions on a requirement are one history to which each
\* committed run adds at the end, and at most once per method version
\* (docs/valuation.md: "Ein erneuter Lauf derselben Methodenversion erzeugt keine
\* zweite wirksame Entscheidung").
ImplementsHistory == DecisionLog!HistorySpec

\* Versions of a price have neither gap nor repetition, so the newest version and
\* the row it supersedes are always well defined, although every writer takes its
\* version from what it read before.
PriceHistoryIsAChain ==
    \A p \in prices :
        LET same == {q \in prices : SamePrice(p, q)}
        IN {q.version : q \in same} = 1..Cardinality(same)

\* "Manuelle Tagespreise haben [...] Vorrang": no requirement is decided by anything
\* but the newest manual price once that is committed, even if it was entered
\* while the run was calling the provider.  Only the write lock of SQLite sees to it.
ManualPriceWins ==
    [][engine = "sqlite" =>
        \A d \in decisions' \ decisions :
            LET manual == ManualFor(prices, Requirement[d.requirement].asset,
                                    Requirement[d.requirement].day)
            IN d.price # Native /\ manual # {} => d.price = Newest(manual)]_vars

\* The loop finds a stored price or an outcome of a call for every requirement it
\* has to price (batches[key] does not fail), and no day is asked for twice.
FetchCoversPlan ==
    \A v \in Valuers : step[v] \in {"fetching", "applying"} =>
        /\ \A r \in local[v].todo : Priced(r, local[v].method) =>
              \/ CachedFor(v, r) # {}
              \/ BatchFor(v, r) # {}
              \/ \E w \in local[v].windows :
                    w.asset = Requirement[r].asset /\ Requirement[r].day \in DaysOf(w)
        /\ \A w \in local[v].windows :
              /\ w.until - w.from \in 1..MaxDays
              /\ \A x \in local[v].windows \ {w} :
                    x.asset = w.asset => DaysOf(x) \cap DaysOf(w) = {}
              /\ \A b \in local[v].batches : b.asset = w.asset => b.day \notin DaysOf(w)

\* The evidence an automatic price names is a successful answer that lists exactly
\* the observations the price was computed from, although evidence of earlier
\* answers for the same window is reused.
PriceRestsOnItsEvidence ==
    \A p \in prices : ~p.manual /\ p.contract = Contract =>
        /\ p.evidence \in evidence
        /\ p.evidence.status = Success
        /\ p.evidence.asset = p.asset /\ p.day \in DaysOf(p.evidence)
        /\ p.evidence.answer[p.day] = p.content

=============================================================================
