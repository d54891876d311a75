# Verification project for the Kraken Tax Companion backend

TLA+ modules, TLC configurations and TLAPS proofs about the program in
`../src`. Paths below are relative to `src/`; `backend/app/` is left out where
that is clear.

The program imports the ledger of a Kraken account (live over the private HTTP
API, incrementally, or from CSV exports), keeps every provider record unchanged,
turns records into acquisitions, disposals, trades and fees, values these in EUR,
allocates disposals to lots first in first out, and documents the result per tax
year. The money is not moved here: what can go wrong is that a record is missed,
counted twice or changed silently, and that a documented result is built on it.

## 1. Inventory

| Part | State | Operations | Interacts with |
|---|---|---|---|
| Incremental sync (`services/kraken_sync.py`, `core/incremental_sync.py`) | `kraken_sync_runs` | `run_sync`: plan a window, recover a stale run, insert the run, read twice, import, transform, complete; record a failure | Kraken client, import engine, transformation; every request has a thread and a database session |
| Ledger paging (`infrastructure/kraken_private.py`, `ledger_preview`) | the pages read so far | page loop, readiness verdict, comparison of two reads | the provider's ledger, which changes meanwhile |
| Kraken client (same file) | nonce, time of the last call | sign, pace, post, retry | Kraken; all live routes and the sync |
| Import engine (`imports/`) | `import_sessions`, `raw_import_records`, `import_errors` | import one document or an ordered batch, find duplicates, record a failure | every importer; the transformation selects by session |
| Live API (`api/kraken_live.py`) | none of its own | compare, then import what was compared, then transform | client, import engine, transformation |
| CSV upload and workflows (`api/workflows.py`, `adapters/kraken/`) | none of its own | parse, normalise, import, transform, value | import engine, transformation, valuation |
| Transformation (`adapters/kraken/transformation.py`, `core/transformation.py`) | runs, decisions, issues, lots, disposals, trades, fees, provenance | one decision per selected record, in one transaction | import sessions; valuation requirements |
| Valuation (`core/valuation.py`, `services/valuation_fetch.py`, `infrastructure/coingecko.py`, routes in `api/workflows.py`) | requirements, daily prices, evidence, decisions | price the open requirements from native amounts, manual, stored or fetched prices and decide each once per method; enter manual prices | CoinGecko; transformation, tax |
| FIFO (`core/tax.py`) | none: computed from a snapshot | `calculate_fifo` | tax runs, sale planner |
| Tax runs and review decisions (`api/tax.py`) | `tax_calculation_runs` and all they own, `tax_review_decisions` | compute a year, supersede the previous run, decide review cases in versions | FIFO, valuation, exports |
| Exports (`services/tax_exports.py`, `api/tax.py`) | `export_runs`, artifacts, files | write a file once per run, kind and format | tax runs |
| Sale planner (`core/sale_planner.py`, `api/sale_proposals.py`) | none | simulate a sale over what all disposals so far leave of the lots, with or without the balances of the exchange | FIFO, financial reviews, Kraken balances and prices |
| Financial reviews (`services/`, `api/financial_reviews.py`) | suggestions, resolutions, record links | suggest, confirm, reject | transformation issues, raw records |
| Historical transfers (`services/historical_transfer.py`) | links, resolutions | resolve a transfer, project its source lots, fees, requirements and gaps | transformation, valuation |
| Review list (`core/transformation.py`, `active_transformation_issues`) | none: computed from issues and decisions | tell which issues are still open | transformation, historical transfers, financial reviews |
| Database (`database/`) | the tables | sessions, unit of work, constraints, immutability events | everything |
| Migrations, configuration, health, frontend, reserved packages | | | not modelled (see section 8) |

### What is hard here

* **Concurrency.** Handlers are synchronous functions that FastAPI runs in a
  thread pool, each with a database session of its own. Between two statements of
  one request another may commit. Most checks are "query, then insert", and only
  some are backed by a constraint.
* **Two clocks.** The provider publishes an entry some time after the moment it
  carries, and may correct or remove it. Windows are cut by timestamps.
* **Long work and staleness.** A sync holds its `PROCESSING` row over minutes of
  paced HTTP calls; a later request may declare it dead while its thread lives.
* **Partial failure.** Import and transformation are one transaction in the sync
  but two in the live import; a failed import leaves evidence that later counts
  as "registered".
* **Numbers.** Proportional shares are rounded and the last part takes the rest.

What makes each part correct: no record behind the checkpoint is missed and none is
overwritten (sync, import); an accepted read is what the provider listed (paging); every
selected record has one decision (transformation); a requirement has one effective
decision and a manual price is not passed over (valuation); allocations take the oldest
lot first and neither create nor lose quantity, cost or proceeds (FIFO); one current
result per year and evidence (tax runs); no record is confirmed twice, and what is settled
leaves the review list while what is missing stays on it (reviews).

The `hazards` list of `PROJECT.json` names the places, line by line.

## 2. Plan

Done so far, in the order of importance:

1. `KrakenSync` with the abstract `LedgerCheckpoint`, its proofs and its refinement;
2. `LedgerPagination`: the page loop that `KrakenSync` takes as one complete read;
3. `Fifo` with `FifoReference`, its proofs;
4. `TaxRuns`, its proofs, and `TaxExports`, which composes exports with it;
5. `ImportEngine` and `KrakenTransformation`, composed by `ImportPipeline`;
6. `PriceProvider` and `Valuation` with the abstract `DecisionHistory`, which it
   implements;
7. `HistoricalTransfer`, `ReviewList` and `FinancialReviews`, each extending the one
   before;
8. `SalePlanner` on the finished runs of `Fifo`;
9. `KrakenPrivateClient`: nonce, pacing and retry of one call, checked beside the
   paging, the other half of that class.

10. `RecordStore`, what an importer may rely on: implemented by `ImportPipeline`, with its
   attempts that race and fail half-way, and by `KrakenSync`, which takes an import for
   one step;
11. theorems: every invariant and action property that a run checks, and all
   refinements, for every value of the constants (section 6).

What could follow is in section 8.

The number of runs is kept to about a dozen: components that interact are checked
in one run through the module that composes them, read-only ones as invariants over
the states of an existing run (8 with `Fifo`), and the two halves of one class, which
share no state, by one run of either (`MCKrakenReading`). What a theorem states for every value
of the constants is not checked once more by a run unless the run asks something
else as well.

## 3. Modules and how they correspond to the code

`PROJECT.json` maps every definition to its lines. In all concurrent modules one
action is one query or one transaction of a request; a program counter per
request says which comes next. Sessions run with `autoflush=False` and without a
surrounding read transaction, so each query sees the newest committed state, and
what was read before may be out of date when it is used.

**KrakenSync.** `runs` is the table `kraken_sync_runs`, by the request that inserted
the row; `raw` is `raw_import_records` by canonical key; `done` and `failed` are the
import sessions by import hash. `local` holds what a request remembers: its window,
the active run it saw, the records of the first read, and the unknown ones.
`PlanWindow`, `PlanProcessing` are `plan_sync`'s two queries; `RejectRunning`,
`RecoverStale` are `_recover_or_reject_processing`; `InsertRun` is the insert guarded
by the partial unique index; `ReadPreview` and `ReadConfirmation` are the two
complete reads; `CompareKnown`, `Commit`, `CommitRefused` are `_persist`;
`RecordFailureRead` and `RecordFailureWrite` are `_record_failure`. `Publish`,
`Amend` and `Tick` are the provider and the clock, `OtherImport` and
`OtherImportFails` the live and CSV imports. `Stored` is what an import leaves that looks
for the hash and commits in one step, as the one within the sync; the others may have
looked for the hash before another attempt made it known. `RecoverStale` writes only status and
error, because the UPDATE names the id and the entity in memory is still
`PROCESSING`; that a recovered run cannot complete later is due to the CHECK
constraint `ck_kraken_sync_status` (`MayComplete`).

**LedgerCheckpoint** is what a user may rely on: entries are held and never lost,
a checkpoint is the end of a window taken in completely up to the lookback, and
windows begin a lookback before some checkpoint. The mapping takes the set of
entries accounted for as `held` and the ends of all runs with a digest as
`checkpoints` (a digest is never removed, even when the row is failed later).

**RecordStore** is what the import engine promises: a batch is added whole (`Keep`), is
skipped because its hash is known (`Skip`), or only leaves its hash behind (`Fail`).
`ImportPipeline` maps its stored records and the hashes of its session rows to it, so an
attempt that passes through four states there is one step here; `KrakenSync` maps
`raw`, `done` and `failed`, and `OtherImport` and `OtherImportFails` are all that it allows
with a batch of visible entries as they are now. This is why `KrakenSync` may treat an
import as one step.

**LedgerPagination.** The provider lists entries newest first and answers a page by
offset; between two pages it may insert, remove or amend. `ReadPage` is one turn of
`ledger_preview`'s loop, `Ready` is `ready_for_import`, `Judge` is what `run_sync` does
with the first and the second answer.

**KrakenPrivateClient.** One action per thing `_private_post` does: `Call` enters it,
`Pace` is the pause before a ledger request, `Send` draws the nonce and posts, `Receive`
returns, raises or begins the backoff (`Delay`), `Retry` ends it. `lastNonce` is the
counter all clients of the process share, `transit` holds the requests on their way:
one a client has given up may still arrive, and those of two clients in either order.
`Arrive` is Kraken, which accepts a nonce only above the highest one of the key;
`GiveUp` is a timeout, a refused connection or a 5xx (`lost`), or a connection that ends
within the answer (`broken`). `asked` is not part of the program: it counts how long Kraken
still wants a client to be silent. `KrakenSync` and `LedgerPagination` take such a call for
one step; that it comes to an end is the reason why `RequestStep` of the sync may be fair.

**Fifo.** One run of `calculate_fifo` per tax period on one snapshot: `StartRun`
builds the inventory and the acquisition journal, `TakeDisposal` takes the next
disposal in order, `Allocate` one turn of the loop over lots, `CloseDisposal` the
calculation, review and journal entries, `Refuse` the exception of a constructor
that gets a negative amount. Amounts are integers in the smallest unit; `Share` is
the rounding of a proportional share, any function within its assumption.
**FifoReference** defines without a loop which piece of a lot serves a disposal: the
overlap of two intervals on the scale of quantities.

**TaxRuns.** `valuation` and `unresolved` are the newest valuation decision of each
reward, `decisions` the versioned review decisions, `runs` and `cases` the tables a
calculation writes. `ReadValuations`, `ReadReviews`, `FindIdentical`,
`ChoosePrevious`, `CommitRun` and `RunRefused` are `create_tax_calculation`;
`ValidateCases`, `ReadEffective`, `CommitDecisions` and `DecisionsRefused` are
`_create_review_decisions`, for one case or for many. **TaxExports** adds the
requests of `POST /api/exports`: `FindExport`, `WriteFile`, `CommitExport`,
`ExportRefused`.

**ImportEngine.** `home` tells which request stored a record, `sessions` what is
committed of each request's import session, `local` what the request remembers.
`Receive` is an upload or a live import that arrives; `SkipBatch`, `FindNoBatch`,
`SortRecords`, `StoreRecords` are the queries and the commit of `_run_records`,
`ImportFails` and `RecordFailure` the two `except` branches of `import_records`. A
batch is a set of records, its hash depends on the form (CSV or API) it came in.

**KrakenTransformation** has no state. `Raw[r]` is what a record says, with the
fields a decision reads; `Visit` is the body of `transform`'s loop, `VisitGroupMember`,
`VisitLedger`, `VisitReward` and `VisitTrade` the methods it calls, each giving the
decisions and the new facts of one record; `Outcome` is the whole loop, from the facts
that the checks have `seen` and those that booking finds. `MatchedLegs` is
`reconcile_trade_ledgers`, `EthMigration` and `InternalAutoallocation` are the two pair
finders. A fact is a row of the lot, disposal, fee or trade table: its `of` and
`role` make the stable key, its `basis` stands for the payload hash.

**ImportPipeline** composes the two. `AnswerImport` and `ContinueImport` are what an
upload or a live import does after its import has committed, `PostTransformation` is `POST
/transformations`. A run of `transform` looks facts up twice: `CheckPayload` is the check
of one exchange before its first flush, which leaves what it found in `seen`; `Project` is
what the run finds when it books, its decisions, facts and linked sessions, in the commit
of `Transform`. `SyncCompare`, `SyncImport` and `SyncCommit` are `_persist` of the sync,
where import and transformation are one transaction with the same checks (`CheckPayload`)
in between; the windows and the checkpoint of the sync are in `KrakenSync`, which in turn
takes the transformation as part of a commit. `Abandon` is every exception after the
import, and the end of the process.

**PriceProvider** has no state: the windows of days that `plan_fetches` cuts, the
ways a provider call can end after its retries, and which evidence of the HTTP
answers is kept. **Valuation** has the tables: `prices` are the daily prices with
their versions, `evidence` the provider's answers, `decisions` what was decided of
each requirement, `local` what a request has read. `StartRun` flushes the row of the
run, `ReadOpen` and `PlanFetches` are its queries, `FetchWindow` and `FetchFails` one
window of provider calls, `SkipMissing`, `NoteReview`, `DecideNative`, `DecideCached`,
`LeaveOpen` and `DecideFetched` one turn of the loop over requirements, `Commit` and
`Abort` the end. `EnterPrices` and `StorePrices` are `POST /prices/manual` and the CSV of
prices. `writer` is the request that holds SQLite's write lock, which the flushed row
takes before anything is read; with PostgreSQL nobody holds it, and requests overlap.
**DecisionHistory** is what the tax calculation relies on: the decisions on a requirement
form one history, to which a run adds at most one by its method, and from which
nothing is removed. `supersedes_id` is the preceding version.

**HistoricalTransfer.** One call of `resolve` is `FindLink` (the key of its link and what
it finds), then `FindSettlement` or `Project` (the lots, fees, requirements and gaps of its
source rows), then `CommitTransfer` or `RollBackTransfer`. `AddedTwice` is a fee that a
call adds twice because a session that does not autoflush cannot find its own
pending row. **ReviewList** adds the list of issues still active (`ActiveIssues`), computed
from all issues and decisions, and transformation runs that read the resolved
transfers at their start (`BeginRun`) and commit issues and decisions (`CommitRun`),
possibly in another order. **FinancialReviews** adds the requests: `ReadForSuggestions` and
`CommitSuggestions` are `generate_suggestions`; `ReadSuggestions`, `ReadResolutions`,
`Reject` and `Confirm` are `resolve_financial_review`, one action for each of its reads
and one for its commit. `ResolutionFree` stands for the unique keys of resolutions and
of their record links.

**SalePlanner** computes on the state of `Fifo` after a run that starts with the first day
(`SnapshotTaken`), as `_inventory_snapshot` does. A request carries its mode and amount,
its price and fee, and what the exchange says of the balances, if it is asked:
`Permitted` are the reasons of the API to refuse it, `Feasible` those of `simulate_sale`,
`Proposed` is the quantity and `Proposal` the loop over lots, a fold that takes the latest
lot (`LastLot`) after all others. There is no action: nothing is stored.

The definitions marked `MUTANT of` are deliberate bugs. No behaviour uses them;
they are kept to show that the property beside them can fail.

## 4. Runs

| Run | Shows | Instance |
|---|---|---|
| `SyncCheckpoint.cfg` | no completed run leaves a gap behind its checkpoint; recovered runs stay failed; the sync implements `LedgerCheckpoint` | 2 requests, 2 entries, 1 import beside the sync, clock to 6 |
| `SyncAnswered.cfg` | every request is answered, whatever fails; imports behave like `RecordStore`: what is stored is never overwritten although the provider amends | 2 requests, 1 entry with 2 contents, 2 other imports, clock to 4 |
| `KrakenReading.cfg` | an accepted window is what the provider listed at one moment, with the contents it then had | 4 entries, one unparsable, one outside the window, pages of at most 2, 3 pages, one removal, one amendment |
| | a nonce is refused only to a client that another client has overtaken; nothing leaves a client before the wait Kraken asked for is over; every call comes to an end | 2 clients, 2 calls, 1 retry each |
| `Fifo.cfg` | pieces equal the reference; oldest lot first; shortages are real; quantity, cost, fee and proceeds are neither created nor lost; every sale simulated on the result takes what FIFO would take, and no more than the exchange has available | 866 snapshots of 4 lots and 3 disposals, 2 tax years, 28 sale requests |
| `ImportPipeline.cfg` | racing, failing and repeated imports implement `RecordStore`; what is stored stays where it is, and no second record with its key joins it; every run decides each of its records once, leaves no value out and books nothing twice; a run books an exchange with both legs and their fees, in whatever sessions and runs its records came, unless another run has booked a leg with other evidence between check and booking | 6 accounts of up to 20 records in 2 or 3 batches; 3 requests, 2 at a time in three of the accounts, each an upload, a live import, a sync or a transformation of any sessions |
| `Valuation.cfg` | decisions are one history per requirement; the versions of a price have no gap; an automatic price rests on the answer it was computed from; every open requirement finds a price, an outcome or a window; a committed manual price is not passed over (SQLite) | 2 valuation runs and 2 entries of manual prices over 7 requirements and days 1 to 4; both database engines |
| `Reviews.cfg` | a record is confirmed at most once; what one call rejected no later call confirms; a deposit settled by a transfer leaves the review list for good; missing basis is covered or listed; every fee is valued | 6 databases of 5 ledger records; at most 2 calls for transfers, 2 transformation runs, 1 call for suggestions and 3 decisions |
| `TaxRuns.cfg` | an answer reflects what was decided when it was asked for; review histories stay chains | 2 calculations, 3 reviewers, 2 rewards, 2 valuations each |
| `TaxExports.cfg` | supersession is a chain with a current end; exports have a file and never show an older run | 3 calculations, 2 exports, 2 rule sets |

Three more runs end in a violation; each confronts what the repository says with
what the code does. Further disagreements are described in section 7.

| Run | Claim | What happens |
|---|---|---|
| `SyncTerminalRows.cfg` | mappings.py:1277, "Completed Kraken sync runs are immutable." | A request loads a `PROCESSING` run, the run completes, the request finds the copy it loaded stale and fails it: the row becomes `FAILED` and the checkpoint falls back. Nothing is lost (`NoGapBehindCheckpoint` still holds), the next window is read again. |
| `FifoTwoYears.cfg` | docs/fifo.md:55-56, no overallocation | The run of each year starts from the original lots and ignores the disposals of earlier years, so both take the same lot. The sale planner computes from the first day and is not affected. |
| `TaxRepeated.cfg` | docs/fifo.md:59-60, period, snapshot and rules are the idempotence key | A request with rule versions that were superseded meanwhile finds no current run of its identity, computes, and is refused by the unique constraint at every attempt. |

### Bounds

Two requests are enough for a race for the active row, a stale recovery and a late commit
of the recovered run; a third would repeat one of these roles. Two entries give one that
is late and one that is on time, and a batch with a known and an unknown record. With
`Lookback = SettlementLag = 1` a delay of 2 is the longest the assumption admits, and the
clock to 6 leaves room for a window, its repetition and the window after it. For the
paging, four entries on pages of two let an entry move from one page to another in both
directions, three pages reach the page limit. For the client, two calls are either two of
one client, so that an attempt given up in the first arrives during the second, or one
each of two clients that overtake one another. One retry gives a first attempt, one that
is repeated and one that is not; `Retry-After` is once absent and once longer than the
backoff, the interval between ledger requests is longer than the shortest backoff. The
clock of the nonces stands still or is set back; one that runs ahead leaves gaps, and only
the order of nonces counts. The snapshots of `Fifo` put lots and sales in every order over
two years, with shortages, shared lots, rewards, a non-inventory asset, and two with so
few digits that rounded shares exceed the whole (`Refuse`). Three reviewers race twice in
a row for one case, three calculations give a run that is superseded, repeated and
superseded again. Each account of `ImportPipeline` is one of the situations records can be
in to each other: an exchange with a second spend for the same receive (once for crypto,
once for euros), a corrected reward, migration and allocation pairs split over two
batches, a trade that does or does not name its ledger entries, and one record of every
remaining kind. Calls race for one receive in three batches, for the two versions of a
reward, and for a trade and its ledger entries (`RacedAccounts`); the other accounts take
one call after the other, which is what their situation is about. Three requests let two
calls race and a third use what they left: two runs that join one receive with different
spends while a third session holds it.

The situations of `Valuation` are databases with one to four open requirements: a
native amount, two days of one asset, days far enough apart for two windows
(`MaxDays = 3`), a reward with contradictory components, a missing object, and stored
prices of an earlier contract. One retry gives every way a call can end, one revision
lets the provider correct a day after it was read. Two runs, of the same or of two
methods, with and without refresh, meet each other or a manual entry at every
query. The situations of `Reviews` are a delisted coin with one or with two possible
proceeds, a fiat withdrawal that one user takes for a withdrawal and another for a
delisting, and transfers that complete, replace or contradict an earlier one, or
share a fee. Three decisions let two race and a third meet what they left. In
`Fifo.cfg` the sale requests use every mode, amounts below, at and above the stock, a fee
above the proceeds, and balances that are missing, partly held, staked or different.

What does not depend on these numbers is proved (section 6).

## 5. Fairness

`FairSpec` of `KrakenSync` is weakly fair to `RequestStep` of each request: a
handler's thread is not suspended for good, and every HTTP call has a timeout and
a bounded number of retries. Planning the window (a client's decision to ask),
failures, crashes, the clock and the provider are not fair. Failures are included
in `Next`, so `EveryRequestReturns` also says that the error paths answer.

`ClientFairness` of `KrakenPrivateClient` is weak on `Step` of each client, its timeout
included (`urlopen` gets one, and fires unless the answer trickles in for ever), and on
`Tick`, as sleeps end. Neither the network nor Kraken has to do anything.

## 6. Proofs

All theorems hold for every value of the constants that meets the assumptions, in
particular for any number of requests, entries, records, lots, disposals, calculations
and reviewers. `tlapm` checks eight modules, one for each group of components and
`SumProofs`, which has no theorem of its own.

**KrakenSyncProofs** (assumptions: times are integers, `Lookback > 0`, and
`DelayAssumption`: the provider holds an entry back no longer than `SettlementLag +
Lookback`). `NoGapBehindCheckpoint` is not inductive: a completed run must know that its
read was complete, and that what came before its window is held. `CheckpointInv` adds
this in the order in which a request works: `UnpublishedIsRecent` (an entry unseen by
now is younger than the delay), `WindowAdjoins` (all that lies before the window is
held, and the window ends a settlement lag ago), `ReadIsComplete` (so the read contains
everything up to the lookback before its end; this is the one place where
`DelayAssumption` is used), `InputsAreComplete` (what is not held is in the batch),
`RegisteredBatchesHeld` (a skipped batch is held), `CompletedRunCovers`. Type
correctness, the checkpoint, held digests (`CompletedWindowHeld`), immutability of
stored contents, the one `PROCESSING` row (`OneProcessingRun`) and
`RecoveredRunStaysFailed` follow. `SyncImplementsCheckpoint` shows that each action is a
step of `LedgerCheckpoint` or a stutter; the only ones that are not stutters are `Tick`
(Advance), the imports (Acquire) and `Commit` (Complete). `SyncImplementsStore` needs that a
request never holds two contents of one entry (`ReadsAreSnapshots`): then a batch without
conflicts is added whole (`MergeKeeps`), and what it adds has new keys.

**KrakenReadingProofs** (`PagingAssumption`: finitely many ids, listed in an order
without ties, pages hold an entry and a read may ask for one; `ClientAssumption`:
intervals and clocks are naturals, the two intervals positive). For the paging,
`ReadInv` says what one round knows between two pages: while nothing was removed, all
that was found is still listed (`FoundStillListed`), `total` counts what the last page
was cut from (`CountIsOfLast`), and versions only grow (`VersionsInOrder`). A read is
ready when it found as many entries as were counted, so it found them all; after one
removal the two reads cannot both have missed the same. `ConfirmedReadIsASnapshot` is
stated, and proved, for at most one removal; with two it is false (section 7), while
`ConfirmedContentsCurrent` needs no bound. For the client, `NonceInv` says that nonces
are distinct and that the highest Kraken has seen was sent by somebody, so a request
refused although it is awaited was overtaken by another client; `WaitsKnown` says that a
client asked to be silent has the answer still to read, sleeps for at least that long,
or has failed.

**FifoProofs** (assumptions: lot and disposal ids are integers and finitely many,
amounts are natural numbers with positive quantities, `Share` gives natural numbers).
`FifoInv` strengthens `OldestFirst`, `ShortageIsReal` and `CostFollowsQuantity` by
`LoopInv` (while a disposal is worked on, every open lot outside the remaining ones is
used up, and quantity taken and quantity left add up), `EachOnce`, `PartsFromInventory`
and `LotsBounded`. Nothing more is assumed about how shares are rounded: that cost
leaves with quantity is due to the last part taking the rest. `BooksInv` adds the sums:
what was taken from a lot and what is left of it, in quantity and cost, and the same for
the proceeds and the fee of a disposal in hand; a step adds one part to one sum
(`AmountsAreConserved`). `AllocatesOverlaps` is functional correctness: the loop
computes what `FifoReference` defines without one. `PlacesInv` relates the two. Every
lot is an interval on the scale of its asset, of which the used part is a prefix
(`LotsInPlace`); the lots tile the scale, older ones first; a calculated disposal begins
where those before it ended and has the overlap of its interval with every lot
(`PartsInPlace`), one in hand has the overlap up to the position reached. Disposals are
taken in order (`SalesInOrder`), so what `Consumed` adds up recursively is what has been
taken.

A simulated sale goes on from there (`ProposalsFollowFifo`; assumptions besides types:
the shares of a sale are natural numbers, and the exchange reports finitely many
balances). Between two runs no disposal is in hand (`IdleIsDone`), so `PlacesInv` says
what the stock is: what lies on the scale behind the point all disposals have reached
(`StockOnScale`). The fold over the stock is a function of the lots visited so far
(`ProposalIsLoop`, from `FoldsExist`), and `SaleSound` is the invariant of its turns: the
pieces add up to what the loop has added up (`SaleBooked`), each lot has given what lies
between the origin and the point the sale has reached (`SalePlaced`), which is where the
next lot begins or its used part ends (`SellsWhereReached`), and a sale of everything has
taken all of the cost so far (`SaleCosted`). Induction over the size of the set of
visited lots, which are always the oldest, gives it for all of them (`LoopSound`).

**SumProofs** is what those sums need. An induction theorem of the library takes an
operator as a parameter and cannot be used; induction here goes over sets: a set of
numbers or of finite sets for which a claim fails has a least element, and its
predecessor refutes it (`LeastNatural`). In this way `MapThenSumSet`, whose recursion
picks elements in an unknown order, is shown to add one element at a time, in any order
(`SumTake`, `SumAdd`), and a fold over a finite set to have a value at all (`FoldsExist`).

**TaxRunsProofs** (assumptions: `None` is no request; the export kinds are the two
modelled). Three invariants build on each other. `HistoryInv`: versions of a valuation's
decisions have no gap, so a draft that meets the unique constraint is newer than all of
them, and drafts of one request concern different valuations. `ChainInv`: a row is
written with the last step of its request, and a chosen predecessor is a row that
started earlier; nobody can therefore name a run that is not yet in the table.
`EvidenceInv`: the versions read are at most those decided, and cover those decided at
the time of the request; rows keep their snapshot, so it also holds for the run of
another request that is given as the answer. `TaxExports` implements `TaxRuns`
(`ExportsLeaveRunsAlone`), so all of this holds beside exports; `ExportInv` adds that a
file is written before it is registered or answered, and shows a run that started no
earlier than the one it was asked for: `CurrentAtLeastAsNew` has such a run, whoever
supersedes whom.

**ImportPipelineProofs** (`AccountAssumption`: an account is finite, and a batch holds
records of one source, as a CSV export or a live read does; `KeyAssumption`: two records
of one source and id have one canonical key, which the adapters build from nothing else;
records and accounts are otherwise arbitrary). `PipelineInv` has three parts. `EngineInv`
is about the import: stored keys are unique, a request about to store knows every stored
record with a key of its batch (`BatchSorted`, kept against the races by the unique key
itself), the batch of a completed session is stored or was registered by a failure
(`CompletedStored`), each session has records of one source. From it follows
`ImportImplementsStore`: only `StoreRecords`, `SkipBatch`, `RecordFailure` and
`SyncCommit` are steps of `RecordStore`, as what was pending at the commit is all of the
batch that was not there (`CommitKeeps`). `ImportKeepsPromise` carries over what
`RecordStore` guarantees, and `AnsweredStored` is the same promise for the caller: an
answered batch is stored unless a failed attempt registered it. `BooksInv` says of the
facts alone that no stable key is used twice, that trades are whole, that every leg of an
exchange rests on a spend and a receive that may be booked (`ExchangesFounded`), and that
the leg of a record comes with its fee (`LegsWithFees`). The last one is what
`UndisturbedExchangesWhole` rests on: that both legs are there is not invariant, as
section 7 describes, but a leg and its fee are found or missing together, also after an
overtaken run. A run that sees, when it books, no other conflict than in its check books
whatever is missing of both legs (`BooksWhole`). `RunsInv` says of each completed run what
it decided. The step that matters is `Project`: from `VisitKinds`, what one turn of the
loop can give, and `OutcomeOfVisits`, that the loop adds up its turns although each sees
what the earlier ones gave, follow that each record is decided once (`RunDecides`), that
legs are put aside only with their trade (`RunExplains`) and that what is written
completes what is there (`RunBooks`). `RunInVain` is the proof of
`RepeatedRunBooksNothing`: every visit of a decided record finds its facts, and records
and facts that came since do not change that.

**ValuationProofs** (assumption besides types: the prices stored at the start are
chains). `PricesFollow`: what a run or an entry request is about to write continues the
chain it has read, and the unique key refuses it if another was faster. `DraftsFollow`:
the version a run remembers of a requirement is preceded by no newer one of its own
method, so its decision is the next in the history or meets the key:
`ImplementsHistory`, for both engines. `LockHeld` and `ManualRead` use that SQLite's
lock is taken before the first read, so no manual price is added between reading and
deciding. `PlanInv` follows the days of an asset through `plan_fetches`: what is missing
is covered by windows that do not meet. `EvidenceSound` ties what a window returned to
the evidence its prices name.

**FinancialReviewsProofs** (assumptions: what links, settlements and suggestions refer
to are imported records, quantities are naturals, statuses are the ones of the routes).
`DocumentsInv`: while a call of `resolve` is under way, each fee, lot, requirement and
gap of its transfer is stored or among what it brings, whatever other calls commit, and
gaps of what is settled are among the issues (`GapsNoted`). That no gap means covered
needs sums of quantities over any finite set of rows. `SettledInv`: a run that began
after a settlement knows it, so its decisions about the deposit close the review.
`DecisionInv`: the unique keys leave a record one confirmation, and, if calls do not
overlap, what a call has read is still so when it commits (`AloneInv`).

Only model-checked: liveness (`EveryRequestReturns`, `EveryCallReturns`), which is out of
the prover's reach. Type correctness is proved for every component with a theorem and,
except where `TypeOK` is an invariant of a run, not listed among the runs' properties.

## 7. Limits of the models

* `Held` counts an entry of a batch that failed in another import as accounted
  for, as ADR 0008 says. A live import that fails after hashing leaves a FAILED session
  with its hash; a sync whose new records form the same batch is answered DUPLICATE
  (`retry_failed` is never passed), stores nothing, and still completes and moves the
  checkpoint, although docs/kraken-live-api.md:7-8 says that it imports new ledger ids.
* The clock is read together with the first query of a plan. A row recovered as
  stale and failed once more by its own thread is one of `RecordFailureWrite`'s cases.
* Removing two entries between the pages of the two reads can make both reads
  miss the same entry; the run allows one removal.
* `KrakenPrivateClient` has one process: another one with the same key, whose nonces
  come from a counter of its own, may refuse any call. An overtaken nonce ends its call
  with `kraken_invalid_nonce`, which is not tried again. docs/kraken-live-api.md:189
  promises the short backoff for network errors; a connection that ends within the answer
  raises an exception `_private_post` does not catch (`broken`), so the call fails at
  once, in the live routes as an internal error. Signing, the parsing of answers, and waits
  that depend on the clocks of both sides (a date in `Retry-After`) are left out.
* Import and transformation appear in `KrakenSync` only as a commit that happens
  wholly or not at all; `ImportPipeline` has their inside.
* `ImportPipeline` reads the selected records and the stored facts of a run when it
  commits, except for the check of an exchange's payload, which is a step of its own
  (`CheckPayload`). Records of committed sessions do not change, and facts are never
  changed or removed. What a run finds and does not book, or finds in conflict, is
  therefore the same at its commit; what it does not find it inserts, and if another run
  has committed it since, the unique stable key refuses the whole run (`Abandon`). Only the
  check looks for facts without inserting them. With PostgreSQL it may be overtaken at
  any exchange; with SQLite only before the run's first flush (transformation.py:1254),
  which takes the write lock, and in a sync, whose import has flushed before, not at all.
  The model lets it be overtaken at any exchange and in a sync.
* A run that is overtaken between the check of an exchange and its booking can leave a
  sale without its purchase: two runs join one receive with different spends, the second
  has checked the payload when the first commits the receive's acquisition, and booking it
  then ends in a conflict (transformation.py:1286-1296). The disposal of its spend is
  booked all the same (572-633), and no unique key refuses it, although
  docs/sprint-5b2-historical-ledger.md:20-21 has both facts created. The property of the run
  names this case (`Overtaken`); TLC shows it as a behaviour of 18 states
  when `ExchangesBookedWhole` is added to the invariants of `ImportPipeline.cfg`.
* `ImportPipeline` reads the assets of related raw records (`AssetConflict`) with the
  stored records of the commit.
* A batch repeats no key, holds one source and is hashed without its order; CSV
  exports have the columns from which the fingerprint is computed. Ledger types and
  subtypes are lower case, numbers are finite, and the rounding tolerance of a quote
  is one constant. `SelfTransfers` stands for resolved historical transfers.
* Valuation requirements, audit events and provenance of facts are not part of the
  state of `ImportPipeline`, and `COMPLETED_WITH_REVIEW` is `completed`.
* Stored shares of `Fifo` are those the engine computed; the rounding of the
  column type (`NUMERIC(38,18)`) is not modelled. Both years are computed on one
  snapshot. Classification by holding period, rule versions and texts are left out.
* What the models of import and transformation show beside the runs' properties, and
  what a reader may not expect. A selected spend gets no decision when its receive is
  only in a context session or is in conflict (`LeftToItsReceive`; the documents say
  every selected record gets one, docs/architecture.md:77). A run that had a session
  only as context counts as its transformation (`Reusable`). After a second upload of
  the same file `find_by_hash` returns the session of that duplicate, which holds no
  records, so a third upload that asks for a transformation transforms nothing
  (`Latest`). The ETH leg of the Shapella migration, transformed before its
  counterpart arrives, is booked as a reward and stays booked when the pair is later
  recognised. Two spends that share a euro receive can each be sold against it, when
  they are selected in different runs.
* `TaxRuns` has one tax year; `COMPLETED` and `COMPLETED_WITH_REVIEW` are both
  `current`; decisions are known by their version, not by what was decided; every
  reward has a platform fee to decide on; instants of `started_at` are distinct.
* The annual summary exported for a superseded run shows the figures of the latest run of
  the year (`ShownRun`), although docs/exports.md:45-46 calls an export one of a completed
  run. The other kinds show the run they are registered for.
* `TaxExports` leaves out the export kinds that show review decisions or valuations
  as they are at the moment of the export, and downloads.
* `Valuation` leaves out waiting times, whether a day has the 20 samples that spare its
  price a review, and exact decimals. What it shows beside the runs' properties: with
  PostgreSQL a manual price entered during a run may be passed over (`ManualPriceWins` is
  stated for SQLite). A manual price that returns to an earlier value, or two rows of one
  CSV for the same day, meet a unique key and end in an internal error, although
  docs/valuation.md says that a correction creates a new version. Evidence is reused when
  window and hash repeat, although the same document promises one per fetch. A refresh
  after a price has changed back uses the older version. A requirement whose object is
  missing is audited again by every run, and a failed run leaves no row.
* `Reviews`: between overlapping calls of a confirmation and a rejection nothing decides;
  both stand (`RejectedNotConfirmed` is stated for calls that do not overlap). Two
  confirmations, or two calls for suggestions, that overlap meet a unique key, and the
  loser loses its whole call. After another transformation, suggestions for rejected
  records appear that can be neither confirmed nor rejected (409). A confirmation needs
  no suggestion. A PARTIAL resolution can never be upgraded: its link may have one
  resolution. A fee that is both a source row's own and the transfer's is added twice,
  so that call is refused for good (`AddedTwice`). A transfer without acquisition rows
  gets no gap although no row documents its basis; the same acquisition may back two
  links; of two links to one deposit the last one counts; a gap, once listed, stays.
  Futures transfers, parent links and the exclusion of records with a trade context are
  left out.
* `HistoricalTransfer` has a set of source records and one asset. In the code
  `source_record_ids` is a sequence, so an id given twice counts a stored lot twice
  (historical_transfer.py:212), and quantities are added without comparing their asset to
  that of the link (:252). No route calls `resolve`.
* `SalePlanner` leaves out holding periods, warnings and the age of prices. A lot with
  quantity but without cost left, which too coarse amounts can produce, makes the
  snapshot fail for every asset (`StockAccepted`). docs/sprint-5a-sale-planner.md:11 speaks
  of the latest completed tax inventory; the code computes it anew.

## 8. Not modelled

Parts that remain: the public market client, signing, the import of a single document
(`import_json`), the previews of
the live API, and the lists and details of `api/workflows.py`, which only read. Never to
be modelled: parsing and formatting of Kraken's fields (data without control),
migrations (run once, outside the program), configuration, health and application start
(wiring), the frontend (presentation only), and the reserved packages, which hold no
behaviour yet.
