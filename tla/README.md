# Verification of the alpha-research platform

TLA+ models, TLC runs and TLAPS proofs for the Python platform under `src/`: it reads vendor
data point in time, builds and mines signals, validates them out of sample, combines them,
builds portfolios, registers signals in a lifecycle and leaves an audit trail. Source paths below are relative to `src/src/` unless they
start with `tests/` or `config/`.

Run `tlc -config <run>.cfg <Module>` for a run and `tlapm <Module>Proofs.tla` for the proofs of a
module. `PROJECT.json` lists runs, theorems, hazards, the code behind every definition, and for
every property a faulty variant of the code that breaks it (the operators whose comment begins
"Faulty variant" or "A slip of").

## 1. The system

### Components, their state and their operations

| Component | Code | State it keeps | Operations that change it | Modelled in |
|---|---|---|---|---|
| Signal registry | `signals/registry/signal_registry.py` | a SQLite table of signals; per object one connection, with whatever transaction it is in | `register`, `update_status`, `update_metrics`, `close` (`get`, `require`, `list_signals` read) | `SignalRegistry`, `Lifecycle` |
| Audit log | `monitoring/audit.py` | a JSONL file whose entries carry each other's SHA-256 | `record` (`entries`, `verify` read) | `AuditLog` |
| Artifact integrity | `utils/integrity.py` | an artifact, its `.sha256` sidecar, temporary files | `write_with_sidecar`, `atomic_write_bytes` (`verify_sidecar` reads) | `ArtifactStore` |
| HTTP client | `data/http.py` | whether a call was made before; attempt and backoff of the current one | `get_bytes` | `HttpClient` |
| WRDS client | `data/wrds/client.py` | the page loop of one fetch | `get_rows` | `WrdsClient` |
| Public source | `data/public/source.py`, `yahoo.py`, `edgar.py` | two HTTP clients, EDGAR's cached listing, the loop over the names | `get_prices`, `get_fundamentals`, `top_tickers` | `PublicSource` |
| EDGAR fundamentals | `data/public/edgar.py` | none (a join over the companyfacts JSON) | - | `EdgarFundamentals`, `VendorRecords` |
| WRDS source | `data/wrds/source.py` | a cached name table | - (queries) | `CompustatFundamentals`, `CrspSecurities`, `AnalystEstimates`, `VendorRecords` |
| Delisting returns | `data/wrds/delisting.py` | none | - | `CrspSecurities`, `VendorRecords` |
| CCM links | `data/wrds/ccm_link.py` | none | - | `CcmLinks`, `VendorRecords` |
| Point-in-time guard | `utils/pit.py` | the pinned `as_of` day | - (it filters or refuses answers) | `PointInTime`, `ResearchRun` |
| Train/test splits | `signals/validation/splits.py` | none | - | `Splits`, `ResearchRun` |
| Backtest pipeline | `pipeline/real_backtest.py` | the artifacts and verdicts it leaves | `run_fundamental_backtest`, `run_train_test_backtest` | `ResearchRun` |
| Factor expressions | `signals/discovery/factor_dsl.py` | none (immutable trees) | - | `FactorDsl`, `FactorMining` |
| Structural filter | `signals/discovery/alpha_agent.py` | none | - | `FactorDsl`, `FactorMining` |
| Alpha miner | `signals/discovery/quanta_alpha.py` | population, fitness cache, generation | `mine_alphas` | `AlphaMiner`, `FactorMining` |
| Analyst signals | `signals/construction/analyst_accuracy.py`, `truebeats.py` | none | - | `AnalystEstimates`, `VendorRecords` |
| IC calculator | `signals/validation/ic_calculator.py` | none | - | `RankIc`, `Validation`; which data it draws on, in `ResearchRun` |
| Validation statistics | `signals/validation/regime_tester.py`, `decay_tester.py`, `pvalue_test.py` | none | - | `Validation`, `DeskRecords` |
| Backtest runner | `signals/validation/backtest_runner.py` | none (it appends to the audit log) | - | its seven tests in `Validation` and `SignalCombination`, its legs in `AnnualSpread`, its place in a run in `ResearchRun` |
| Fundamental factors | `signals/construction/fundamental_factors.py` | none | - | which rows they draw on, in `ResearchRun` |
| Signal combination | `signals/combination/signal_selector.py`, `optimal_weights.py` | none | - | `SignalCombination`, `DeskRecords` |
| Portfolio | `portfolio/construction.py`, `constraints.py`, `mean_cvar.py`, `risk.py` | none | - | `PortfolioConstruction`, `DeskRecords` |
| Universe | `universe/small_cap.py`, `deflator.py` | none | - | `SizeUniverse`, `DeskRecords` |
| Seasonal backtest | `backtest/seasonal.py` | none | - | `AnnualSpread`, `DeskRecords` |
| Hygiene certificate | `utils/hygiene.py` | none | - | `Hygiene`, `DeskRecords` |

Not modelled, with the reason in section 7: other signal constructors (ownership, supply chain),
FactSet, the source interface and fixtures, logging, the compliance scanner, settings, stubs,
scripts.

### How the components interact

- The pipeline calls a source through `PITDataSource` (a call, no message), scores what it got,
  hands scores and prices to the backtest runner, which appends its verdict to the **audit log**,
  and writes each result with `write_with_sidecar`.
- The **registry** appends every registration and every transition to the **audit log** *after*
  its commit; the two are not one transaction.
- The WRDS and public sources share the code of `HttpClient`; EDGAR's listing, its facts and all
  retries go through one client object, Yahoo's through another.
- The desk is a chain of pure functions: estimates and actuals become **accuracy** and **TrueBeats**
  scores; daily **ICs** of scores against returns feed the regime, decay and significance tests
  whose verdict **validates** a signal; validated signals are **selected** against each other,
  weighted and blended; the blend and past bars become a **portfolio**; monthly rows become a
  **universe** whose legs are scored year by year; a **certificate** decides whether a result may
  be reported at all.
- Sources, clients and the miner are single-threaded Python. Concurrency is between *processes*
  (or objects) that share a file: the registry database, the audit log, an artifact path.

### What is hard

1. **Read, check, write.** Every registry call is a SELECT, a check in Python and a write of the
   whole row; the implicit transaction begins only at the write. `AuditLog.record` reads the last
   hash and appends in two unlocked steps. A save of one file is two renames.
2. **Failure in the middle.** Nothing rolls back after a failed statement; audit records follow
   commits; a page, a name or a window fails after others have succeeded.
3. **Data that arrives late.** Filings, restatements, links, renames and delistings are added after
   the window that is being asked about; whether they change its answer is the question of a
   backtest's validity.
4. **Loops with several exits.** Paging over an API that ignores filters; loops over names where
   some failures skip a name and some end the call.
5. **Steps that undo each other.** Neutrality, the position cap and the gross limit of a portfolio
   are enforced one after the other; selection depends on the order signals are considered in; the
   risk of a book is rounded one way by the program that chose it and another way by the report.
6. **Boundaries.** Embargo days and the rounding of the split, the cap in the middle of a page,
   links that end on the day asked about, windows of rolling operators, preorder positions, breakpoints rounded half to even, legs too small
   to score, days with too few names for a correlation.

`PROJECT.json` lists these as hazards at their lines, with the properties that cover them.

### What makes each component correct

- Registry: a signal moves forward one stage at a time or is retired for good, once registered;
  timestamps agree with the status; the trail tells the story in order; no lock outlives its cause.
- Audit log: only overlapping records or damage break the chain; in a log that verifies every
  digest answers for all that stands before it.
- Artifacts: no half-written file, a digest that does not match has an explanation, and no two
  writers use one temporary file.
- Clients: politeness, no unfiltered row, nothing silently missing, every fetch ends.
- Sources: a past window's answer is settled when the window ends, outside the exceptions of
  section 4; flows, deaths and joins are counted exactly once; a universe lacks exactly what the
  vendor lacks.
- Research: nothing late enters a score or label; training sees nothing of the test window;
  where a log is kept, verdicts come before results.
- Analysts: what is trusted on a day was known on it; a consensus moves towards who was right
  beforehand.
- Desk: a pass is earned in every kind of market and not by sectors; what is kept is pairwise
  unlike and what is dropped gave way to something kept; a book meets all its limits at once, and
  the risk it reports is not below the risk it was chosen for; deciles are fair and legs apart; a
  clean certificate is evidence that no step was left out.
- Discovery: mined factors are causal, new, and the best is neither lost nor left out.

## 2. The modules

**Registry.** `Lifecycle` is the abstract specification: a map from names to statuses that is
registered into, moves along `AllowedTransitions`, and nothing else. `SignalRegistry` is the
code: `Register`, `UpdateStatus` and `UpdateMetrics` are the SELECT with its check,
`WriteFails`, `InsertFails`, `CommitFails` and `Commit` are the execute and the commit, `Audit` and
`AuditFails` the record after it, `Close` both `close()` and a process that stops anywhere.
`ReadFails` is a SELECT that cannot get its lock. `table` is what is committed, `draft` what the
holder of the write lock sees, `lock` each connection's SQLite lock. SQLite is external: its
rollback-journal locks follow from the way the code opens and uses a connection (default isolation
level, default busy timeout, no rollback). A record is registered with any of the statuses of
`RegisterAs` and any metrics, but without timestamps: `register` stores whatever the caller hands it,
and a row that its caller stamped for another status would only be what it was told. A lock another step can see was left by a call that
ended, so it outlasts the busy timeout.

**Audit.** `Compute` is `record` up to the digest, `AppendLine` the append, `AppendShort` an
append cut short (with or without its newline), `Stop` a process that ends between the two. `Edit`
and `Drop` are what `verify` exists to detect, and `Rewrite` what it cannot: no key goes into a digest,
so an altered entry can be linked and hashed anew, and after it, one `Rewrite` at a time, the entries
that follow. (An entry inserted into the file is not modelled.) Digests are numbers: SHA-256 is taken to be
collision free. `Chained` is the loop of `verify`. `seen` is history: the log each digest was computed
behind.

**Artifacts.** Each writer fills and syncs a temporary file, under a name that nobody uses, and renames it (`Begin`, `Sync`,
`Replace`), first for the artifact, then for the sidecar; `Raise` unlinks, `Kill` does not. `temps` is
the directory's temporary files by name, `left` remembers whose writers were killed.

**Clients.** `HttpClient` is `get_bytes`: `GetBytes` up to the first request, `Send` one request and
what is made of its status, `Lose` a transport exception. `rested` counts the time slept since the
last request. `WrdsClient` extends it with `Start`/`Reject`, `Ask` (the head of the loop),
`Receive` (verification, cap, next link) and `Fail`. `PublicSource` holds two instances of
`HttpClient` and the loops of `get_prices`, `get_fundamentals` and `top_tickers`: each `Ask...` sends a
request, each `Take...` uses its answer, each `Miss...` decides whether a failure skips the name or
ends the call.

**Records.** `EdgarFundamentals`, `CompustatFundamentals`, `CcmLinks` and `CrspSecurities`
are operators over a set or sequence of records, one per function of the code. In `CrspSecurities`
prices are on a logarithmic scale, so that returns add up and the total-return index of `_to_bars`,
anchored at the last row of the table, is a sum (`Index`, `Anchor`). `VendorRecords`
lets a feed grow: `Disclose`, `Load`, `Link`/`Unlink`, `ListAs`/`Delist`, `Estimate`/`Report` add
records dated today, and `Tomorrow` (in `Records`) ends the day. `AnalystEstimates` has the two
IBES queries and the path from them to TrueBeats: whose forecasts count, how accurate they proved,
how much they are trusted, and the three components of the signal. A property compares the answer about a past window over today's feed with
the answer over the feed as it stood when the window ended.

**Desk.** One module of operators per part, without state: `RankIc` (ranks and rank correlation
of a date), `Validation` (regimes, decay, significance, the verdict of the seven tests),
`SignalCombination` (selection, weights, blend), `PortfolioConstruction` (tilts and `enforce`,
scenarios, VaR and CVaR, the mean-CVaR program), `SizeUniverse` (breakpoints, deciles, the deflated
band), `AnnualSpread` (the quintile and tercile legs) and `Hygiene` (the certificate).
`DeskRecords` lets what they work on grow one record at a time: `Close` and `Score` for a book,
`Validate` for signals, `Trade` for a market, `List` for a month, `TakeIn` for a pipeline.
`Feeds` has the state that vendor and desk records share, and `Records` composes the two: one
behaviour follows one of ten kinds of records, and what was true of the past must stay so at every
stage from filing to portfolio (`PastIsSettled`).

**Research.** `PointInTime` and `Splits` are operators; `ResearchRun` is
`run_train_test_backtest`: fetch prices, fetch fundamentals, score, backtest, write; for the train
window, then for the test window. `honest` says whether the source answers within the window asked
for; a leaky one answers with anything. `logged` and `kept` say whether the caller gave an audit log
and a directory for results: both are optional.

**Discovery.** `FactorDsl` has the trees, their metrics, random generation, evaluation over a
panel (a value is the set of observations it was computed from), text and parser, and the
structural gates. Trees are records whose arguments are smaller trees (`RandomExpressions[h]`, those
of height up to `h`; `Trees`, those up to the bound `Deepest`), and what the code computes by
recursion over a tree (`NodeCount`, `ParamCount`, `Collect`, `Replace`, `Tokens`, `Evaluate`) is a
recursive function on `Trees`. `OfArg` is a recursive call for an argument that an expression may not
have. The parser is one function from positions to what is read there (`ArgsAt`), where the
code moves a cursor. `AlphaMiner` is `mine_alphas` over any set of expressions; `FactorMining`
joins the two, and has for each property of the language the set of factors that would break it
(`Misread`, `Misgraft`, `Lookahead`, `Known`).

`MC*` modules only give constants values; `*Proofs` modules hold the theorems about the module
they extend. `RecordsProofs` has those of the vendors' and of the desk's records,
`FactorMiningProofs` those of the expressions and of the miner.

## 3. The runs

| Run | Instance | What it shows |
|---|---|---|
| `registry_owned` | 2 names, 2 connections, each caller its own name, trails of up to 3 | the code implements `Lifecycle` (`LifecycleSpec`); the trail is in order and never ahead of the table; a metric that has a value keeps one; with stops and failing audit records anywhere |
| `registry_shared` | 1 name, 2 connections that both call, trail of up to 2, fairness | rows never mix two saves; a lock is left behind only after a lost registration race; every started call returns |
| `registry_terminal` | as above | **violation**, section 6 |
| `audit_log` | 2 writers, 4 digests, edits, rehashing and drops anywhere | the chain breaks exactly when records overlap and stays broken; without overlaps a digest in a log that verifies answers for everything before it, whatever was done to the file |
| `audit_fork` | 2 writers, 3 entries | **violation**, section 6 |
| `artifact_store` | 2 writers, 3 contents, 4 names for temporary files, up to 2 kills | no half-written file, mismatches explained and healed, no temporary file shared, taken over or left by a write that ended |
| `wrds_client` | 3 attempts, backoff 0.5 s and interval 0.2 s (in tenths), pages of 2, ceiling 4, `max_rows` from -1 up or none, up to 3 rows served, fairness | politeness, filters, exactness up to the cap, termination |
| `public_source` | 3 tickers of 2 companies, calls over up to 2 names, 3 attempts, 0.5 s and 0.25 s (in hundredths) | names accounted for, companies once |
| `records` | ten kinds of records over 1 to 4 days, bounds below | past windows are settled, from filings to portfolios, outside the exceptions of section 4; current figures win over comparatives; flows add up; joins once; deaths booked; one company per series; the consensus leans towards who was right beforehand; books are sound; combinations justified; passes earned; years fair; certificates are evidence |
| `edgar_rewrite` | the EDGAR part of `records` | **violation**, section 6 |
| `research` | spans of up to 6 days, every fraction in tenths, embargo 0 or 1, lookback 1, scoring every 2 bars, horizon 1, up to 2 rows a query, honest and leaky, with and without a log and a directory | windows apart, no look-ahead, training blind, results audited where there is a log |
| `discovery` | 2 features, 5 operators, trees of up to 3 nodes, 4 days x 2 tickers with any bars missing, population 2, elite 1, hall 2, up to 2 generations, fitness 0 or 1 or none | best kept, hall is best, causal, readable, grafts land, nothing known |

### Why the bounds are enough

- *Registry.* Every race in the code is between a SELECT and a write, so two connections show all
  pairs; a third only repeats the role of one. Two names are needed for "somebody else's row in my
  open transaction" and for callers that own different signals. The trail bound limits audited calls
  only; calls that fail are unbounded. The proofs drop all of these bounds.
- *Audit.* Overlap needs two writers, a gap that verifies would need an entry before, in and after
  it, and a fourth lets a fork be continued.
- *Artifacts.* A third content distinguishes "old" from "the other writer's". Two writers and two that
  were killed use all four names.
- *WRDS.* With a page of 2 and a cap of at most 4 the cap falls before, at, after and inside a page,
  with and without rows left; a cap of 0 or -1 never lets the loop begin. Three attempts give two waits
  of different length.
- *Public source.* Two names give a success before and after a failure, three tickers of two
  companies give a second share class before, between and after others.
- *Records.* Each rule relates at most three records: an original, its comparative or amendment, and
  one under another tag; three quarters of a year; two links and their overlap. CRSP needs a
  fourth for a ticker passed on by a delisted holder; a listing, an exit and a day that is not quiet (no
  price, a gain, a total loss) are records each. A record of accuracy needs two figures, as in the code:
  that is four forecasts, two of them on the name in question itself, and two figures; with a seventh
  record one analyst also speaks with hindsight. A row that the screens reject counts for two, and
  on the last day rows are added only up to five, enough to revise what was settled before.
  Feeds last three days (links and CRSP four). EDGAR has two fields, revenue with two tags, and a
  quarter and a year-end period; its 10-Qs are for the quarter and its 10-Ks for the year.
- *Desk.* A book is of up to four names, scored on the last of four days: with a cap of 1 and a gross
  limit of 3, cap, gross limit and neutrality each bind alone and together (with three names the cap
  would follow from the other two); scores of two scales make the cap bind or not; tails of one in
  two scenarios are whole, cut, or less than one. Three signals of two dates over three names give
  every pair that conflicts, does not, or has no correlation, in every order of priority. A market
  of five days and windows of two has days before any window, both directions and both levels of
  volatility; ICs are negative, positive or missing. Six securities and four deciles give every
  rounding of a cut; legs of two hold members without a return, and a two-fold price level moves the
  band. Five intakes give a certificate enough and too few firm-years, with any of the five steps
  left out.
- *Research.* The shortest splittable span is three days; six cover every rounding of the cut by
  tenths with and without embargo. The proofs cover all spans.
- *Discovery.* A ts-operator over a binary one needs more than three nodes and is not reached;
  the operators are composed pairwise. Windows of 2 over 4 days leave room on both sides. A graft
  makes a tree of at most six levels, which is `Deepest`. A hall of two has an order and could hold a
  factor twice, but leaves out none of a population of two; and trees of three nodes have left subtrees of
  one node, so the walk of a graft is short: `HallHoldsTheBest` and `GraftsFit` cover the rest. The proofs cover trees of every height: any
  tree is within some value of `Deepest`, and nothing but the domain of the recursive functions
  depends on it.

### Fairness and deadlock

- `FairSpec` of `SignalRegistry` has `WF(Continue(c))` per connection: a call that has begun is Python
  code that runs on. Nobody has to *start* a call. `EveryCallReturns` therefore depends on SQLite's
  busy timeout, which turns waiting into `OperationalError`.
- `FairSpec` of `WrdsClient` has `WF(Working)`: a fetch runs on, and a request is answered or
  times out (the transport has a timeout of 30 s).
- The other specifications state no fairness. The miner draws at random until enough draws pass
  the filter; the code gives no ground to assume that they do.
- `CHECK_DEADLOCK FALSE` where the program really ends or a bound of the model ends it: a
  research run, a mining run, the last day of a feed, the last audit entry.

## 4. What is assumed of the vendors

Everything a source returns is checked against what the code relies on, not against what is
convenient:

- one screened Compustat row per fiscal quarter, beside which there may be rows the screens reject;
- primary CCM links of one company, or of one security, do not overlap; other links may;
- a ticker has one holder on a day; CRSP has a daily row for every listed security, priced or not;
- EDGAR filings may repeat, amend, or restate any figure under any tag at any time.

Properties name their exceptions as operators beside them: `Overtaken` (a Compustat quarter
reported after a later one of its year: the difference then changes with the late report),
`Shadowed` (an EDGAR period later filed under a preferred tag, which is the finding
`edgar_rewrite`) and `SameButForScale` (the adjusted closes of a past window may all be multiplied by
one factor, section 6). `PastIsSettled` and `CurrentFigures` hold outside these.
`DeathsAreBooked` speaks of securities with one usable delisting. `CertificateIsEvidence` names the
flows that hide a skipped differencing (section 6).

Where the proofs need one of these it is a named assumption of the module that declares the
constants, which TLC evaluates: `CoverageAssumption` (the last day of CRSP lies before
`CoverageEnd`), `AnalystsAssumption` (analysts are numbers), `TagsAssumption` (finitely many
fields, each with a list of tags), `FilingsAssumption` (a year on file has a quarter),
`WindowAssumption` and `ThresholdsAssumption` (windows and thresholds are numbers),
`SignalsAssumption` (finitely many whole scores a date, all distinct or all equal),
`SectorsAssumption` (up to three names a date), `SessionsAssumption` (finitely many positive closes a
day), `ListingsAssumption` (a price is small beside the sizes, so that securities differ in size),
`LimitsAssumption` (limits are positive and whole in the unit the weights are counted in),
`SizesAssumption` (at least one decile) and `LegsAssumption` (a leg is at most half of the names and
takes at least one).

The miner's constants have three. `DslAssumption`: no feature is spelled like the punctuation or the
digits of the interchange format, windows are positive (`factor_dsl.py` names features and windows
itself), and the similarity threshold is below 1 (0.6, `alpha_agent.py:68`); at 1 the originality
gate would let a known factor through. `MiningBounds`: known factors are trees, the days of bars are
ordered as numbers, and `Deepest` is high enough for every draw and graft of the instance. `Wiring`:
the miner is run with the filter, draws and genetic operators of the language.

The desk's statistics are made of whole numbers and exact fractions wherever a decision rests on
them. Rank correlations are whole for up to three names that are all distinct or all equal, which
the instances keep to (for more names the models round one down; what is proved of them does not
depend on that); a comparison with a square root is made on squares; sector means are
multiplied by 6; the spread of the last closes stands for a volatility, which keeps who is more
volatile; the mean-CVaR program is searched over a grid of whole weights; the deviation a z-score
divides by is the same for every cross-section that varies. Where whole numbers do not decide, as
for a p-value or the expected maximum of many trials, the outcome may fall either way.

## 5. What is proved

TLAPS proves the following for every value of the constants that satisfies the modules' named
assumptions; further assumptions are part of the theorem.

| Module | Theorem | Assumes | Inductive invariant |
|---|---|---|---|
| `SignalRegistryProofs` | `TypeCorrect` | - | `TypeOK` itself |
| | `RowsStayConsistent` | `RegisterAs` within DISCOVERED, VALIDATED | `RowsAgree`: the stamps agree in the table, in the draft *and in every pending write*, since a stale row may be saved at any later time |
| | `LockedOnlyByRace` | - | itself: with no lock anywhere no step can fail on one |
| | `ImplementsLifecycle` | `OneCaller`: one caller per name | `Fresh`: the row a pending write was computed from is still the committed one. Refinement: every step is a step of `Lifecycle` or leaves all statuses as they are |
| | `TrailTellsInOrder` | `OneCaller` | `Fresh` and `Told`: an event on its way to the trail is no older than the events there and no newer than the table |
| | `SavesKeepMetrics` | `OneCaller` | `Fresh`: the row written holds the metrics of the committed one |
| `AuditLogProofs` | `AuditTypeCorrect` | - | `TypeOK` |
| | `ForksComeFromOverlaps` | - | `Linked`: without damage the last digest belongs to the last landed entry, so a pending entry chains iff nothing landed since it was computed |
| | `OneWriterVerifies` | one writer | nothing overlaps, and an undamaged file is chained |
| | `ForksAreForGood` | - | none needed: a step appends or damages |
| | `VerifiedLogIsHistory` | - | `Traced`: every entry, in the file or on its way there, knows what was before it when its digest was computed, and as long as no records overlap whoever is linked to it was computed behind it and all of that; so a chain that holds up to an entry can only be the one its digest has seen |
| `ArtifactStoreProofs` | `ArtifactTypeCorrect` | - | `TypeOK` |
| | `ArtifactsAreWhole` | - | `Owned`: what is renamed is the writer's own file, and synced |
| | `MismatchesAreExplained` | - | `Settled`: between the renames of a writer that runs alone the artifact is its content |
| | `TemporariesAreAccounted` | - | `Owned`, the property said of one name at a time: a name is in use exactly while a writer holds it or after one was killed with it |
| `WrdsClientProofs` | `FetchTypeCorrect` | - | `TypeOK` and `Linked`: the link points behind the rows collected |
| | `RequestsArePolite` | `MinInterval <= BackoffBase` | `Resting`: the next wait is at least the base |
| | `FetchesAreExact`, `FiltersAreHonored`, `LinksAreSecure` | - | `Exact`: rows so far are a prefix of what is served, all of them asked for |
| `PublicSourceProofs` | `UniversesAreWhole` | `MaxRetries # 0` | `Accounted`: up to its position a call has read exactly the names not refused, and a name under way is refused iff its answer says so |
| | `SecIsAskedPolitely` | `PoliteInterval <= BackoffBase` | `Resting` for EDGAR's client, across calls |
| | `UniversesAreRanked` | - | `Ranked`: while a universe stands returned, the listing it was read from is still cached |
| `ResearchRunProofs` | `RunTypeCorrect`, `SplitsKeepApart`, `NothingAhead`, `TrainingIsBlind` | - | `Bounded`: types, a sound split, a job only with a split, and data and scores within the window |
| | `HonestSourcesPass` | - | the property itself, with the shape of an honest answer |
| | `VerdictsPrecedeResults` | - | `Ordered`: a write under way has its verdict in the log if there is one, and no test verdict comes while training |
| `FactorMiningProofs` | `HallHoldsTheBest`, `TheBestSurvives` | - | `MinerInv`: populations are admitted, and with an elite the population being bred (`Champion`) holds an expression as good as anything in the cache |
| | `NothingKnownIsMined` | - | `MinerInv`, that populations are admitted |
| | `NoTreeLooksAhead`, `GraftsFit`, `TreesReadBack`, `KeysAreUnique` | - | about every tree, by induction over trees, below |
| | `MinedScoresAreCausal`, `MinedGraftsLand`, `MinedReadBack` | - | the property itself: no tree breaks it, so no mined factor does |
| `RecordsProofs` | `ThePastIsSettled`, `QuartersWin`, `OneCompanyPerSecurity`, `OneSeriesPerCompany`, `TheDeadAreBooked`, `TheFlowsAddUp`, `TheConsensusLeansRight` | - | `RecordsInv`, below |
| | `TheCertificateIsEvidence`, `TheCombinationIsJustified` | - | `DeskInv`: what came up is what may come up; the rest follows from the operators alone |
| | `TheBooksAreSound` | - | `BookOk`: finitely many positive closes and whole scores, at every point |
| | `TheYearsAreFair` | - | `MonthOk`: the rows of a month differ in size |
| | `ThePassIsEarned` | `MinRegimesPositive >= 3`, `DecayIcMin >= 0` | both |

The assumptions that theorems add are the defaults of the code or marks of where it would fail:
`MaxRetries = 0` would make Yahoo's client fail with status 0, which the loop takes for "no data";
a backoff shorter than the interval would make a retry impolite; a signal registered as
PRODUCTION has no `promoted_at`; two callers of one name lose updates; a verdict that asks for two
regimes may see a bull market and a calm one only, and one with a negative decay threshold lets a
signal pass that loses at the longer horizon.

**The records.** A behaviour of `Records` grows one feed, day by day, and a property compares what
is made of today's feed with what was made of an earlier one. `RecordsInv` is what the vendors keep
to (section 4), per kind: a fact's form, period and tag agree (`FactsOk`); a screened Compustat row
is the only one of its quarter (`QuartersOk`), without which a quarter could be differenced twice; a primary
link starts after the earlier ones of its company and its security have ended (`LinksOk`); names,
prices and delistings of CRSP are in order and dated (`SecuritiesOk`); forecasts and actuals are
finitely many numbers (`EstimatesOk`). From it each property follows for the feed as it stands, by
lemmas about the operators: that a filter on past days does not see later records, that the
preferred fact stays preferred (`Beats` compares one number, `Weight`), that links covering a day
are at most one, that a difference telescopes.

**Sums in any order.** Totals are folds over sets (`SumFunction`), whose definition leaves the order to
`CHOOSE`. `RecordsProofs` first shows that they have a value and that any element may be taken
off first (`SumFacts`), then what follows: sums of equal, renamed, scaled, added or swapped terms
(`SameSum`, `SumRenamed`, `SumScaled`, `SumAdded`, `SumSwapped`), of what adds nothing
(`SumSupport`), and the weights' second moments (`MixedSquares`, a case of the inequality of
Cauchy and Schwarz). Each is proved from a least counterexample among the subsets of a finite set,
since the library's induction theorems cannot be instantiated here.

**The greedy selection** is a recursive function over the order in which signals are considered
(`SelectSignals`); `ConsiderDecides` carries through it that every signal passed so far is decided,
once, against those kept before it. Two means of the same correlations meet in it: what conflicts by the
signed mean also fails test #6, which takes the mean of magnitudes (`AbsoluteSum`).

**Books.** The hard limits meet in a chain: each step of `enforce` may undo the one before, so each
step's lemma says what it establishes *and* that it keeps the rest (`DemeanedBook`, `CappedBook`,
`BalancedBook`, `LeveredBook`, joined in `EnforcedBook`): levering scales all weights alike and
keeps neutrality and the cap, balancing shrinks the larger leg to the smaller and keeps the cap and,
through one common scale, the order of the names. Where a step divides, the model
multiplies the other side, and the lemmas compare products. An optimised book's loss is a sum over a
tail of scenarios, the program's the least of a convex function over the scenarios:
`WorstFacts` gives a least tail whose worst member bounds everything outside it, `ExcessFacts` the
value of the program there, and `TailSizeFacts` the two ways the tail is rounded; together they
are the inequality of Rockafellar and Uryasev on finitely many scenarios (`LossFacts`).

**Trees.** The library's induction theorems take a predicate as a parameter and cannot be
instantiated here, so induction runs over the *set* of trees (or numbers) for which a claim holds.
`Induction` derives from well-foundedness that a set with 0 and with every successor is `Nat`;
`Levels` shows that the levels of trees exist and unfolds them, `TreeShapes` that a tree is a feature or
one of three operators over trees, and `TreeInduction` that a set closed under these holds all trees.
That each recursive definition has the value it says is itself proved, level by level
(`NodeCountRecursion`, `CollectRecursion`, `TokensRecursion`, `EvaluateRecursion`,
`ReplaceRecursion`; for the parser backwards from the last position, `ArgsAtRecursion`). On these rest

- *causality*: `Agree` says that two panels, one of them cut off behind a day, have the same value
  for an expression on every day that both have. A date some places back (`DaysAgree`), a rolling
  window (`RollAgrees`) and a ranking (`RankingAgrees`) keep it, so every tree does
  (`ValuesAgree`), and so does the list of dates with enough tickers;
- *grafts*: `Landed` says that the graft stands at its place in preorder, and that the size has changed
  by the difference of the two sizes alone. If it lands in an argument, it lands in the whole
  (`LandsAbove`), by where the arguments stand in the list of subtrees (`Joined`, `Headed`);
- *text*: `ReadAs` says that wherever the tokens of a tree stand in a longer text, the parser
  reads the tree and stops behind them. The wider claim is what makes the induction go through: the
  text of an argument is read in the middle of its operator's (`FoundPieces`, `UnaryRead`,
  `TimeSeriesRead`, `BinaryRead`);
- *novelty*: a subtree shared with a known factor counts in `Similarity`; one that is the whole of the
  expression is as large as the expression, which the threshold does not allow (`AdmittedIsNew`).

**Years.** Ranks are counted instead of sorted: `StandingFacts` shows that sets that grow one at a time
along the names give each name a standing of its own, from 1 to their number, and that a window
of standings holds as many names as it is long. For the NYSE sizes this makes `RankedCap` the k-th
smallest and a decile the names between two cuts (`DecileFacts`); `CutFacts` shows that
cuts rounded to the even neighbour lie in order and differ by at most one name, whatever the number of
deciles. For a leg it gives equal size, disjointness and order (`EndsFacts`).

Checked on the runs and proved for every value of the constants: `StampsMatchStatus`,
`LocksOnlyAfterRace`, `LifecycleSpec`, `TrailInOrder`, `MetricsKept`, `ForkedIffOverlapped`,
`ForksStay`, `VerifiedHistory`, `NeverHalfWritten`, `FailsOnlyUnsettled`, `TemporariesAccounted`,
`Polite`, `OnlyAskedRows`, `NothingSilentlyMissing`, `NamesAreAccounted`, `CompaniesOnce`, the four
properties of `research`, all six of `discovery` and all twelve of `records`. The type invariants, `EdgarIsPolite` and `HonestNeverRefused` are
proved for every value of the constants, and the runs spend their time on others.

### Only model-checked

- *Liveness*: `EveryCallReturns`, `EveryFetchEnds` (liveness under fairness and `ENABLED` are outside
  what the prover can do).

The three findings of section 6 are counterexamples, and there is nothing to prove of them; each is
confined by a theorem where one holds (`ImplementsLifecycle`, `OneWriterVerifies`,
`ThePastIsSettled`).

## 6. Where code and documentation disagree

Three runs check what a test or a comment says and find a behaviour of the code that breaks it.

1. `registry_terminal` / `RetiredIsTerminal`. `tests/unit/test_signal_registry.py:79` says
   "test_any_status_can_retire_and_retired_is_terminal". Two connections read a signal, one
   retires it, the other saves its row: the signal is back (`signal_registry.py:213`). With one
   caller per name this cannot happen (`ImplementsLifecycle`).
2. `audit_fork` / `FalseOnlyIfTampered`. `audit.py:76` says "return False if anything was
   tampered". Two overlapping records share a `prev_hash`, and `verify` is False for ever
   (`audit.py:57`). With one writer this cannot happen (`OneWriterVerifies`), and overlap is the
   only cause (`ForksComeFromOverlaps`).
3. `edgar_rewrite` / `NeverRewritten`. `edgar.py:10` promises that a restatement "must NOT rewrite
   the value history". The tag of a period is resolved before filing dates are compared
   (`edgar.py:203`), so a later filing under a preferred tag replaces the value and moves its
   report date.

Further places where the code does less or other than a reader of its documentation expects. They
are part of the models as the code has them.

- `monitoring/audit.py:6` says that "any later edit or deletion is detectable", and `:76` that `verify`
  is False "if anything was tampered". `verify` is True of a log whose last entries were removed, and
  of one whose chain was hashed anew from an altered entry to its end (`Rewrite`); nothing outside the
  file holds its length or its last digest. What does hold is `VerifiedHistory`: a digest still
  found in a log that verifies vouches for everything before it, so a caller that keeps the digest
  `record` returned can tell.
- `data/wrds/source.py:284`: adjusted closes are anchored at the last close of the *whole* daily table,
  rows after the window included, so the level of a past window moves with later trading, dividends and
  splits (and by the floor for an index that is zero). The returns between its bars do not, which is what
  `PricesPointInTime` says. The platform uses ratios, with one exception: the feature
  `adjclose` of `signals/discovery/factor_dsl.py:84` is the level itself, so a mined factor that compares
  it across names can see what came later. `ScoresAreCausal` is about the bars an expression is given.
- `signals/validation/backtest_runner.py:289`: without an audit log nothing is recorded, and the results
  are written all the same; this is the default of `pipeline/real_backtest.py`, and
  `tests/unit/test_real_backtest.py:38` relies on it. `ResultsAreAudited` speaks of callers that give
  a log.
- `data/wrds/client.py:136`: a `max_rows` of 0 or less returns an empty result that is not marked
  truncated. `NothingSilentlyMissing` is about callers that ask for rows.
- `portfolio/constraints.py:12` calls the position cap a "fraction of gross"; `enforce` and
  `violations` compare it with the weight itself, which is the same only at a gross of 1.
- `signals/discovery/quanta_alpha.py`: with `generations` of 0 the candidates are counted before any is
  evaluated, and the count is 0 beside a hall that is not empty (`HallIsBest` says so).
- `portfolio/constraints.py:21` calls its fields hard limits; `max_turnover` is only reported by
  `violations`, and `enforce` never reads it.
- `portfolio/risk.py:37` and `:61` describe losses as positive numbers; without a losing scenario both
  functions return a gain as a negative number.
- `backtest/seasonal.py:38` and `:39`: a leg is checked against `MIN_LEG` before the names without a
  return are dropped, so a reported leg may be smaller.
- `universe/small_cap.py`: with fewer NYSE names than deciles there are no breakpoints, and every
  member is in decile 1.
- `signals/combination/signal_selector.py`: a name given twice in the priority order conflicts with
  itself (the property takes priorities without repetition).
- ICs that never vary have a p-value of 0 but no ICIR, and fail test #2.
- `truebeats.py` takes estimates of any age into the consensus; `analyst_accuracy.py` likewise.
- `utils/hygiene.py:7`: raw year-to-date flows pass the differencing check if at least half of the
  complete years contain a quarter without a positive flow, and flows that really rise every quarter
  are refused. `CertificateIsEvidence` names this exception.
- `docs/TESTING.md:56` wants a signal to be "not just a sector bet"; a signal that only ranks sectors
  has no sector-neutral IC, and test #7 does not judge it (`SectorsDoNotCount` says so).
- `signals/construction/supply_chain_signal.py` calls itself point-in-time safe; its links carry no
  dates.

## 7. What is not modelled, and why

- *Numbers.* Student's t distribution, the expected maximum of many trials, decay fits, inverse
  volatilities beyond their order, weights of three and more signals (a matrix inverse), factor values
  and the return statistics of a backtest are real-valued; the models leave their outcome open
  where it decides something (a verdict, a fitness).
- *Other constructors* (`ownership_signal.py`, `supply_chain_signal.py`): one weighted mean and one
  difference, over data that no implemented source serves yet.
- *FactSet*: the client repeats the HTTP loop without its polite interval, most of the source raises
  `NotImplementedError`.
- *Fixtures, interface, logging, settings, scripts, stubs, the compliance scanner*: no state a
  property could be about.
- *Paging over a changing table.* `data/wrds/client.py:161` follows offsets; what the API guarantees
  between two pages of one fetch is not visible in the repository, and the model serves one fixed
  sequence per fetch.
- *Proposals.* The miner's proposals are draws like others; one that names an unknown feature raises
  in the code, where a docstring says it is ignored, and the model has the raise as a step. Whether a
  population can be refilled at all depends on the draws.
- Inside modelled components: the floor of a price, highs, lows and volumes of bars, screens and conversions of IBES beyond the
  ones a row passes or not, the standardisation and weights of the components of TrueBeats, the
  regularization penalty of the filter, field validators of the record types.

## 8. Plan

Done, in this order: registry and lifecycle; audit log; artifacts; HTTP and WRDS clients; splits,
guard and research run; vendor records; expressions and miner; public source; a proof module
for every state machine except the records and the miner; then analysts' estimates, validation,
combination, portfolio, universe, yearly spread and certificate, and the records of vendors and
desk in one specification; then the proofs of the miner, of the trail, the history and the metrics, of the
ranked universes, and of all properties of the records; then the expression language rewritten
over recursive functions, and the proofs of its properties for every tree.

Next, proving: what the extensions below add, with their invariants.

Next, extending the model:

1. The verdict of `Validation` in place of the open one of `ResearchRun.Backtest`, which needs scores
   with values in the research run.
2. The return statistics of the backtest runner on exact fractions.
3. The sources behind the other signal constructors, once the repository has them.
