# TravelMCP: specifications, model checking and proofs

TravelMCP answers "how do I get from here to there" for public transport. It
imports timetables and stop registries into PostgreSQL, reconciles them into a
canonical set of terminals, routes and trips, and plans journeys over the
network of a day. This directory holds TLA+ modules of the parts of it whose
correctness depends on order, concurrency, failure or search; TLC
configurations that check them on small instances; and TLAPS proofs of what
they guarantee on every instance.

The modules are translated from the Go and SQL sources. Where the documents
and the code disagree, the modules follow the code and a run shows the
disagreement (see "What the code does and a document does not say").

Contents: 1 the system; 2 the modules; 3 the runs; 4 fairness; 5 the proofs;
6 disagreements; 7 what is not modelled; 8 the plan.

## 1. The system

The programs are `mcp-server` (HTTP and MCP server, with the job worker inside
it), and the batch commands `trips-sync`, `skeleton-sync` and `gtfs-import`.
They share one PostgreSQL database and otherwise do not know of each
other: all interaction is through rows.

| Component | State | Operations | What makes it hard | What makes it correct |
|---|---|---|---|---|
| Job queue and worker (`internal/jobs`, `ClaimNextJob`, `MarkJob*`) | `jobs`: type, state, payload hash, attempts, next_run; per worker the row it holds | enqueue by upload or admin; claim; pay a provider; run the handler; mark done, retry or dead | several servers claim at once; a server killed mid-job; errors that are dropped; a unique index that also guards the claim | a job in one hand at a time; settled stays settled; no upload imported twice at once; every job settles |
| API quotas (`TryConsumeQuota`, `SetQuotaLimit`) | `api_quotas`: used and limit per provider and day | consume, set limit, change of day | callers with different limits share a row | never more spent than the largest limit in use |
| Trips sync (`internal/sync/trips_*.go`) | `trips`, `staging_trips`, `review_queue`, `sync_runs`; the report of a run | begin, attach, compare, promote, stage, review, tombstone, finish | one transaction per trip and none around the run; two runs at once; a snapshot older than the writes; errors the store swallows | after a run the canon is what it promoted, but for tombstones passed over; losses are bounded; held-back trips are accounted for |
| Staging expiry (`staging_expiry.go`) | `staging_trips.state` | expire rows not seen for long | runs between and during syncs | only stale rows are dead letters |
| Stop matching, trip validation (`trips_attach.go`, `verification`) | none | match stops, backbone, monotonic times, speed | thresholds, vetoes, missing places | nothing is verified on a name alone; what is published can be driven |
| Planner (`internal/planner`) | labels, predecessors, queue; marked stops and rounds; the answer so far | choice of stops; csa, raptor, reconstruct, buildLegs; planArrival, paretoAlternatives | labels improved after others were derived from them; day shifts; implausible hops; rings of footpaths; a search backwards by trying | answers can be travelled, none is earlier, one always comes, and a deadline is kept |
| Server's network of a day (`networkForDay`, `LoadNetwork`) | one network with its day | read five tables, keep; or merge the providers' | reads without a transaction; callers who go away; days of two zones | every trip rides as some edition of it did; the network is of the day asked for |
| Skeleton (`cmd/skeleton-sync`, `internal/skeleton`, `skeleton_promote.go`) | plan, chunk rows, log of operations, terminals | collapse, join, promote by chunks, resume, match the legacy terminals | killed between three statements; another plan after a restart; pages of a join | no chunk lost; a terminal once; the pages are the join |
| GTFS import, export (`gtfs_import.go`, `internal/export/gtfs`) | canon | import row by row; write a feed | dies between two statements, within a row too, and is begun again; rows passed over; names written unquoted | converges, but for one stop; a feed that can be read back has the same rides |
| Register of the ministry (`internal/adapters/mintrans`) | none | contract, compare editions, flatten | days of blocks, cells and services at once | a run is served on its days |
| Intercity provider, registry (`internal/providers`) | none | build the network of a day; validate; merge | clock times without days; hops and trips built side by side; names used twice | times forward through every midnight; hops of their own trips |
| Geocoder (`internal/geocoder`) | cache entries, a lock per key, quota | look up, revalidate, fall back | many callers, some of whom give up; quota; old answers | one call per key while the answer lives |
| Rate limiter (`middleware/ratelimit.go`) | a bucket per client and path | allow | idle buckets, bursts | never over burst and rate |
| Accounts and keys (`server.go`, memory store) | users, index by email, API keys | register, log in, auth, moderate, patch, delete | handlers of several store calls side by side | one account per email, found by it |
| Geo index, footpaths (`geo/index.go`, `BuildWalkTransfers`) | grids | nearest, pairs, links | borders of cells, cells narrower than tall | no pair in reach is lost |
| Other adapters, geo resolution, pricing, configuration, logging, telemetry | none | HTTP calls and pure functions | failures of services | outcomes of the callers |

How they interact: an upload handler of the server inserts into `jobs`; the
worker of any server claims the row, pays `api_quotas`, runs the handler (GTFS
import, trips sync attachment, cleanup); cleanup is the staging expiry, and so
writes the rows a `trips-sync` process may be writing at the same time;
`skeleton-sync` makes the terminals that matching puts stops on; a promotion
writes stops, routes and times that the server reads, at any moment, into the
network of a day that it hands to the planner.

The hazards of this code, each at its line with the properties that would
catch it going wrong, are listed in `PROJECT.json` under `hazards`.

## 2. The modules

### 2.1 The job queue: `ApiQuota`, `JobQueue`, `JobBoard`

`JobQueue` EXTENDS `ApiQuota`, as the worker and the admin route spend the same
rows. Its variables are the columns of `jobs` and the locals of each worker's
`RunOnce`; every database statement of a worker is a step of its own.

| Action | Code |
|---|---|
| `Enqueue` | `EnqueueJob` behind the upload and admin routes; a clash with `uniq_jobs_type_payload` inserts nothing |
| `LockJob`, `ClaimJob`, `ClaimFails` | the two statements of `ClaimNextJob`: `SELECT ... FOR UPDATE SKIP LOCKED`, then the `UPDATE` that counts an attempt and may break the unique index |
| `QuotaGranted`, `QuotaRefused`, `NextProvider` | `withQuota` with the rotation of `providersForJob` |
| `HandlerReturns` | the branches of `RunOnce`: success, rate limit, failure, giving up |
| `Mark`, `MarkLost` | `MarkJobDone/Retry/Dead`, and their dropped errors |
| `Crash` | a server killed at any statement and restarted |
| `OtherConsumer`, `OtherLimit`, `Midnight` | the other users of a quota row, and `CURRENT_DATE` |

`next_run` is kept as far as the claim's `ORDER BY` sees it: which rows are
due, and which came due before which. The backoff has an unspecified length.
`JobBoard` is the promise: posted once, held by one worker, given back or
closed for good. `JobQueue!ImplementsBoard` is the refinement.

### 2.2 Trips sync: `TripSync`

One process per element of `Runners`. A run is begun with any file (`Begin`),
attached under any region filter and any gate (`Attach`, `Attachable`,
`Filtered`), compared with the canon as it is read then (`Compare`, `Alert`),
and written: `Promote`, `Stage`, `Review`, `Tombstone`, one transaction or
statement each, in the order of `PersistAttachReport` (`Before`, `Takes`).
A failing statement ends the run (`StatementFails`, `Fail`), as a kill does
(`Crash`), with two exceptions, where the store swallows the error and the run
goes on to end done: `FindRouteID` and `FindTrip` read an error as "not found",
so that a tombstone is passed over (`TombstoneMissed`), and `UpsertStagingTrip`
takes an older row for the one it could not write (`StageMissed`). The history
variable `missed` says which; only properties read it. `GrowOld` and
`ExpireStaleStagingTrips` are the cleanup job. The verdict of matching and
validation is a free choice among `Verdicts`: what holds, holds whatever they
decide. Trips are natural keys, distinct within a file. A dry run writes
nothing and is left out.

### 2.3 The planner: `Itinerary`, `ConnectionScan`, `Timetable`, `Raptor`, `Traveller`

- `Itinerary`: the request with the network it is searched in, the labels
  (`arr`, `pred`), and what both engines do with labels at the end:
  `reconstruct` (`StepBack`, one step per predecessor), `buildLegs` (`Legs`,
  `Starts`, `Ends`) and the transfer limit (`Answer`).
- `ConnectionScan`: `csa`. `Relax` is one iteration of relax's queue, `Ride`
  one of the connection loop, `ScanEnds` the end of it. The connections of one
  minute come in any order, because the sort leaves that open.
- `Timetable`: the part of `LoadNetwork` that makes connections out of stop
  times, and the move of a departure to a later day.
- `Raptor`: EXTENDS `ConnectionScan` and `Timetable`; `PickTrip` chooses the
  trip of a route, `RideOn` rides one hop and tries the footpaths from its end,
  `NextRound` and `EndRounds` close a round, the latter falling back to `csa`
  when the target has no predecessor. The map of routes is ranged over in any
  order, so `PickTrip` takes them in any.
- `Traveller` composes the scan with somebody who, once it is over, takes any
  rides and walks whatever. "The scan finds the earliest arrival" is then an
  invariant, `EarliestArrival`, in place of a quantification over paths.

Times are minutes since the midnight of the network's day; a missing label is
0, as Go's zero time compares before every other. Coordinates, fares, names
and currencies are not state: which hops are implausibly fast, which modes are
allowed and which stops are provisional is part of the request.

### 2.4 The answer around the engine: `PlanAnswer`, `StopChoice`, `WalkGrid`

Sequential algorithms share `Enquiry`: a question, chosen from the family a
configuration gives, and its answer. `Algorithms` is the disjunction of them
all; `MCAlgorithms` gives the families.

- `StopChoice`: `ChooseStop` is the first part of `planWithStops` with
  `findStopByPlace`, `pickBest`, `chooseBestStop` and `chooseBestToStop`.
- `PlanAnswer`: the rest of it, in the steps it takes. `FindFirst` and `FindNone` are
  the first search (`planArrival` tries the departures within the `Window`
  before the deadline), `FindAlternative` one round of `paretoAlternatives`,
  `ChooseAnswer` the selection and the gap on foot. The engine is taken by
  what it promises and `ConnectionScan` shows.
- `WalkGrid`: `LookAround` is the spatial index (`Nearest`, `NearbyPairs`),
  `LinkStops` is `BuildWalkTransfers`. The index stores a stop under the key of
  its column and row and looks for it under keys put together differently, which
  agree in rows that are not negative only (`KeyColumn`).

### 2.5 Matching and the skeleton: `Names`, `StopMatch`, `TripAttach`, `SkeletonJoin`, `SkeletonRun`

- `Names`: `namesim`, on words: similarity of cores for `ScorePair`, of whole names
  (`NormalizedSimilarity`) for the join. How far two spellings are apart is not
  modelled.
- `StopMatch`: `ScorePair` with its weights, trust, guards and bands, and
  `MatchStopToTerminal`; `Covered` is the count of `coverage_attach.go`.
- `TripAttach`: `AttachTrips` from the index of terminals and the geocoder's
  fall back to the verdict of every trip and the churn of the report. The
  candidates of a stop come in the order the code builds them: by cell, then by
  code, then those without a place (`Turn`). What `TripSync` leaves to chance is
  computed here.
- `SkeletonJoin`: `Collapse` (the union-find of `osm.go`, pair after pair),
  `JoinSources` (the join in memory and the pager of `join_stream.go`, which must
  agree and differ in nothing but the candidates and their `Turns`),
  `InterpolatePosition`.
- `SkeletonRun`: the command. Its actions are the statements between which it
  can be killed: a chunk's transaction, the completion of its row, the line in
  the log, the steps of phase 0. A process is started again with a new run or
  the old number, and perhaps another plan; what Overpass knows may change at
  every start.

### 2.6 Feeds and registers: `GtfsFeed`, `Intercity`, `Reestr`, `ProviderMerge`

- `GtfsFeed`: `Import` cuts an import off between any two statements (after
  `question.cut` rows and `question.part` statements of the next, `Torn`), begins it
  again and compares it with one that did not die. `WriteStop` and `WriteService`
  are the rows of several statements: a stop's terminal, code, primary mark, stop
  and name, and a service's seven days. A terminal without its code is found by
  nothing and only counted (`strays`). `Export` compiles a feed of a network and
  reads it back; names are left out but for which files have one that needs
  quoting (`quoting`), since the region's export quotes nothing and the reader
  refuses a row of other columns (`unreadable`). The compiler puts the times of a trip in the order of the text
  of their numbers (`ByText`), the region's export leaves them in their places
  (`ByPlace`), and the reader sorts them by number (`BySeq`).
- `Intercity`: `BuildNetwork` is the provider's network of a day.
- `Reestr`: `CompareEditions` (contract and churn), `Flatten` (`FlattenTrips`).
- `ProviderMerge`: `MergeProviders` is the renaming merge of `networkForDay`,
  provider after provider (`Merged`); the hops and footpaths of a network are
  sets, whose order nothing depends on.

### 2.7 Parts that run beside each other: `NetworkCache`, `GeocodeCache`, `RateLimiter`, `Accounts`

- `NetworkCache`: the readers of `LoadNetwork`, one action per query, beside
  the transactions of a promotion (`PersistTrip`) and `TombstoneTrip`.
  `CancelLoad` is a caller who goes away; after it the first three queries
  fail, and the last one breaks off anywhere without anybody noticing.
- `GeocodeCache`: `GeocodeCached` and `revalidate`, cut where another goroutine
  or the caller's context can come between; stations are looked up without a
  lock.
- `RateLimiter`: a bucket in parts of a token; a look is one step because it
  is made under the bucket's lock.
- `Accounts`: every handler of accounts and keys as the store calls it makes,
  each of them atomic in the memory store.

### 2.8 Module graph

    ApiQuota <- JobQueue <- MCJobQueue          JobBoard <- (INSTANCE) JobQueue
                JobQueue <- JobQueueProofs
    TripSync <- MCTripSync, TripSyncProofs
    Itinerary <- ConnectionScan <- Traveller <- MCConnectionScan (with Timetable)
                                   Traveller <- ConnectionScanProofs
                 ConnectionScan <- Raptor (with Timetable) <- MCRaptor, RaptorProofs
    Enquiry <- PlanAnswer, StopChoice, WalkGrid, GtfsFeed, ProviderMerge,
               Intercity <- Reestr
               StopMatch (with Names) <- TripAttach, SkeletonJoin
               all of them <- Algorithms <- MCAlgorithms, AlgorithmsProofs
    SkeletonRun <- MCServices, SkeletonRunProofs
    NetworkCache, GeocodeCache <- MCServices, CacheProofs
    RateLimiter, Accounts <- MCServices, ServerProofs

Operators that are introduced by a comment "Mutant:" are plausible slips of the
code (a forgotten lock, an off-by-one, a missing reset). They are used by no
specification; `PROJECT.json` pairs each with the property that notices it.

## 3. The runs

| Run | Expect | What it shows |
|---|---|---|
| `JobQueueFaults` | pass | Two workers, three rows, a shared quota, crashes and lost Mark statements: no row in two hands, no upload imported twice at once, settled rows stay settled, the quota is bounded, retries cost what they cost, and the whole is a `JobBoard`. |
| `JobQueueSettles` | pass | Nothing crashes, uploads carry no hash, quotas suffice: every job ends, and a running row always has a live worker. |
| `JobQueueReupload` | violation of `JobsSettle` | A second upload of a file whose job waits for a retry stops the whole queue. |
| `TripSyncAlone` | pass | One run at a time, crashes anywhere, all verdicts: swallowed errors: canon, staging and reviews after a finished run, bounded loss even in an unfinished one, dead letters are stale. |
| `TripSyncSideBySide` | pass | Two runs at once: trips come alive only from a file. |
| `ConnectionScan` | pass | 960 requests over networks with overnight trips, rings of footpaths, provisional stops, excluded modes and implausible hops: answers connect, can be taken, nobody arrives earlier, and the search ends. |
| `Raptor` | pass | The round-based engine with its fallback, over networks without implausible hops: answers connect and are made of the timetable's hops on some day, and the search ends. |
| `RaptorPhantom` | violation of `ItineraryConnects` | With an implausible hop the answer may begin at a stop nobody reached. |
| `Algorithms` | pass | The sequential algorithms, each over its family of questions (below). |
| `Services` | pass | The parts that run beside each other, each in all interleavings (below). |
| `SkeletonRestart` | violation of `OneTerminalEach` | A chunk promoted again, after a kill, under another plan or by a second run, has its terminals in the canon twice. |
| `NetworkDay` | violation of `RunsOnTheDay` | A request for the first hours of a day in its own zone is told the network of the day before. |

`Algorithms` checks, of the answers to its questions:

| Property | Module | What it says |
|---|---|---|
| `HonoursTime` | `PlanAnswer` | The first journey keeps a deadline if the earliest arrival is preferred, and without a deadline never leaves before the time asked for. |
| `VillageLast` | `StopChoice` | A village's stop, unless it is a hub or an origin, is chosen only where no town's stop of the index can be walked to, and none beyond the limit of walking. |
| `IndexFindsAll` | `WalkGrid` | The spatial index returns no stop out of reach, and all those in reach that are not south of the equator, across the borders of cells. |
| `LinksComplete` | `WalkGrid` | Exactly the pairs within reach where one may change are linked, both ways. |
| `RunsKeepTime` | `Intercity` | Through any number of midnights the times of a run go forward and by less than a day at a time, and the hops that are ridden are those of the trips that are shown, but for the too fast. |
| `ServedOnItsDays` | `Reestr` | A flattened run goes on the days of its cells, blocks and service, or not at all. |
| `VerifiedHasGround` | `StopMatch` | What nobody located is verified by a code only, and one voice alone by a place or a code. |
| `PromotedIsDrivable` | `TripAttach` | What is published goes forward in time and no faster than the limit, across gaps too. |
| `ClustersAreChains` | `SkeletonJoin` | Stops are merged exactly when a chain of near ones connects them. |
| `PagesAreTheJoin` | `SkeletonJoin` | Where ties and the reach of the pages do not matter, the join by pages is the one in memory; no station is joined twice. |
| `ImportConverges` | `GtfsFeed` | An import that died between any two statements, begun again, ends in the same canon but for one stop: a terminal without a code, a code that is not primary, or a stop without a name. |
| `ExportKeepsRides` | `GtfsFeed` | The compiled export can be read back, the region's if no name of a stop needs quoting; what is read has the rides of the network, and a compiled feed can be imported whole. |
| `HopsOfTheirTrips` | `ProviderMerge` | After the merge's renaming every hop is of a trip that has it, if every provider's own network is sound (`Sound`) and the name of a dropped trip is not taken later (`NoHomonym`). |

`Services` checks `NothingLost` (`SkeletonRun`: every record of a
finished run's outcome is in the canon or in review, however often it was
killed and resumed, provided Overpass told all processes of its plan the same), `WithinRate`
(`RateLimiter`: over any span of time a bucket lets pass its burst and its rate
at most), `OneCallPerLife` (`GeocodeCache`: a query is not fetched again while
its answer lives), `RidesOfOneEdition` (`NetworkCache`: no trip told to anybody
is a mixture of two of its editions) and `EmailsAreOwn` (`Accounts`: an email
finds the one account that has it).

Deadlock is checked in the runs of the queue and of the sync: days and cleanups
go on there, so the check says only that no state is without any step. The
planner's searches and the questions of `Algorithms` end with their answers, and
the parts of `Services` come to their bounds (starts, ticks, hours, writes,
account numbers); their configurations say so.

### Bounds

- `AttemptsBound`: no row above it is claimed. `GiveUp` is 5 in the code; the
  faulty run uses 3 with a bound of 5, the fair run uses 5 with a bound of 8,
  which no row reaches, so the bound does not cut off a behaviour there.
- Two workers and three rows: the claims of two workers interleave at every
  statement while a third row shares the hash of one they hold. `Limits` has
  two values, so that a row may be created by one caller and lowered by another.
- Trips sync: two trips of one route, one of which crosses into a second
  region. The churn threshold of 50 percent is both met and exceeded with two
  trips. The state space is finite without a bound on the number of runs.
  `Forgettable` bounds which staging rows may grow old; with one trip in it
  there is always a row that does and one that does not.
- Planner: four stops and three trips are the smallest network in which a trip
  is caught by a walk, overtaken by another trip and left at a stop in its
  middle; `Day` is 12 minutes so that trips run past midnight within the run,
  the traveller's `Horizon` is one such day. `Raptor` uses the code's default
  limit of 100 rounds, which the searches never need: they end because nothing
  improves.
- `Algorithms`: the families of questions in `MCAlgorithms`. Lengths of time
  are scaled (a day of 6, a week of 3, a departure window of 6) so that a run
  crosses a midnight and a window has an edge within a handful of values; places
  are points on a line or a small grid, with cells a few points wide, so that
  pairs lie in one cell, in neighbours and two cells apart; scores keep the
  weights and thresholds of the code, in ten-thousandths. Every family has each
  case its algorithm tells apart with a neighbour on either side of it. The
  index is asked on both sides of the equator. Imports die between any two rows and
  within those of a stop (after one to four of its five statements) and of a
  service, into an empty canon or over an earlier edition; exports have the names
  of no file, of routes or of stops in need of quotes. Plans
  have at most two rides, trips at most four stops, skeletons at most four
  records, feeds at most three trips.
- `Services`: three starts of the skeleton's command (`Starts`), so that a run
  is killed, resumed under another plan, and followed by a new one; four ticks
  of the limiter with two buckets of different burst and rate; four hours of
  the geocoder (`Hours`), which outlive both kinds of answers, a quota of three
  for two queries; two readers and two writes (`MaxWrites`) to the canon, so
  that a writer comes between any two queries of a reader that another overlaps;
  four account numbers for one email. The two who ask are alike, and the
  configuration says so by a symmetry; nothing temporal is checked under it.
  The parts share no state, so a behaviour is one part's while the others rest:
  the run explores the sum of their state spaces and not the product.

## 4. Fairness

- `JobQueue!Fairness`: the ticker of `Worker.Run` calls `RunOnce` every five
  seconds as long as the process lives, and `RunOnce` is a sequence of
  statements the database answers: `WF` of each worker's next step. Backoffs
  pass (`WF` of `ComeDue`) and so do days. Nothing is assumed of those who
  enqueue or spend quota, and the claim is fair to a row only because it takes
  the earliest one.
- `ConnectionScan!Spec`, `Raptor!RaptorSpec`, `Traveller!TravelSpec`: a search
  is a sequential function; it takes its next iteration. Nothing is assumed of
  the traveller.
- `TripSync` and `SkeletonRun` state no liveness: a run that dies is started
  again by an operator.
- `PlanAnswer` and the other algorithms are functions of their question; what is
  asked of them is asked of the answer.
- `NetworkCache`, `GeocodeCache`, `RateLimiter` and `Accounts` state none
  either: callers may go away at any step, and nothing in the code waits for
  something another has to do, but for a key's lock, which its holder always
  gives back (`HoldsItsLock` in `CacheProofs` says who that is).

## 5. The proofs

Proved by TLAPS for every value of the constants that satisfies the named
assumptions. `PROJECT.json` lists each theorem with the property it states.

**`JobQueueProofs`**, for any sets of jobs, workers, kinds and providers, with
or without faults (`JobQueueAssumption`, `ApiQuotaAssumption`): `TypeCorrect`,
`MutualExclusion`, `NoDoubleImport`, `SettledNeverReopens`,
`QuotaNeverOverspent`, `BudgetIsSpent`, `QueueImplementsBoard`; and
`NothingOrphaned`, assuming `~Faulty`. `NoSharedJob` alone is not inductive: the
row a worker is about to mark could, for all it says, be claimable. `IndInv` adds
`RowFollowsWorker` (a locked row is waiting, an executed one is running),
`HoldsRow`, and `HashesDistinct` (the unique index as an invariant of the
table). The retry budget needs the parity of `attempts`: a running row is at an
odd count and a waiting one at an even count, because the claim and the retry
both count.

**`TripSyncProofs`**: `TypeCorrect`, `DeadLettersAreStale` and
`OnlyTheSourceResurrects` for any number of runs side by side;
`FinishedRunDecidesCanon`, `FinishedRunAccounts` and `LossStaysBounded`
assuming `Alone` (one process), with kills, failing statements and swallowed ones
anywhere. So the canon after a finished run is not the promoted set alone: a trip
whose tombstone this run passed over may be live beside it, and no trip that an
earlier run passed over; and a trip held back may have an older staging row. The
first need `WorkIsReported` (what is left to
write comes from the report) and `OfTheFile` (a verdict is about a trip of the
file). The others rest on `Follows`: at every point of a run what is no longer
to do has been written or is in `missed`, what is live is promoted, still to be
tombstoned or in `missed`, and what is missing is within the threshold. It relates the tables to the progress
of a run and survives a crash because the next run's list is computed from the
canon as the crash, or the tombstone passed over, left it.

**`ConnectionScanProofs`**, for every network and request (`RequestsAssumption`,
`TokensAssumption`, `HorizonAssumption`): `TypeCorrect`, `AnswersConnect`,
`AnswersAreTakeable`, and `NobodyArrivesEarlier` assuming `RidesTakeTime` (no
hop arrives in the minute it departs in; section 6 says what happens with
such hops).

- Soundness: `Witnessed` says why a stop has its label: it is the start, or its
  predecessor is a ride or a walk from a labelled stop whose label is early
  enough. A label that is improved later only moves earlier, so witnesses stay
  (`ImprovedKeepsWitness`). `Traced` says the same of the steps traced so far.
- Completeness: `ClosedRides` and `ClosedWalks` say the labels are closed under
  everything scanned so far, apart from the stops still queued. `InOrder` and
  `Late` keep it so: an improved label is later than every departure already
  scanned, so no scanned connection becomes boardable again. Once the scan is
  over the labels are closed under everything, and no step of the traveller
  leaves them behind. The traveller turns an induction over the length of a
  path into a step of a state machine.

**`RaptorProofs`**, for every network, request and limit of rounds
(`RaptorAssumption`: the connections are those of the timetable; `DayAssumption`):
`RaptorInvariance`, `RidesAreOfTheTimetable`, and `RoundsConnectAnswers`
assuming `NoneTooFast` (no hop is implausibly fast; `RaptorPhantom` shows that
it cannot do without). `RaptorInvariant` covers the rounds and the scan they
fall back to. `Grounded` says why a stop has a predecessor: a walk from a stop
with a label, or a hop of the timetable on some day that arrives when the label
says; `StepsStand` says the same of the steps traced so far. That is enough for the
timetable. For `ItineraryConnects` the labels must also be `Rooted`, every
label but the start's having a predecessor that is left in time from a stop with a
label; and the trip the engine is aboard must have been reached where it was boarded
(`AboardReached`), which is what the implausible hop breaks. The day shift is
`WholeDays`: a missed departure moves by whole days, to a time not before the
one it was missed at.

**`SkeletonRunProofs`**, for any plans, records, sizes of chunks up to the code's and
number of starts (`SkeletonRunAssumption`): `SkeletonInvariance` and
`NoRecordIsLost`. `NothingLost` says what has happened when phase 0 begins, and
nothing of how a run got there. `DoneLanded` says of a row that is done that
some process of its plan had that chunk and the chunk has landed. It survives every
kill because the transaction lands a chunk before its row is completed.
`PassedLanded` says the chunks before the one at hand have landed, by this
process or, skipped, by an earlier one. The skip trusts the row's key: it is
sound only if all processes of the plan had one outcome, which is the
condition `NothingLost` has. `PromotedLanded` carries the chunk at hand from
its transaction to its line in the log.

**`CacheProofs`**: two protocols of reading beside writers.

- `GeocodeCache`, for any callers, keys, quota and times to live
  (`GeocodeCacheAssumption`): `GeocodeInvariance`, `OneCallWhileItLives`. Two
  callers could each find the entry stale and fetch; `HoldsItsLock` says who is
  between look and keep of a query holds its lock, `GoesWhenDue` that what it
  found stale is stale still (entries only get older, and nobody else may
  write), `KeepsTheLast` that the entry is the last one fetched, and `Spaced` is
  the property over the whole past.
- `NetworkCache`, for any callers, trips, stops and number of writes
  (`NetworkCacheAssumption`): `NetworkInvariance`, `NetworksRideOneEdition`.
  `RowsAreEditions` says that the rows of a trip are always calls it was once
  given at once: a promotion deletes and writes them in one transaction.
  `ReaderInvariant` says, of each reader, that what it holds goes with such an
  edition (`ReadKeepsToEditions`) although its queries see different states of
  the canon: all calls come from the last query, the trips of an earlier one are
  still there when it is made (`ReadIsOfRows`, nothing deletes a trip), and stops
  unknown to the first one are only left out. That leaving out and breaking off
  keep the order of an edition is `PartsRide`, which rests on `NthIsRanked`, a
  lemma about the n-th of a finite set of numbers. `KeptKeepsToEditions` and
  `ToldKeepsToEditions` carry it into the cache and to everybody who is answered
  from it; editions are only added to (`EditionsStay`).

**`ServerProofs`**: two components of the server.

- `RateLimiter`, for any buckets, bursts, rates and length of the clock
  (`RateLimiterAssumption`): `LimiterInvariance`, `RequestsWithinRate`.
  `WithinRate` compares what was let pass with what it was at the beginning of
  every earlier tick, and says nothing of the tokens held; `PaidUpTo` adds
  those: what is held now and what was paid since a tick are together within the
  burst and the gain since then, up to the last look at the bucket. The gain
  from then to now is added by the next look, which caps it at the burst. The
  solver knows no products; the two facts needed (`Split`, `OneMore`) are
  lemmas.
- `Accounts`, for any callers and emails (`AccountsAssumption`):
  `AccountsInvariance`, `AccountsAreByEmail`. The inductive part is
  `EmailFinds`, and that a number in a request may be of an account deleted
  since: handlers look before they act, so what they looked at is only known to
  have existed.

**`AlgorithmsProofs`**, for every family of questions. A question is put once
and answered once (`Stays`, `Answering`), so a theorem about answers is a theorem
about the one step that answers, and each rests on lemmas about the operators of
that step. Where an operator is a recursive function over the positions of a
sequence, what it computes is proved by an induction written out with the least
counterexample (`LeastOf`), and that the function is what its definition says by
constructing it up to each number (`UpTo`, `Recursion`, `MergedOneByOne`,
`ImportedRowByRow`, `JoinedFromIs`).

| Theorem | Assumes of questions and constants | Argument |
|---|---|---|
| `VillagesComeLast` | distances and numbers are naturals | each list the choice is made from, in the order the code tries them, has a town's stop if the search sees one, or else a hub or an origin, which the property exempts as the code does |
| `AllLinksAreFound` | the reach is at most the side of a square (400 m and a tenth of a degree in the code) | two stops in reach are in one square or in neighbours, and of two neighbours one has the other among its four offsets |
| `AllNearAreFound` | positive cells, no wider than tall; the property's own conditions that the cells looked at are wide enough and the stops not south of the equator, where the index has them under other keys (section 6) | rows and columns looked at cover the reach on either side, and a row that is not negative has the key it is looked for under; each pair is told by the stop with the smaller number only |
| `RunsKeepTheirTime` | times are of the clock or missing, stops are lists | `NotBeforeIs`: the whole days added are the fewest that do not go back. By induction over the stops (`CallsIn`) each call is less than a day after the one before it. The hops are those of all runs, the trips one run of each name, so a hop's name is a trip's, and its run's if no other has the name |
| `MatchesHaveGround` | `Threshold >= 4000`, the soft threshold of the coverage; the code's default is 6000 | the guard of a verified pair is one of the three grounds (`GuardIsGround`), and its score reaches the coverage's |
| `AnswersHonourTime` | rides do not arrive before they depart, departures are within the window | `AnswerInvariant` follows the first search, the alternatives and the selection: what has been found was found from a time not before the one asked for, or by the deadline, and with the earliest arrival preferred no alternative takes the first one's place |
| `TripsServedOnTheirDays` | times in cells are times of a day (`OfTheClock`) | `FlatCallsIn`: a flattened run's calls are those of its blocks, and its days lie in the days of every one |
| `PromotedAreDrivable` | `TripAttachAssumption` | `MatchStopsThrough` and `CollapseThrough`: calls keep their order and times through matching and collapse; then every leg of what is kept has been looked at, across gaps too |
| `MergedHopsAreOfTheirTrips` | every question is a list of providers; `Sound` and `NoHomonym` are the property's own conditions | `HopsOfTheirTrips` is not inductive over providers: it says nothing of who has used a name. `Accounted` adds it: what the network names is there (`Consistent`), a trip is named by a provider merged so far (`NamedBy`), and a hop without a trip is of one its provider left out (`LeftBy`) |
| `ImportsConverge` | the files of a feed are sequences of rows (`GtfsFeedAssumption`); nothing of what the rows say | An import that goes over stored rows again is followed beside the one that wrote them (`RowReplays`): what it remembers is the same, the tables it only adds to are as the torn import left them (`RowGrows`: a canon is only added to), and each row of a table it writes over is as torn or as it was at this point of the first import. The one table whose contents decide over a row's fate is that of services, so it matters that no row after the calendar's changes it (`StepsInOrder`, `Settled`). The row the first import died in is written to its end by the second, but for one statement of a stop at most (`Nearly`, `OneStopOff`): a terminal that has no code is not found and made again, while a code without its mark and a stop without its name are found and left (`StopNearly`). From there on the two imports take the same steps, and what they differ by no later row looks at (`RowNearly`, `NearToTheEnd`, `CanonsAreNear`) |
| `ChainsAreClusters` | the records are a list, their places numbers (`SkeletonJoinAssumption`) | In the forest no record hangs on a later one, so a root is found (`RootIs`). While pairs are looked at, each tree stays within one chain, and a pair that is near and has been looked at is in one tree for good, for trees only grow together. The property asks for the chain as the least set closed under nearness, so a tree, once closed, is one without counting steps |
| `PagesJoinAsOne` | four times the threshold is no more than a cell (2 km and half a degree in the code), and the ambiguity no more than the threshold less the margin (0.05 and 0.5): `JoinScaleAssumption` | Induction over the stations of OSM: pages and whole join have left the same ones free. What may be compared lies in the cells looked at (`BesideCells`), the same scores are compared, in other turns; where none are equal the best does not depend on the turns (`FirstBestIn`). The number of candidates counts only as more than one, and where the two differ there is no rival (`FewLeft`, `CompanyOfNone`). `NoneTwice` is the invariant of either join: what is taken is not free |
| `ExportsKeepRides` | that no name of a stop needs quoting is the property's own condition on the region's export; a network's trips run on its routes between its stops, the numbers of a trip's times differ and are below ten thousand (`TextRank`), and none of them is a day before the last (`IsNetwork`) | An order of a finite set lists each member once (`InOrderIs`), and what follows another in the list follows it in the order (`ListedNext`). So the times of a trip, whether they lie in the feed by the text of their numbers or in their places, are read in the order of the numbers (`TripIsRead`). For the import, the rows a row names belong to files that come before its own (`StepsOf`), and with that, as the invariant over the rows read so far (`ReadTo`), no row is passed over and none kills it (`RowIsRead`) |

The other assumptions on the questions are those of the data the code reads:
places are points and lists are lists.

Only model-checked are `JobsSettle` and `AnswerComes`: liveness under fairness
and `ENABLED` are out of the prover's reach. Every invariant and action property
of a passing run is stated by a theorem.

## 6. What the code does and a document does not say

Shown by a run:

1. `ClaimNextJob` against `uniq_jobs_type_payload` (run `JobQueueReupload`): a
   file uploaded again while its job is in retry makes the earlier row's claim
   fail on every tick, and as the earliest row it is always the one tried.
2. `raptor` (run `RaptorPhantom`): the check commented "Check if we can board"
   lets a stop without an arrival pass. Such a predecessor may also close a
   circle: a hop from a stop without a label, and a walk back to it that labels
   it. `reconstruct` (`planner.go:922-937`) then goes round it without end,
   its steps growing; the run stops at the first violation and is not finite
   beyond it.
3. `promoteJoined` (run `SkeletonRestart`): docs/14-plan.md promises that two
   runs change nothing and a kill within a chunk converges; terminals are
   inserted anew each time, and phase 0 then dies of every legacy terminal
   that resembles two of them.
4. `networkForDay` (run `NetworkDay`): docs/15-dev-status.md says the network is
   of the day asked for; it is kept under the day of Greenwich and read for the
   day of the request's zone.

Met while modelling, part of the modules, and without a run of their own:

5. `RunOnce`: docs/admin.md says a hand-made `sync_mintrans` job fails at once;
   it is retried until its attempts are spent, paying quota each time.
6. `tombstone()`: docs/14-plan.md tombstones what has vanished from the source;
   the code tombstones what the run did not promote, after the region filter
   and the gate.
7. `csa`: docs/02-glossary.md says one pass answers the earliest arrival; hops of
   no duration may be scanned in the wrong order, and a reachable target is then
   not found. This is why `NobodyArrivesEarlier` assumes `RidesTakeTime`.
8. `raptor`: the network is that of one day of the week; a missed departure is
   moved on by 24 hours to a day that was never looked at. `StepsOfTheTimetable`
   therefore says "on some day".
9. `trips_attach.go:112-115` asks that both ends of a trip be matched; the
   condition under it does not.
10. `scorepair.go:277`: the gap that makes a match unambiguous is measured to the
    worst of the other candidates.
11. `trips_match_index.go:48-50`: the comment on `candidates` says their order is
    that of iterating over all terminals; nothing sorts them, they come by
    cell, then by code, then those without a place, and the first of equal
    scores wins.
12. `gtfs_import.go:54` calls the import idempotent. The terminal of a stop and its
    code are two statements on the pool (`store.go:298-343`): an import that dies
    between them leaves a terminal that nothing finds again, and the next one makes
    another. `ImportConverges` therefore says "but for one stop".
13. The region's export writes names without quotes (`internal/gtfs/compiler.go:101`,
    `:124`) and its reader refuses a row of other columns
    (`adapters/gtfs/gtfs.go:72`, `:81`): one comma in the name of a stop and the feed
    cannot be read, one in that of a route and it has no routes.
14. The spatial index masks the row of a stop to 32 bits where it stores it
    (`geo/index.go:34`) and extends its sign where it looks it up (`:49`): south of
    the equator a stop is under the key of another column.
15. `trips.go:11-20`, `:34-47` and `:125-134` swallow errors of the database, so that
    a run of the trips sync which ends done may have left tombstones and staging
    rows unwritten; the next run makes them good.

## 7. What is not modelled, and why

- How far two spellings of a word are apart (`namesim`): words are equal or
  unlike. Scores therefore take the values the weights give them, not those
  between.
- The election of contested fields (`elect.go`, used by `legacy_match.go`):
  terminals are told apart by their records and not by names or places.
- The outbox (`PublishTerminalCreated`, `ConsumeTerminalCreated`), the memory
  cache, the in-memory job manager of `jobs.go`, the queue package: nothing but
  their tests calls them. The pipeline of `internal/import` is a stub.
- The memory store but for accounts and keys, which only it implements: the
  tests' double of the PostgreSQL store.
- The planner's semaphore: it is taken without a deadline and bounds how many
  search at once, which no answer depends on. Fares and prices: a distance
  times a tariff.
- The pool of connections: `LoadNetwork` asks for a second connection while its
  rows hold the first (`store.go:547`), so that as many loads at once as the
  pool has connections wait for each other. The pool belongs to pgx.
- The import of the register (`ImportIntercity` in `mintrans/importer.go`): nothing in
  the program calls it, and over PostgreSQL its routes, services and trips refer to
  a provider `intercity` that the migrations never insert
  (`migrations/001_initial.sql:28-30`, `:241`, `:252`, `:275`), so that none of its
  transactions would commit.
- In the import of a feed: statements that fail without ending it.
- In the export: zip; CSV but for names in need of quotes; days and exceptions of
  services, transfers, fares.
- The open mode of `auth` (no keys configured), settings, browsing and the pages
  of the server; the JSON-RPC front of the tools.
- Reports of calibration and replay: they print what they read.
- Adapters (Overpass, MOTIS, Yandex, Nominatim), resolution of places,
  configuration, logging, telemetry: HTTP calls and pure functions, whose
  failures are outcomes of the callers that are modelled.

## 8. The plan

In order of what matters most, each with what it would be measured by:

1. The election of fields (`Elect`): curated values survive, and the elected
   value does not depend on the order of the sources; with it the fields of a
   terminal in `SkeletonRun`.
2. `TripSync` with the verdicts of `TripAttach`: a refinement in which the
   free choice is resolved.
