# JobLens-TAP in TLA+

TAP is an HTTP service in Go between the clients of a job monitoring system and
its data: it searches Elasticsearch clusters for the records of a job, streams
them, aggregates them over time, and asks the agents on a job's nodes to collect
more. This directory models the parts of it that have state, concurrency or an
order to keep; TLC checks them on small instances, and TLAPS proves most of the
safety properties, and all four refinements, for every value of the constants.

Every definition is translated from the Go source. `PROJECT.json` maps each one
to the lines it stands for, lists the hazards of the code line by line with the
properties that cover them, and names the runs, the theorems and the findings.

    tlc -workers 2 -config StreamLoop.cfg MCStreamLoop     # one run
    tlapm RawStream_proofs.tla                             # one module of proofs

## 1. Inventory

### How a request flows

    client --HTTP--> handler --> service --> repository.ClientManager --> Elasticsearch
                        |           |               |
                        |           |               +-- cluster.Manager --> management API
                        |           +-- agent_client --> agents on the nodes
                        +-- Limiter, runStream (streams only)
    SIGHUP --> main's goroutine --> model.Registry (read by every request)

### Components

| component | code | state | operations | what is hard | what makes it correct |
|---|---|---|---|---|---|
| Raw record stream | `service/stream.go`, `stream_merge.go`, `stream_pit.go` | per cluster: snapshot (PIT), buffer, `searchAfter`, `committedAfter`, prefetch channel; a heap; a batch | open or resume, prime, prefetch, merge, emit, finish, close | a prefetch goroutine per cluster; a page is replaced before the batch taken from the previous one is sent; any step may fail or be cancelled | newest first over all clusters; nothing lost or repeated; truthful end; cursors at the last record; every snapshot accounted for; always ends |
| Stream resumption | `service/stream_cursor.go` and the above; `cmd/server/main.go` | the client's cursor, snapshot leases, the signing key, the process | connect with and without cursor, replay, 410, 400; exit, start | overlapping connections share one snapshot; leases run out; messages and answers are lost; the process ends with streams running | the client sees one snapshot once and in order; "complete" is complete; usable cursors |
| Stream delivery loop | `handler/stream*.go`, `service/limiter.go` | limiter slots, `runStream`'s progress, the writer, two channels per emission, the context | acquire, emit, acknowledge, write, ping, time out, join, close | handler, producer, timer and client interleave; every `select` has several ready cases | wire grammar; the accounts in `done` match the wire; slots cover producers; every request ends |
| Time series stream | `service/stream_timeseries.go`, `stream_aggregation.go`, `stream_window_plan.go`, `guards.go` | windows, merged statistics, budget | plan, search per window and collector, merge, cut, refuse too many groups | boundaries: aligned, negative, inclusive and exclusive ends, limits met exactly | each bucket once, nothing lost, global statistics, Elasticsearch's limit |
| Time series query | `handler/timeseries.go`, `service/query.go`, `guards.go` | none | validate and estimate, one search per collector, parse, fall back on statistics of the records | the estimate of an unaligned range; bounds cut to whole seconds; zero as "unknown"; partial answers and cut groups taken for whole | the estimate nearly bounds; the same answer as the stream where both read the same range; right statistics |
| Cluster cache and clients | `cluster/manager.go`, `repository/es.go` | cached scheme, `lastFetch`, `fetching`, the client map | `Get` (fresh, stale, miss), background refresh, `GetClientForCluster`; requests that look up twice (`CheckJobExists`, `DiscoverJobTimeRange`) | stale reads, overlapping fetches, condition variable, double-checked locking, an alias that moves between two lookups | one lazy fetch; answers from the cache; right client; range of the cluster searched; everyone returns |
| Job collection | `service/collection.go`, `agent_client.go`, `handler/collection.go` | answers, errors, attempts | trigger by job, direct | lost answers and retries, some nodes failing, a script that hangs | status means what it says; bounded attempts |
| Raw query pages | `handler/raw.go`, `service/flatten.go`, `query.go`, `index.go`, `parser.go` | the walk's cursor | plan a range and its indices, query one cluster, fan out and merge, next page | ties, page limits, failing clusters and shards; every page plans its range anew while time passes and records arrive; UTC days | newest page, no repeats, complete walks, honest `has_more` |
| Collector registry | `model/registry.go`, `cmd/server/main.go` | collector and alias maps, `DefaultCollectors` | load, reload on SIGHUP, read | reload against readers; merged signals; a refused file | one version per answer; no lost reload |
| Summary, check-job | `handler/summary.go`, `check.go`, `service/query.go` | none | one search | two lookups of one cluster | see cluster cache |
| Query building and answer parsing | `service/query.go`, `parser.go`, `flatten.go`, `repository/es.go` | none | data transformation | what an aggregation leaves out | part of the endpoints above |
| Schema, health, skill endpoints; middleware; configuration | `handler/`, `middleware/`, `config/` | read-only or none | - | - | not modelled |

The interactions between modelled parts: the producer of a stream (RawStream,
TimeSeriesStream) is seen by the delivery loop (StreamLoop) as any goroutine
that offers a meta, then batches, and ends with a `StreamDone` or an error;
RawResume runs several producers of RawStream's kind, one batch per step, on
shared snapshots. The two time series endpoints share `Aggregation`, the search both
send; TimeSeriesQuery runs both on the same request and documents. What RawQuery
asks of QueryPlan stands for the index and parser services.

## 2. Modules

| module | models | state and actions against the code |
|---|---|---|
| `RawStream` | `StreamRaw`, `ensurePIT`, `applyPITPage`, `startPITPrefetch`, `fetchPITPage`, `mergeRawStream`, `closePIT` | one variable per field of `rawStreamIter` and local of the merge loop. Actions in code order: `Reject`/`ReplayDone`/`Open*` (opening loop), `EmitMeta`, `PrimeNext`, `FetchInline`/`TakePrefetched`/`EnsureReturn` (`ensurePIT`, split at its waits), `PrefetchFetch` (the goroutine), `MergeTake`, `Flush`, `FailFlush`, `Finish`, `ClosePITs` (the deferred close, which may fail for each snapshot), `Cancel` (the context). `OpenFail` may leave a snapshot that nobody knows of. A record is a cluster and a position in its snapshot, a sort value is a position |
| `MergedFeed` | abstract specification | what a consumer sees: a prefix of a merge of the snapshots that only grows, and an honest status |
| `RawResume` | one client, several connections, restarts of the server | RawStream at the granularity of batches, plus the leases, the client's cursor and the key that signs it. `Exit` ends every connection without its deferred calls, `Start` begins the next process |
| `ResumedRead` | abstract specification | the same without connections, cursors, leases and processes: one read of one snapshot from its first record to its last, whose end is true and final |
| `StreamLoop` | `Limiter`, `runStream`, `emit`, the writer, `endStream` | `stage` is the handler's place, `prod` the producer's; `msg`/`ack` are the unbuffered channel and the emission's acknowledgement channel, `finished` the result channel. One action per case of each `select` |
| `Delivery` | abstract specification | what the loop promises: batches handed over one at a time and in order, and one end, "complete" only with nothing missing |
| `WindowPlan` | `planTimeWindows`, `windowDateBuckets`, `estimateBuckets`, `dateBucketCount`, the windows' filter | operators only |
| `Aggregation` | `BuildMultiMetricTimeSeriesQuery` and `parseMultiMetricAggregation` | operators only: the records, groups and statistics of one search |
| `TimeSeriesStream` | `StreamTimeSeries` over these two | one action per search answer (`Collect`), the two loops as `window` and `collector` |
| `TimeSeriesQuery` | `ExecuteMultiMetricTimeSeriesQuery` beside the stream | `Validate`, then `Search(c)` per collector in any order (a map's), from `From` to `To`, the request's bounds as the query writes them (`RFC3339`, whole seconds; the stream's windows keep the fraction); `BothSpec` runs the stream and then the query |
| `QueryPlan` | `ParseClusterParam`, `ParseTime`, `ValidateTimeRange`, `ResolveIndices`, `DiscoverJobTimeRange` | operators only |
| `ClusterCache` | `Manager.Get`, `safeFetch`, `BackgroundRefresh`, `doFetch`, `GetClientForCluster` | `pc` of each caller follows the code between its lock operations; a fetch is two steps, asked and answered, so that answers cross. `CallAsked`, `CallChecked` and `CallForRange` are the places a request calls from, `first` is what its first lookup gave |
| `Collection` | both triggers, the retries, the verdict | one action per request to an agent, with every outcome it may have |
| `RawQuery` | `GET /data/raw`, and a client's walk, over QueryPlan | per goroutine `BuildPlan` (`buildRawPlan`) and `Search` (`executeRawPage`), which end in any order; `Tick` and `Arrive` are the clock and the writers, at any moment |
| `RegistryReload` | signal channel, `LoadRegistry`, `Reload`, the readers | the writer's lock is two steps (wanted, held); `DefaultCollectors` is two words |
| `AtomicRegister` | abstract specification | `GetGlobalAliases` without maps and locks: one current answer, replaced in one step, and a call that gets what is current at one moment of it |

`X_proofs` holds the theorems and proofs about `X`: RawStream, StreamLoop, RawResume,
ClusterCache, Collection, RegistryReload and RawQuery (with QueryPlan) have one each, and `TimeSeries_proofs` is
about WindowPlan, Aggregation, TimeSeriesStream and TimeSeriesQuery together.

`MC*` modules give the constants their values; a `.cfg` belongs to one run.
Operators marked `MUTANT of X` stand beside the definition `X` they vary. No
specification uses them: each is `X` as a plausible bug would have made it, and
the property named for it in `PROJECT.json` fails when it takes `X`'s place. They
say what each property is sensitive to.

### Abstractions common to all modules

Records, names, URLs and payloads are positions, model values or small numbers.
Elasticsearch, the management API, scripts and agents are oracles that may
answer, refuse, or be late. Logging, wording and the encoding of messages
(beyond their size, type and id) are left out. Failure of a search is possible
at every search. Go's `select` among ready cases is a disjunction.

## 3. Runs

| run | asks | instance and why it is enough |
|---|---|---|
| `RawStreamMulti` | order, exactly-once, honest end, that no step is in vain, and that RawStream implements MergedFeed | two clusters, snapshots of 0 to 3 records with ties within and between them, pages of 2, limit 5: a cluster is empty, ends on a page's edge or off it, the limit falls inside a batch, on the last record and before it; failure and cancellation everywhere |
| `RawStreamSingle` | cursors, snapshots, termination (under fairness) | one cluster, up to 5 records, i.e. three pages, limit 3, started afresh and from every cursor; opens whose answer is lost, closes that fail |
| `RawResumeClient` | what a resuming client gets, and that RawResume implements ResumedRead | three connections, so that a lost one lingers while its successor ends and a third resumes; one restart, with and without a stable key; an `OpenPIT` whose answer is lost at each opening; snapshots of 1 and 3 records; one tick of a lease of one |
| `StreamLoop` | wire, accounts, slots, no circular wait, liveness, and that StreamLoop implements Delivery | two requests for one slot (an SSE raw stream with a cursor, an NDJSON stream without), two batches each, a byte budget that the third message exhausts |
| `ClusterCache` | answers, lazy fetch, clients, locks given back, range, liveness, convergence | two callers, one of which calls twice, one refresh in flight, two clusters and an alias that moves from one to the other, which was disabled before, two versions; TTL and minimum gap 0, age capped at 1 (only comparisons with the two limits matter) |
| `Collection` | status, attempts, liveness | lists of no, one, two nodes and one node twice; 0 to 2 collectors; three attempts; scripts that print, fail or hang |
| `TimeSeries` | buckets, statistics, limits, and the two endpoints against each other | ranges that start at -1, 0 and 1 and end between 0 and 4 (or before they start), a second of two instants, so that odd bounds are off a whole second, intervals of 1 and 2 (half a second and one), grouped or not, two groups at most of up to three, limits of 9 buckets and 3 windows, budgets that cut and do not; 8 sets of documents for each of two collectors, with values below, above and at zero |
| `RawQueryPages` | pages and walks | no cluster, one, two, one listed twice, the wildcard, blank parts; full, relative, fixed and reversed ranges; stores of up to 4 records with ties at a page's edge, over a midnight; pages of 2, three pages, one tick, one late or current record per cluster |
| `RegistryReload` | reload against two readers, signals kept, and that the reload implements AtomicRegister | four files: one is refused, one moves an alias between a collector and the global ones, one drops a collector |
| `CollectionAllAnswered`, `RawQueryCursor`, `RegistryReloadTorn` | the three documented claims of section 6 | violations |

Bounds, by name: `MaxBatches` (StreamLoop), `MaxConns`, `MaxStarts` and `MaxTime`
(RawResume), `MaxPages`, `MaxArrivals` and `MaxTicks` (RawQuery), `Twice`,
`Fetchers` and `AgeCap` (ClusterCache), the length of `Files` and `Scheme`. `GroupSize`
is 100 in the code. All other numbers are limits the code has too.
Requests of `Collection` share nothing, so its run has one. Deadlock is checked
in all runs; a module that may stop says so with an action (`Terminated`,
`Stopped`) whose guard is the intended end.

Six promises are no properties of a run, since a refinement that is one says more
(`Descending` and `RefinesFeed`, `CompleteMeansAll` and `RefinesRead`, `GlobalsOfOneVersion`
and `RefinesRegister`, `CompleteIsComplete` and `RefinesDelivery`) or the code shows it almost
at a glance (`NoNeedlessConnect`, `SettledAgrees`); they are proved all the same.

Every module with variables, the four abstract ones aside, has a `TypeOK` (TimeSeriesQuery:
`QueryTypeOK`). All are proved (section 5).

## 4. Fairness

Liveness is checked only where the code gives a reason for it.

- `RawStream`: the producer's goroutine and each prefetch goroutine are scheduled
  (weak fairness). A prefetch that has been started gets an answer, an error or
  its context's end, because every search runs under the stream's context.
- `StreamLoop`: the handler is scheduled and its writes have a deadline; the stream's
  timer fires. The producer is *not* assumed to move by itself (a search may
  hang until the context ends): it is fair only once its context is done, and in
  taking an acknowledgement that is there. `EveryRequestEnds` therefore rests on
  the timeout and on the `ctx.Done` cases of `emit`.
- `ClusterCache`: strong fairness for a caller's steps, since they compete for locks
  and wake-ups that others take in between and Go's mutexes do not starve; weak
  for a refresh, since its request has a timeout; strong for its being
  answered, for convergence only: an API that refuses for ever leaves the cache old.
- `Collection`: requests to agents end by their client's timeout, and the waits between
  them by a timer (weak fairness). A script is *not* assumed to end: it is run without
  timeout or context (`cluster_script.go:49-51`), so `EveryRequestAnswered` says that a
  request is over in the end or hangs in its script for ever.
- `RegistryReload`: goroutines are scheduled; a waiting writer keeps new readers out, as
  `sync.RWMutex` does.

The other specifications have no fairness and no liveness property.

## 5. What is proved

Every theorem is of the form `Spec => []P` (or `Spec => A` for an action property or
an abstract specification) and holds for every value of the constants that the
module's named `ASSUME`s allow. None of the promises is inductive; the last section of each
module states what has to be added, its parts named, and `IInv` is their
conjunction. TLC has checked each `IInv` on the instance of a run.

| module | for every | assumptions | states and actions |
|---|---|---|---|
| `RawStream_proofs` | set of clusters, snapshots, page size, record limit | `ClustersAssumption`, `SizesAssumption`, `ViewsAssumption` (snapshots are sorted, newest first) | `TypeCorrect`, `AlwaysDescending`, `AlwaysExactlyOnce`, `AlwaysHonestEnd`, `AlwaysWithinBudget`, `AlwaysCursorAtLastRecord`, `AlwaysSnapshotsAccounted`, `AlwaysPrefetchFresh`, `StreamRefinesFeed`, `AlwaysProgress` |
| `StreamLoop_proofs` | finite set of requests, number of slots and batches, byte limit, message sizes | `LimitsAssumption`, `KindsAssumption` (only a resumable stream comes with a cursor), `SizesAssumption`, `RequestsAssumption` | `TypeCorrect`, `AlwaysWireGrammar`, `AlwaysDoneMatchesWire`, `AlwaysCompleteIsComplete`, `AlwaysSlotsCoverProducers`, `AlwaysNoCircularWait`, `LoopRefinesDelivery` |
| `RawResume_proofs` | number of connections, restarts and records, page size, clock, lease | `BoundsAssumption` | `TypeCorrect`, `AlwaysReceivedInOrder`, `AlwaysCompleteMeansAll`, `AlwaysDeliveredCursorUsable`, `ResumeRefinesRead` |
| `ClusterCache_proofs` | set of callers and refreshers, sequence of schemes, TTL, minimum gap | `SchemeAssumption` (an entry is listed under its name), `TwiceAssumption`, `KeysAssumption`, `NoneAssumption`, `TimesAssumption` | `TypeCorrect`, `AlwaysOneLazyFetch`, `AlwaysAnswerFromCache`, `AlwaysNoNeedlessConnect`, `AlwaysNobodyWaitsInVain`, `AlwaysRangeOfSearchedCluster`, `AlwaysClientOfOwnUrl` |
| `Collection_proofs` | number of requests, list of nodes, collectors, attempts | `ListsAssumption`, `NumbersAssumption` | `TypeCorrect`, `AlwaysStatusMeansWhatItSays`, `AlwaysAttemptsSpent` |
| `RegistryReload_proofs` | sequence of files, set of readers | `FilesAssumption` (the service has started, so the first file was accepted; a file lists its collectors) | `TypeCorrect`, `AlwaysGlobalsOfOneVersion`, `AlwaysSettledAgrees`, `AlwaysNoSignalLost`, `ReloadRefinesRegister` |
| `RawQuery_proofs` | set of clusters, stores, range, page size, length of a day, any number of late records and pages | `ParamsAssumption` (what `ParseClusterParam` gives is a list of clusters: the library has no facts about filtered sequences), `RangesAssumption`, `SizeAssumption`, `StoresAssumption`, `NoneAssumption`, `DayAssumption` | `TypeCorrect`, `AlwaysPageIsNewest`, `AlwaysNoRepeat`, `AlwaysWalkIsComplete`, `AlwaysMoreIsHonest` |
| `TimeSeries_proofs` | range, interval, budget, limits, documents, number of collectors, length of a second | `ParametersAssumption`, `GroupSizeAssumption`, `SecondAssumption` | `TypeCorrect`, `AlwaysBucketsOnce`, `AlwaysNothingLost`, `AlwaysWithinESLimit`, `AlwaysEstimateNearlyBounds`, `AlwaysSameAnswer`, `AlwaysStatsAreGlobal`, `AlwaysStatsSurviveFallback` |

Why the invariants need what they have:

- **RawStream.** (`WithinBudget` and `PrefetchFresh`, parts of the argument, rest on their
  proofs alone.) `Descending` speaks of what was emitted; that it
  stays true needs that what is *still to come* is no newer (`OrderOK`), which needs
  that the top of the heap is the newest of all that remains, which needs that no
  cluster with records left is missing from the heap (`HeapOK`), which needs to know how
  far the producer is, above all while `ensurePIT` is in progress for one
  cluster (`PhaseOK`, with `cur`). `ExactlyOnce` needs that a buffer is continued by the
  very next page: `PrefetchFresh` (the goroutine's `searchAfter` is still the
  iterator's) and `IterOK` (buffers lie inside their snapshot; only the last page
  exhausts it). `HonestEnd` needs `HeapOK` and `BudgetOK`; the cursor properties need
  `CursorOK`, and `SnapshotsAccounted` needs `SnapshotOK`
  (until the close there is nothing kept or left; a snapshot nobody knows of failed the stream). Each conjunct has a lemma of
  its own that a step preserves it. `StepKinds`, `ReadStep`, `OpenKind` and `TakeKind`
  sort the actions by what they do to the variables an invariant reads (take a
  record, read a page, open a snapshot, move records from the batch to the output, or
  nothing). `StreamRefinesFeed` maps the output to the feed's; a flushed batch is the
  next part of a merge because of `Descending` and `ExactlyOnce`, and the status becomes
  "complete" only in `Finish`, where `HonestEnd` gives the feed's condition.
  `Progress`, the safety half of `Terminates`, compares each state with the next: the
  phase, then what has been gained (clusters, pages, ends of snapshots, records, batches),
  then one of the turns between two gains. It needs `PrefetchFresh` and `IterOK` (a page
  moves the iterator on, or is empty and ends its snapshot: `PageProgress`) and `BatchOK`
  (no empty batch is sent). What is gained is bounded by the snapshots (`IterOK`), so that an
  endless run must starve somebody; the fairness of section 4 forbids it.
- **StreamLoop.** The accounts in `done` are compared with the wire long after the
  messages were written, by two goroutines that have to agree on what was
  handed over. `Sent` counts the emissions on the wire; `Body` says that the wire starts
  with them and that the handler's progress (`returned`, `cursor`, `bytes`) is theirs,
  `Closing` what may follow. `Handover` and `Producer` relate the producer's count
  `offered` to `Sent` at every point of the rendezvous: equal while an emission is
  offered, one behind once it is acknowledged, whatever the handler has turned to in the
  meantime. `Finish` says whose result is reported. `SlotsCoverProducers` needs
  `SlotsTaken` (the limiter's count is that of the requests with a slot) and
  `Producer` (a producer that runs belongs to one of these). `LoopRefinesDelivery` shows
  each step to be one of `Delivery`'s or a stutter. `NoCircularWait`, the safety half of
  `EveryRequestEnds`, is `Handover` and `Finish` read for what each goroutine waits for.
- **RawResume.** `ReceivedInOrder` is about the client's log, the steps about
  positions of connections. `ListeningOK` ties the log to the last acknowledged
  record of the connection the client listens to and its cursor to that connection's
  snapshot, `CursorOK` the cursor to the log; `PositionsOK` and `StageOK` keep a
  connection's positions in order (base, acknowledged, taken, fetched, total) and say at
  which stages they coincide. `DeliveredCursorUsable` needs `SnapshotsOK`: only a connection
  that acknowledged nothing can have closed a snapshot early. `ResumeRefinesRead` hides
  everything but the log, the size of the snapshot that is read (`Reading`: the cursor's,
  or before there is one the current connection's) and what the client was told. That no
  step moves the client to another snapshot once it has a record is `ListeningOK`; that a
  refusal is final needs `RefusedOK`, an invariant of its own: time and restarts never make
  an expired cursor fresh, or another process's signature valid.
- **ClusterCache.** `FlagOK`: one caller at most is between setting `fetching` and
  resetting it, for which `fetching` has to be exactly that. `CallOK` keeps, for the
  caller's whole way through the locks, that the entry it goes on with was an answer of a
  version that was cached during its call (`seen`). `LockOK`: who connects has the lock, and
  the map is still without a current client, from the second look under the lock on.
  `NobodyWaitsInVain`, the safety half of `EveryGetReturns`, follows from these two.
- **Collection.** `EntryOK` says for each entry of the list what its result may be before
  and after its turn; `StatusMeansWhatItSays` then needs a counting argument
  (`AllCounted`): as many different answers as nodes times collectors are there only
  when there is one collector and every node has answered.
- **RegistryReload.** `RegistryOK` names, for each point of the reload, which of the three
  maps are of which version; `LockOK` excludes readers from the middle. A reader that is
  inside keeps the maps as they were (`ReadersOK`), and what the two it reads give is
  the global aliases of one file because a valid file gives no collector the name that
  marks a global alias. `ReloadRefinesRegister` names the linearization points: a reload
  takes effect when `aliasMap` is replaced, which no reader sees before the lock is released
  (between that and `ReplaceOwners` the current answer is the loaded file's, not what
  the maps give), and a call when it reads the owners, as the map it read before is still the
  current one (`ReadersOK`). `NoSignalLost`, the safety half of `ReloadHappens`, is inductive
  once the versions are known to be ordered (`SignalOK`).
- **RawQuery.** The store grows and the clock moves between any two steps. `PageOK`
  says of a page that was brought: it is sorted, of its cluster, behind the cursor, and
  if its search was whole, each record of the planned range that had arrived before the
  first request is on it or passed over for Size newer ones; this survives arrivals, as a
  record that comes later does not count (`AboutStays`), and holds at first because the
  daily indices cut nothing off the range (`DaysCoverRange`). For the merge a
  pigeonhole argument (`PlacesFor`) shows that what is behind a full page of one cluster
  is behind the merged page. `WalkOK` says of a walk that all the client has is not older
  than the next cursor and of the cursor's cluster, and that what it has not got is older, or
  is accounted for (`Accounted`); `NoRepeat` and `WalkIsComplete` follow, because
  `search_after` is strict. `RequestOK` ties the walk to the request: the cursor asked
  with is the one of the last answer.
- **TimeSeries.** The lemmas are about the grid: consecutive windows share an edge, their
  inner edges are bucket edges (`PlannedWindows`), they cover the range (`WindowsCover`), a
  bucket is cut by no window (`BucketWhole`), and a window has no more buckets than the limit
  allows (`WindowSpan`). `IInv` says how far each collector's windows have been worked off
  (`NextFor`): all documents of earlier windows have been sent (`SentOK`) and all that is
  still to come lies behind what was (`OutOK`), so no bucket comes twice. `RightValue`
  states each record's value over *all* documents of the collector in the range, and
  `QueryInv` says the same of the query's answers so far over the documents that match
  its own bounds (`MatchedValue`); `SameAnswer` compares the two where the documents of a
  bucket are the same in both (`Common`).
  `StatsAreGlobal` rests on a second induction, `StatsInv`: what is merged of a collector is
  the statistics of the documents in the windows that are done (`MergedOK`), and a window
  adds documents that none before it has. That sums and counts of disjoint sets add up is an
  induction over finite sets, which no theorem of the library gives here (they take an operator
  as a parameter); it is proved from the well-foundedness of the subsets of a finite set
  instead: among the subsets for which a sum were wrong there would be a smallest one
  (`SmallestSubset`), and without one of its elements it would be wrong too. `ReportedOK` says
  that what the query reports was computed from its own documents and records;
  `StatsSurviveFallback` then compares the two ways of computing a statistic.

Only model-checked:

- all liveness (`Terminates`, `EveryRequestEnds`, `EveryGetReturns`, `EventuallyFresh`,
  `EveryRequestAnswered`, `ReloadHappens`; `ENABLED` too): beyond the prover. What is
  proved of four of them is the part that needs no fairness: `Progress`, `NoCircularWait`,
  `NobodyWaitsInVain` and `NoSignalLost`;
- the claims of section 6 that the code does not keep.

## 6. Findings

Carried as runs:

1. `CollectionAllAnswered` - `collection.go:196-197` compares the number of answers, one per
   node, with nodes times collectors: with two collectors and every node's agent
   having answered, the status is `partial_success`. API.md:756: "success (all
   succeeded)".
2. `RawQueryCursor` - `handler/raw.go:102` passes no cursor for one cluster: the
   second page is the first. API.md:268 and its example at :1011 say otherwise.
3. `RegistryReloadTorn` - `main.go:170` assigns the slice `cfg.DefaultCollectors` that
   requests read without a lock. The comment at :169 says "并发安全" (safe for concurrency).
   A reader may see one version's array with another's length.

Met while modelling, and not carried as runs of their own:

- A resumed connection that ends before its first batch closes the snapshot of
  the cursor it came with (`stream_pit.go:147-154`), although the cursor has not expired
  (comment at :151, API.md:404). `DeliveredCursorUsable` states the proviso.
- After the byte budget has refused an emission the producer may see `ctx.Done`
  first; the client is then told `stream_failed` instead of `byte_limit`
  (`stream_loop.go:125` against API.md:412).
- `lastFetch` moves only with a successful fetch, so a failing management API is asked
  again by every miss (`manager.go:79` against management-api.md:152).
- A merged page has no cursor, and `has_more` may be false with records left
  (`flatten.go:260-272` against API.md:269).
- The hash in a page's cursor is never compared with the query
  (`query.go:446` against API.md:270).
- The searches of the endpoints without a stream look neither at `timed_out` nor at
  failed shards (`es.go:249` does only for a search with a size limit): part of
  the data is answered as if it were all. `PageIsNewest` and `SameAnswer` state the proviso.
- A grouped time series query returns the 100 largest groups and does not say that there
  are more, where the stream refuses with 422 `group_limit`
  (`stream_aggregation.go:94-99`). `SameAnswer` states it.
- A grouped query has no global statistics from Elasticsearch; they are computed from
  the bucket values instead, empty buckets counting as 0, and a maximum below zero is
  reported as 0 (`query.go:1155-1176`). `StatsSurviveFallback` speaks of ungrouped requests.
- `dateBucketCount` is one short for an unaligned range: the guard of the query lets one
  date bucket too many through (`guards.go:11`, `EstimateNearlyBounds`); with an interval below
  a second, also those in the part of a second by which the query starts early.
- The query cuts its range to whole seconds (`query.go:595-596`, `614-615`), the stream keeps
  the fraction (`stream_aggregation.go:47-51`, `65`): for `from=now-1h` the two endpoints
  read other documents in the first and the last bucket, and the query has a first bucket
  the stream lacks if an edge lies in between. `SameAnswer` excepts exactly these (`Common`).
- A script of a cluster runs without timeout and without the request's context
  (`cluster_script.go:49-51`): if it hangs, so does the request. `EveryRequestAnswered` states it.
- A close that fails is only logged (`stream_pit.go:155-159`), and an `OpenPIT` whose answer is
  lost leaves a snapshot nobody knows of (`stream.go:123-131`): both stay until their
  `keep_alive` runs out. `SnapshotsAccounted` says that nothing else does, cursors aside.
- A relative range (`from=now-1h`) is read anew for every page and slides under a walk; the
  records it has moved past are missed (`query.go:297`). `WalkIsComplete` states it.
- The time series handler takes the first of the parsed clusters without a look at their
  number (`handler/timeseries.go:100`): with a cluster parameter of commas only there is none.
- A process that gets SIGTERM waits five seconds for its streams and leaves
  (`main.go:186`); their snapshots live on until `keep_alive` runs out, and without
  `TAP_STREAM_CURSOR_KEY` their cursors are refused by the next process.

## 7. Not modelled

Summary and check-job are single stateless searches, apart from their lookups
(ClusterCache); their work is in building JSON and parsing it. The formats of
times, intervals and job ids, the rendering of index names and the flattening of
records are conversions of strings. Schema, health and skill endpoints only read.
Configuration is read once and appears as CONSTANTS. HTTP middleware, the routes and the
draining of connections in `Shutdown` are wiring.

Inside modelled components: `ensure`'s path without a snapshot, which `StreamRaw`
never takes; negotiation of formats and page sizes; the query hash of a cursor (a client
repeats its request unchanged; nobody but the server makes cursors); field aliases of
Elasticsearch in the registry; several metrics per collector; aggregations other than
`max`; times below the millisecond; how Elasticsearch fills the fraction an upper bound does
not write (bounds are taken literally).

## 8. Plan

Done, in this order, most important first: RawStream with MergedFeed and its
proofs; StreamLoop, later with Delivery; RawResume, later with restarts and lost answers;
TimeSeriesStream and TimeSeriesQuery over WindowPlan and Aggregation; ClusterCache, later with
two lookups per request; Collection; RawQuery over QueryPlan; RegistryReload.

Next, modelling:

1. RawStream and StreamLoop composed: the producer of the loop is RawStream's
   emit, so that `DoneMatchesWire` speaks of records and `EveryRequestEnds`
   includes the snapshots.
2. One request reads the registry several times (`GetESField`, `GetAliasDef`,
   `RenderIndexName`), each under a lock of its own, while it is reloaded.

Proofs done, in this order: RawStream, StreamLoop, ClusterCache, RegistryReload,
RawResume, Collection, the refinements MergedFeed and Delivery, the time series, RawQuery; then the
sums of `StatsAreGlobal` and `StatsSurviveFallback`, the refinements ResumedRead and
AtomicRegister, and the safety halves of four liveness properties. Every invariant and every
action property of a passing run is the subject of a theorem.

Next, proofs: the decreasing measures of a request to the agents (Collection) and of a call
(ClusterCache), as `Progress` has it for a stream; and, once the composition above is
modelled, that it implements Delivery with the batches of MergedFeed.
