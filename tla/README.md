# Verification of my-data-house-platform in TLA+

The platform takes CDC messages of a retail source through Kafka into ClickHouse
and on to aggregated marts. Its Go code is small (generators, a Kafka producer, an
Avro codec, stubs of `dhctl` and `api`); most of its logic is in SQL: one landing
table, one materialized view and one `ReplacingMergeTree` per entity, and
refreshable materialized views that compute the marts. This directory models that
logic, checks it with TLC and proves part of it with TLAPS.

Paths below are relative to the repository root, `<ctx>` is
`internal/contexts/<context>`.

## 1. Inventory

| Part | State | Operations | Talks to |
|---|---|---|---|
| Generators (`<ctx>/generator`, `internal/platform/mockgen`) | one `SeqCounter` per entity and run | emit a version (create, update, delete), deliberately out of order; stamp the envelope | `allDatasets` |
| `producer mock` + `scripts/mock/load.sh` | NDJSON files | write files, `INSERT` file by file, stop at the first error | landing tables |
| `producer kafka` (`mockrun.PublishKafka`, `kafkaclient`) | loop position, schema id, record in flight | register schema, encode, produce synchronously, stop at the first error or signal | registry, broker |
| Kafka Connect sinks (`deploy/connect/connectors`) | offsets and KeeperMap state | poll, insert a batch, retry, send to the DLQ | topics, landing tables |
| L0 landing (`<ctx>/sql/10-landing`) | append-only rows with a TTL | insert, expire | MV |
| L0 -> L1 MV and core (`<ctx>/sql/20-core`) | parts of a `ReplacingMergeTree(_cdc_seq, _is_deleted)` | push per partition, background merge, rebuild | current view |
| Current views | none | `FINAL WHERE _is_deleted = 0` | marts, dictionaries |
| Dictionaries (`<ctx>/sql/30-marts/0010__dict_*`) | a cached copy, 300 to 600 s old | reload | marts |
| Mart `revenue_by_bu_day` | rows by group and day, latest refresh wins | refresh every 15 minutes, APPEND | its view |
| Mart `payment_funnel_day` | same, by day, method, unit | refresh every 5 minutes, APPEND | its view |
| Scripts (`scripts/db`, `scripts/kafka`, `scripts/checks`, `scripts/mock/verify.sh`) | none of their own | apply DDL, create topics, apply connectors, wait for health, poll a refresh | docker compose, ClickHouse, Connect |
| `cmd/dhctl`, `cmd/api`, config, logging, version, contracts | none | print a version, read the environment | - |

What makes each part correct, and what is hard about it:

- **Entity path (L0 -> L1 -> view).** The view shows the newest version of every key
  and nothing for a deleted one; what landed is not lost on the way; a version is
  never replaced by an older one. Hard: batches arrive out of order, twice, or half
  (landing written, core not, or only some partitions of core); merges run whenever
  the server likes; a rebuild truncates the table under a running connector; the
  landing table forgets.
- **Producer.** Records of one run arrive in emission order without gaps, datasets
  in order, exit 0 means published. Hard: lost acknowledgments, signals, writes that
  happen after the producer is gone, reruns from the beginning.
- **Marts.** A refresh gives what an independent calculation over L1 gives; past
  days are closed. Hard: the refresh reads two views at two instants, sees a window
  of days only, and can only append rows; FINAL collapses by the sorting key,
  whatever the GROUP BY was, and both GROUP BYs have columns that the sorting key
  lacks (`bu_name` and the others from the dictionary, the funnel's `order_channel`).
- **Dictionaries.** A copy catches up with its view within its lifetime. Hard: it is
  loaded at its first use, maybe from empty tables, and again in the middle of a
  query, where it splits groups; what a refresh read of it stays in the mart until the
  next refresh of that day, or for good if there is none.
- **The mock flow (apply, load, verify).** After a complete load on a complete schema
  the checks of `verify.sh` give what it says it expects. Hard: applies and loads stop
  half way; a second load repeats all sequence numbers with another base, maybe one of
  another day (`MOCK_BASE`); the server refreshes and reloads at its own pace while the
  script polls; a request for a refresh may fail unnoticed; midnight passes.
- **Connector state, topics, health.** Their logic is in Connect, Kafka and Docker
  (section 7).

`PROJECT.json` lists the hazards with their lines and the properties aimed at each.

## 2. Modules

```
CurrentState  <--refines--  CdcCore
                               |
        views of L1 are the inputs of   RevenueMart, PaymentFunnel
                                          | EXTENDS
                                        Dictionary
Publish:  what fills the topics that a writer of CdcCore reads
MockFlow: EXTENDS MockData; apply-ddl.sh, load.sh and verify.sh with the whole
          server, each core table reduced to what CdcCore promises of it
MC<Module>: model values, definitions and symmetry for TLC

Proofs (TLAPS), each EXTENDS the module it is about:
CdcCoreProofs -> CdcCore                        PublishProofs       -> Publish
RevenueMartProofs -> RevenueMart                PaymentFunnelProofs -> PaymentFunnel
MockMartProofs -> MockMatrixProofs -> MockFlowProofs -> MockFlow
NatFacts: least and greatest elements, finite sums; used by the proofs of Publish,
          of the two marts and of the mock flow
```

**`CdcCore`** models one entity; the eight have the same engine, projection and
view. `log` holds the events emitted, `landing` the rows of `dh_landing.<e>_raw`
(a set: a duplicate of a row changes nothing but the count), `core` the rows of
`dh_core.<e>` with the position of their block, which is what `ReplacingMergeTree`
breaks ties by. `job[w]` is the INSERT a writer has in progress. One INSERT is
several steps: `Insert` writes landing, each `Push` writes the core part of one
partition, `Break` interrupts it anywhere in between, `Retry` sends the whole batch
again. `Merge` collapses any range of blocks of a partition, `Expire` is the TTL,
`Truncate` and `Reinsert` are the two statements of the documented rebuild. The
partition of a version is chosen freely, which covers `stock_position`, whose
partition column changes from version to version. `Emit` takes the next `_cdc_seq`
of the generator; `EmitAgain` is a second run of the generator, which starts at 1
again with another base time (`gen` in the model).

**`CurrentState`** is the promise: a register per key that moves to the newest
version delivered. `CdcCore!CurrentOf` is the refinement mapping, and
`RefinesCurrentState` the property (without rebuild, which by design takes the view
back for a while).

**`Publish`** models `runKafka` and `PublishKafka`: `run` is the process and its
two loop variables, `Start` the flags, `Register`, `Send`, `Ack` the three calls
that can end it, `Reject` the error `AvroEncode` returns for a record it cannot
encode (`Encodes`; `bad` are the same records in every run; the run
ends where it is, with the records before it published), `Stop` every other error
return and every signal. The broker writes what
is on the `wire` at any time, also after the run is gone; acknowledgments get lost
and the client retransmits.

**`RevenueMart`** and **`PaymentFunnel`** have the current views as input variables,
which the CDC actions change (`NewOrder`, `UpdateOrder`, `NewItem`, ...), and the
refresh as two steps: `StartRefresh` fixes `today() - 3` and reads the CTE, the
right-hand side of the join; `FinishRefresh` reads the rest and appends. The mart's
variable is the `FINAL` view of the table, which is all any reader sees. In
`RevenueMart` a group stands for business unit, channel and currency; `bu` in a row
stands for the four columns that come from the dictionary. `ReloadDict` may happen
while a refresh runs: `refresh.seen` collects the entries it can have read, and
`Written` says what can then be in the mart: with two entries of one business unit the
GROUP BY has two groups for one sorting key, and FINAL keeps the row of some of the
orders.

In `PaymentFunnel` the channel is kept apart, since the table's sorting key lacks it, and
so is the reload of the dictionary: `GroupsOf` are the groups of the GROUP BY that share
a key, one per channel, and after a reload that changed the name (`TwoNames`) any part
of one; `FinishRefresh` shows one of them. The column `bu_name` itself is left out here.
`Tries` is `coalesce(apo.n, 1)`: nothing in the repository sets `join_use_nulls`, which is
0 (`docs/scenarios/001-order-360.md:370` says so of another mart), so an attempt that
arrives after the CTE was read is joined with `n = 0`, not NULL, and counts 0 attempts
per order until the next refresh.

**`Dictionary`** is the dictionary of business units: the view it copies (`registry`)
and the copy (`dict`), which `Reload` replaces as a whole.

**`MockData`** is the dataset of the eight generators, row by row: sequence number,
operation, business key, the columns some check reads, and the distance of its instant
from the base. It has no state. **`MockFlow`** runs it through the system. The
operator's calls are `ApplyDdl` (statements in order; it may stop at one of `Stops`),
`StartLoad`, `LoadFile`, `AbortLoad` (one file at a time; the file at hand may have
been written in part) and `Look`, `AskRefresh`, `Poll`, `Read`, the four stages of
`verify.sh`. The server's steps are `StartRefresh`, `FinishRefresh`, `ReloadDict` and
`NextDay`. What lands before its MV exists is lost for L1, as ClickHouse fills no MV
afterwards. `StartLoad` takes a base of any day (`MOCK_BASE`), `AskRefresh` any of the two
requests (`|| true`). `Final` is the content of a core table after another INSERT: the highest
sequence number of every key; of equal ones the later, or either when they lie in
different partitions. `CorePasses` and `MartPasses` are the checks of `verify.sh`, by
its numbers, with the results that the script or the spike report expects. A refresh
reads L1 in one step here, since `RevenueMart` and `PaymentFunnel` split it, but the
names of business units until it ends: `refresh[m].seen` are the copies of the dictionary
it got, and `Kept` says what the view keeps of its rows, whole groups where the copies
agree, the parts of a cut (`Cuts`: the rows read under one of the names) where they do not.

ClickHouse, Kafka and the registry are not in the repository. Their operations are
modelled from what the DDL and the Go code ask of them, and the map marks them
external.

## 3. Runs

| Run | Checks | Shows |
|---|---|---|
| `core_versions` | `TypeOK`, `CurrentIsLatest`, `VersionsNeverRegress`, `RefinesCurrentState` | what a reader of the view sees, under disorder, duplicates, broken INSERTs, merges, TTL |
| `core_rebuild` | `LandingReflected`, `MergeInvisible`, `Converges`, `RebuildRestores` | rebuild with the connector active and two generator runs with equal versions: nothing is lost, everything arrives, a merge never changes what FINAL shows |
| `core_tie_break` | `TieBreakByKafkaTs` (violated) | equal versions are decided by insertion order, not by `_kafka_ts` |
| `core_rebuild_ttl` | `RebuildRestores` (violated) | after the TTL the rebuild loses current rows |
| `revenue_groups` | `TypeOK`, `GroupsConverge`, `NamesConverge`, `ClosedDaysStay` | every group with an order of the window converges to the independent calculation and to the name its business unit has in the end, after late registration and renames |
| `revenue_vanished_group` | `WindowParity` (violated) | a group that lost its last order keeps its revenue |
| `revenue_history` | `HistoryCriteria` (violated) | neither a change of an order nor the name of its business unit reaches a row whose day has left the window |
| `funnel_one_channel` | `TypeOK`, `NoDoubleCounting`, `AttemptsClose`, `RetriesKept`, `RetriesClose` | the funnel closes with L1, attempts and retries, while a unit has one channel |
| `funnel_channels` | `AttemptsClose` (violated) | two channels share a row of the table |
| `publish_order` | `TypeOK`, `EmissionOrder`, `DatasetsInOrder`, `SuccessMeansPublished`, `Decodable`, `RunsEnd` | what the topics hold of every run of the producer |
| `mock_flow` | `TypeOK`, `MatrixOfL1`, `PricesAsOf`, `WaitedMatrix`, `MatrixComes` | which checks of `verify.sh` pass when, through stopped applies and loads, repeated and early loads, refreshes, reloads in the middle of them and midnight |
| `verify_poll` | `VerifiedMatrix` (violated) | `verify.sh` may read the marts before the refresh it asked for has started |

A violated property states what a document of the repository says; `PROJECT.json`
quotes it under `findings`. Every property of a passing run has a mutant of the
modelled code, defined next to the original (`Mut...`), that breaks it.

### Bounds

- `core_versions`: two keys, three versions, two INSERTs of up to two rows by two
  writers, one break. Three versions give create, delete, resurrection and every
  order of arrival; two partitions and two INSERTs give a version split over
  partitions, an INSERT that wrote one part of two, and merges of two blocks. Keys
  and writers are interchangeable, hence the symmetry.
- `core_rebuild`: one key (the two statements treat keys alike), two versions of each
  of two generator runs, two writers, so that one holds a broken batch while the other
  reinserts. INSERTs have one row here; batches that break between two partitions are
  in `core_versions`, and a reinsert is of several rows in any case.
- Marts: three days and a window of one day (yesterday and today) stand for the
  window of three: a day is in the window as today, as its last day, and then
  outside. Two orders and two groups; `MaxChanges` bounds what CDC brings, three to
  five changes, enough for an arrival, a correction and a late item or retry between
  any two reads of any refresh. `revenue_groups` has one business unit with two names,
  so that it is registered late and renamed (323,134 states). In the funnel one entry is
  enough, since the name itself is left out and '(sem cadastro)' is the other; two
  attempts are enough for a split that loses the retries (165,948 states).
- `revenue_history`: one order in one group is enough for a change and a name that come
  too late.
- `mock_flow`: instants are minutes, a month is 30 days. Bases: noon of the first day;
  the next day, less than 24 hours later; the next day, more than 24 hours after the
  first and three minutes before midnight. These are the cases that the prices (keys
  with the instant), the window and the spread of the attempts over ten minutes tell
  apart. A month begins four days before the first day, so that some rows of one key
  and version of two loads lie in different partitions. `Loads` has each base on its
  day and the second also a day early, which lets a refresh see an order that check 13
  does not expect; a late load is outside what `Settled` speaks of. An apply stops after
  the landing tables or in the middle of the sales entities, or runs to its end; a load
  stops in the file of the orders (`Breaks`), before, in the middle of or after its
  partitions: items without their orders. Stops in the other files are in the proofs.
  `Cuts` has one reload per refresh, at one row of each of the two groups with more than
  one row that checks 12 and 13 look at; a part of any other group is as wrong. Three
  calls: two loads and a verification, or an apply that stopped, its repetition and a
  load. One poll instead of twenty reaches the timeout of the loop (302,669 states).
- `verify_poll`: one base, one day, three calls are the least that shows it. Two polls.
- `publish_order`: three runs, two stops, one lost acknowledgment, datasets of three
  and two records and an empty one, one record in the middle of a dataset that the
  codec may reject, two partitions: a straggler of the first run can
  be written during the second or the third.

### Fairness

- `CdcCore`: the server finishes the parts of an INSERT it began; the connector
  retries a failed batch without end (`load.sh` does not: its operator runs it
  again, which is the assumption for it); who truncates goes on to reinsert.
  Nothing is assumed of `Emit`, `Insert`, `Break`, `Merge`, `Expire` or `Truncate`.
- Marts: the scheduler starts every refresh and the query ends. Nothing is assumed
  of CDC or of the clock; the properties say what holds once changes stop
  (`<>[]`), which the bound on changes makes happen.
  `Dictionary`: the server loads a stale copy again (LIFETIME).
- `MockFlow`: a refresh of every mart runs again and again once its view exists, each
  one ends, a stale copy is loaded again. The schedule is stated as such
  (`[]<> ... refresh[m].on` and `[]<> ~ refresh[m].on`): REFRESH EVERY starts a refresh
  whether or not there is something to do. Nothing is assumed of the operator or the clock; `MatrixComes` says
  where the system comes to rest after whatever calls were made.
- `Publish`: the process runs, registry and broker answer. The second is a real
  assumption: `ProduceSync` gets a context without deadline, so with a broker that
  never answers only a signal ends the run.

## 4. What the runs say about the code

The entity path keeps its promise in everything that was tried, including a rebuild
under a running connector. Its weak points are outside the versions: equal
`_cdc_seq` of two generator runs are decided by insertion order, against what the
data-flow document says, and a rebuild is only as good as the landing TTL.

The marts converge group by group, but not as a whole: APPEND cannot remove a group,
and nothing reaches a closed day. That concerns the amounts and the names: scenario 002
compares the revenue of 30 days, wants a rename to reach the whole history, and no row
with `_bu_found = 0` of a registered business unit, but a day is recomputed during three
days only (`HistoryCriteria`; its violation refutes both criteria, `HistoryParity` and
`HistoryNamed`). The funnel mart loses attempts as soon as one
business unit sells over two channels with the same method, acquirer, bucket and
currency. The maximum of retries per order shrinks when earlier attempts of an order
leave the window before later ones do, or when a refresh got two names for the business
unit, and only then (`RetriesKept`). It is 0 for an attempt that came between the two
reads of a refresh, although `coalesce(apo.n, 1)` looks as if it could not be. Both are
made good by the next refresh of the day (`RetriesClose`).

A business unit's name in the revenue mart is right in the end, and a reload in the
middle of a refresh, which can leave a row that counts some of the orders or attempts
only, is made good by the next refresh, as long as the day is still in the window.

The mock flow passes the verification matrix in the end from every state in which L1
holds one complete load of the day. On the way there:

- `verify.sh` waits for `status != Running` of the funnel's view. Right after
  `SYSTEM REFRESH VIEW` that holds because the refresh has not started, and the revenue
  view is never polled. If both refreshes are awaited the checks pass (`WaitedMatrix`).
- A refresh between `db-apply` and `mock-load` loads the dictionary from empty tables;
  checks 5 and 6 can fail until the copy is loaded again. If that happens in the middle
  of the refresh that `verify.sh` asked for, the marts can have a part of a group, and
  checks 12 and 13 fail although the refresh was awaited. `WaitedMatrix` therefore asks
  for a copy that is `Current` when `verify.sh` begins; without that it is violated.
- A load with the base of tomorrow lets today's refresh see the order that is to be four
  days old. Its row stays when the base's day comes, and check 13 has a fifth group.
  `Settled` therefore asks for a load that was not started early; without that
  `WaitedMatrix` is violated.
- A request for a refresh that fails is passed over (`|| true`), and `verify.sh` reads
  what was there before. `verify.waited` asks for both requests.
- After a load a day or more later than an earlier one, check 7 can fail: the price
  change of the earlier load is a row of its own, and items of the new base that are
  meant to be older than the change find it. `PricesAsOf` states the condition under
  which check 7 passes: the prices of one age, old as well as new, lie within less than
  a day. The old ones matter too, which the bases of the run do not show and the proof
  did: a load some 89 days later that was aborted between the partitions of the prices
  brings its old price, whose `valid_from` is then later than the change that is in
  force. Checks 1 to 4 and 8 do not depend on the base (`MatrixOfL1`).
- A base in the last ten minutes of a day spreads the attempts of one test over two
  days, and so over two rows: checks 11 and 12 fail. `Settled` leaves this case out.

## 5. Proofs

Each theorem holds for all values of the constants that satisfy the module's
assumption (`CdcAssumption`, `PublishAssumption`, `RevenueAssumption`,
`FunnelAssumption`, `MockAssumption`), hence for any number of keys, writers,
partitions, datasets, records, runs, orders, payments, groups and days. The three
theorems that hold in one case only (`Refinement`, `RetriesStay`, `WaitedMatrixHolds`)
say so in their statement. Every inductive invariant named here was checked by TLC on
the instances of section 3; `MatrixInv`, which takes long to evaluate, on the one of
`mock_flow` with two of its loads (the early one and the one before midnight).

### The entity path

`CdcCoreProofs`:

- `TypeCorrect`: `Spec => []TypeOK`. By induction, one lemma step per action.
- `NeverRegress`: `Spec => VersionsNeverRegress`. Only `Merge` and `Truncate` take
  rows out of `core`. `SomeRowSurvives`: in a finite set of rows every row has an
  unbeaten row at least as new of the same key, because `Beats` is a strict order
  (`BeatsIrreflexive`, `BeatsTransitive`) and thus well-founded on a finite set.
  `MergeKeepsVersions` applies it to the range of a merge. This needs the invariant
  that `core`, `landing` and every INSERT are finite (`NextFinite`).
- `Reconciliation`: `Spec => []LandingReflected`. The inductive invariant is `TypeOK`,
  finiteness and `LandingReflected` itself: `ReflectedStable` (from
  `StepKeepsVersions`) says that what is reflected stays so until a truncate; `Push`
  turns pending into reflected; `Break` turns "on its way" into "held by a broken
  INSERT", which is pending still; `Truncate` makes the premise false and `Reinsert`
  makes all of landing pending at once.

What the reader of a view sees rests on these:

- `MergesInvisible`: `Spec => MergeInvisible`. A row that a merge drops is beaten by
  one that stays, and what is unbeaten among the rest was unbeaten before, so `FINAL`
  returns the same rows.
- `LatestShown`: `Spec => []CurrentIsLatest`. The invariant is `ViewInv`: types,
  finiteness, `LandingReflected` and `FromScript`, which says that every event and
  every core row still has the key and the deletion flag that the generator decided
  for its version. Reconciliation puts a row at least as new as the newest landed
  version into `core`; finiteness makes the newest row of a key exist; `FromScript`
  makes all rows of that version alike, so that ties between blocks and partitions do
  not matter to the view. `CurrentIsLatest` alone is not inductive: a `Push` may
  uncover nothing unless what is in the batch is known to be what landed.
- `Refinement`: with `MaxRebuilds = 0`, `Spec => RefinesCurrentState`. The mapping
  gives, for every key, the newest version in `core` (`MappedToNewest`). `Emit` is the
  abstract emission, `Push` is `Deliver` of the versions in the part it writes
  (`PushDelivers`), a merge keeps the newest row, everything else leaves `core` and
  `script` alone. A rebuild empties the table and so takes the register back, by
  design; the theorem is about systems without one, as the run is.

### The producer

`PublishProofs` proves all five invariants of `publish_order`: `ProducerTypes`
(`TypeOK`), `Emission` (`EmissionOrder`), `OneDatasetAfterTheOther`
(`DatasetsInOrder`), `NoFalseSuccess` (`SuccessMeansPublished`) and `AlwaysDecodable`
(`Decodable`). They need one invariant together, `PubInv`:

- `Carried`: what is on the wire, acknowledged or stored is a record of a run that
  was started, with a known schema, and is stored in the partition of its key.
- `OneInFlight`, `NextInFlight`: a run has at most one record in flight, and that is
  the one after all it has in the topics, or the last of these (a retransmission).
  Without it the late write of a dead run could leave a gap.
- `InFlightInOrder`: a record in flight of the current run comes after complete
  datasets, also when the run is over; the record may be written after that.
- `Loop`: in each control state, what of the run is in the topics is exactly what the
  loop variables say: all of the datasets before `run.d`, the records before `run.i`,
  nothing behind. `NotYetRun`: no outcome before the run.

The order across partitions rests on the key: a partition holds a run's records of
its keys in emission order, since each write appends the next record of the run.

### The marts

`RevenueMartProofs`:

- `MartTypes`: `Spec => []TypeOK`. The unsigned columns of the mart never get a
  negative value. The counts and sums are over sets of orders and items that are
  finite at any time (`FiniteViews`, the strengthening: a step adds one row at most);
  no assumption makes the set of ids finite. `MeasuresTyped` does one row,
  `WrittenTyped` all the rows that a refresh across a dictionary reload may write.
- `DaysClose`: `Spec => ClosedDaysStay`. Only `FinishRefresh` writes the mart, and
  only days from `refresh.from` on (`WritesWindowOnly`); comparing days needs them to
  be integers, which is the invariant `DaysTyped`.

`PaymentFunnelProofs`, with the invariant `FunnelInv`:

- `FunnelTypes`: `Spec => []TypeOK`. A row has an attempt, since every group has one;
  its attempts per order may be 0, and are never less.
- `NothingCountedTwice`: `Spec => []NoDoubleCounting`, for any number of channels. A
  row of one group counts members of one `AttemptsOf(k)`, and attempts are never
  taken back, so an old row stays below the bound.
- `RetriesStay`: with one channel, `Spec => RetriesKept`, for any names and reloads. `CteBacked`: what the
  refresh in progress counted is there; `RowsBacked`: a row that speaks of retries has
  an attempt whose order was tried that often; `RefreshKnows`: the refresh in progress
  knows these retries too, or leaves an attempt of the order out, since it was started
  for a later window. The last one is what `FinishRefresh` needs of the
  rows it replaces, which are of earlier refreshes: unless it got two names, it writes
  the one group with all attempts of the key. The hypothesis is there because the
  sorting key of the table lacks the channel: with two channels FINAL shows either
  group's row (`funnel_channels`), and the theorem is false.

As in `RevenueMartProofs`, counting needs finite sets: `FinitePayments` says that the
view has finitely many attempts at any time, and is part of `FunnelInv`.

### The mock flow

`MockFlowProofs` proves `FlowTypes`: `Spec => []TypeOK`, for any bases, stops, window,
month, and numbers of calls, polls and days. Its core is `FinalOnePerKey`: of two rows
of one key in a core table, version, order of the INSERTs or partition leaves one. That
holds only because no file has two rows of one sequence number (`DatasetNumbered`, from
the counter of the generators), so `FlowInv` carries the versions along with the types
and with the rows of the refresh in progress (`RefreshRows`).

`MockMatrixProofs` proves what `verify.sh` finds in L1, from the invariant `L1Inv`:

- `FromFiles`: L1 holds nothing but what some load wrote; `Landed`: after a load that
  ran to its end on a complete schema, every table has, of every key of that load, a
  version at least as new (`Covers`); `UnderWay`: the same of the files that the load in
  progress has passed, as far as their MVs exist; `PricedItems`: an item came after the
  prices of its own load. All rest on `FinalCovers`: of every key FINAL keeps a version
  as high as any, whichever side wins a tie. A file that was written in part, or lost
  before its MV existed, can only leave more in place.
- `MatrixStays`: `Spec => []MatrixOfL1`. `TableIsLast`: what is at least as new as
  everything of a load, and of the files, is the last version of every key; only its
  base may be any (`ShownOrders`, `ShownItems`, `ShownPositions`). The rest is the data:
  lemmas `OrderIds`, `Items`, `Positions`.
- `PricesInForce`: `Spec => []PricesAsOf`, with or without a load that ended. An item
  finds the two prices of its own load (`PriceThere`), or the change of a load at just
  that instant; the condition bounds where all others can lie (`PricedItem`), and
  `PricedExists` that one of them is the latest.

`MockMartProofs` proves what `verify.sh` finds in the marts, `WaitedMatrixHolds`: with
`Window = 3`, `Spec => []WaitedMatrix`, for any `Bases`, `Loads`, `Breaks`, `Stops` and
`Cuts`. The property speaks of one state at the end of
`verify.sh`; what makes it true is spread over everything that happened before. The
inductive invariant `MatrixInv` is `L1Inv`, the property, and

- `Stages`: while `verify.sh` runs nothing is loaded, none of the checks 10 to 13 has
  failed yet, and if it began on one load, L1 still holds that load and no other
  (`Left`), also after midnight. The copy of the dictionary stays the registry's
  (`CopyIsNew`), so no reload cuts a refresh that starts from here on.
- `Reads`: from the request on, as long as that load is settled, each mart is `Fresh`:
  the refresh is still to come, or it is running and has read what the query gives now,
  or the mart has all these rows, whole (`KeptWhole`: with one copy nothing is cut). A
  refresh that the scheduler began before the request is no danger, cut or not, since the
  request outlives its end. At midnight the premise ends: the
  load would have to be of the new day, but all prices in L1 are of a base of an earlier
  one (`OneBase`, `MidnightKeepsMatrix`).
- `MartRows`: every row of a mart, and every row a refresh has read, whole or cut
  (`FunnelCounts`, `RevenueCounts`), counts rows of a load whose prices are in L1 and, if
  it was not started early, of orders that are in the window of its day. It rests on `PricedRows` (orders and payments came after
  the prices of their load, the order of the files) and `DatedLoad`. That is why rows
  of earlier loads, which no refresh ever deletes, are not in the way: with one load
  left in L1, every row of a mart is of its base (`SettledBase`).

The rest is the data again, now with counts: the attempts of an acquirer are one group
of the funnel (`AcquirerGroups`, `GroupRow`), whose row has the numbers checks 10 to 12
expect (`FunnelChecks`), and the orders of the last three days make the four groups of
check 13 (`SoldKeys`, `RevenueCheck`). `Window = 3`, the code's `today() - 3`, is a
hypothesis because the theorem is false without it: the retries of check 12 are three
days old, and the order of four days ago would be a fifth group of check 13.

### Helpers

`NatFacts` has what these proofs keep needing: `LeastExists`, `GreatestExists` (from
the well-foundedness of `<`), and `SumIsNat`: a finite sum of natural numbers is a
natural number. The last one is about the library's `SumFunctionOnSet`, a recursive
function over the subsets of a set. `SumsExist` shows that such a function exists,
`SumIsNat` that its values are natural, both by a least counterexample over the
cardinality of the subset: the induction theorems of the library cannot be used,
because they take an operator as a parameter.

## 6. Model-checked only

- Liveness (`Converges`, `RebuildRestores`, `GroupsConverge`, `NamesConverge`,
  `AttemptsClose`, `RetriesClose`, `MatrixComes`, `RunsEnd`) is out of the prover's reach: tlapm does
  no fairness and no ENABLED.
- `VerifiedMatrix` and the other properties of the runs that expect a violation are
  false, and have nothing to prove.

All invariants and action properties of the passing runs are theorems.

## 7. Not modelled

- The values of business columns, decimals, timestamps and the Avro wire format
  (`Publish` knows whether a record encodes, not to which bytes; `MockData` keeps the
  columns that a check reads).
- Rates, latencies and averages of the marts: functions of one row. Of the
  latencies `MockFlow` keeps the values that go into the quantile.
- Replicas and `ON CLUSTER` (the local topology has one node), memory, performance.
- Deletes and changes of orders below the funnel mart: like a vanished group in
  `RevenueMart` they leave rows of earlier refreshes behind.
- The connector's offsets, its KeeperMap state and its dead letter queue: they are
  inside the connector, and the repository holds only its settings. As a writer of
  `CdcCore` it delivers any batch, again if it broke. For the same reason `kafka-e2e`,
  which sleeps 15 seconds between `producer kafka` and `verify.sh`, is not part of
  `MockFlow`: nothing in the repository says what the sinks do in that time.
- Topics, connector registration, `wait-healthy.sh`: idempotent calls of external
  tools. Contexts' boundary check, contracts, schemas, compose file: no behaviour.
- Check 14 of `verify.sh`, which prints counts and expects nothing.
- `dhctl`, `api`, configuration, logging, version: no state.

## 8. Plan

1. `Codec`: `coerceValue` and `toInt64` with their widths against a reference.
