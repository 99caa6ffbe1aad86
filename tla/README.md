# Formal models of porter's revisions job and billing paths

This directory holds TLA+ models of three parts of porter:
- the retention job in `src/workers/jobs/helm_revisions_count_tracker.go`, with the cluster delete handler that changes its table while it runs;
- the billing setup of a project: `src/api/server/handlers/project/create.go`, `CheckPaymentEnabledHandler` in `src/api/server/handlers/billing/list.go`, and the Lago client of `src/internal/billing/usage.go`;
- usage ingestion: `src/api/server/handlers/billing/ingest.go` and `LagoClient.IngestEvents`.

The retention job caps the number of helm revisions kept per release on every
monitored cluster, and archives a revision to S3 before it deletes it. The
rest of `src/` is request/response glue over a database or third-party APIs
(see "Not modelled").

## The system

`helmRevisionsCountTracker.Run` (lines 129-288) is made of five parts.

**FleetCoordinator** (lines 130-144, 282-287)
- Counts the rows of the cluster table. The count is not filtered by `monitor_helm_releases`.
- Loops `(count/stepSize)+1` times.
- Each time, it fetches one page of monitored clusters with `Order("id asc").Offset(i*stepSize).Limit(stepSize)`.
- It starts one goroutine per cluster, then waits for all of them (`wg.Wait`) before fetching the next page.
- A database error returns the error. Otherwise `Run` returns nil.

**ClusterSweepTask** (the goroutine, lines 150-188)
- Makes four calls: `ReadCluster`, `NewS3StorageClient`, `GetAgentOutOfClusterConfig` and `ListNamespaces`.
- The first call that fails ends the goroutine.

**ReleaseSweeper** (lines 190-242)
- For each namespace: `NewRetryHelmAgent`, then `ListReleases`. A failure of either skips the namespace.
- For each release: `GetReleaseHistory`. A failure skips the release.
- A release with `len <= revisionsCount` revisions is skipped.

**RevisionEvictionPolicy** (lines 232-244)
- Sorts the history newest first (`releaseutil.Reverse(.., SortByRevision)`).
- Visits indexes `revisionsCount .. len-1`.

**ArchiveThenDeletePipeline** (lines 244-278), for each visited revision:
- `json.Marshal`, then `WriteFileWithKey` at `project/cluster/ns/release/version`.
- Only when the write succeeds: `DeleteReleaseRevision`.
- Every error is logged, and the loop goes on to the next revision.

These parts interact with each other only through the stores they share:
- the helm release storage of each cluster (the "live store");
- the S3 bucket.

The cluster table the coordinator pages through is changed meanwhile by the
cluster delete handler (`ClusterDeleteHandler.ServeHTTP`, `cluster/delete.go`
34-84). It refuses a CAPI cluster that is updating, and otherwise soft-deletes
the row (gorm's `DeletedAt`), which hides it from the count and from the pages.

**Billing setup.** The project create handler runs these steps, and returns at the first error:
- `CreateProjectWithUser` (project, admin role, re-read);
- the onboarding row;
- a Stripe customer, if Stripe billing is on;
- `CreateCustomerWithPlan` on Lago, if Lago is on;
- `UpdateProject` with the BillingID;
- the usage row.

`CheckPaymentEnabled` calls `ensureBillingSetup`. It creates the Stripe customer if
the project's BillingID is empty and saves it. It then creates the Lago
customer if `CheckIfCustomerExists` says there is none. Any number of these
requests can run at once.
Before each of the two steps it looks up the project's admin with
`getAdminUser`, which panics (list.go:164) when no admin role has a readable
user.

`CreateCustomerWithPlan` makes these calls in order:
- it creates the customer;
- in the sandbox, it subscribes the customer to the cloud plan and grants the starter credits;
- otherwise, it subscribes the customer to the trial and then to the standard plan.

**Usage ingestion.** `IngestEvents` cuts the events into batches of 100. For each batch:
- it parses every customer id, and returns at the first that does not parse;
- it sends the batch, with up to 10 attempts.

Concurrency comes from three sources:
- the goroutines of one page;
- a second run of the job that starts before the first one ends (the scheduler does not prevent it);
- users running `helm upgrade` while the job works.

## Modules

| Module | Models | Used by |
|---|---|---|
| `HelmRevisionsTracker` | the whole job: coordinator, goroutines, sweeper, pipeline, plus the environment (upgrades, crashes) | runs `single_run`, `overlapping_runs`; proofs |
| `MCHelmRevisionsTracker` | the constants of the two job runs (model values, small cluster layouts) | both job runs |
| `HelmRevisionsTrackerProofs` | TLAPS proofs about `HelmRevisionsTracker` | tlapm |
| `RevisionEvictionPolicy` | the sort-and-slice of lines 232-244 on sequences, with the spec's reference | run `eviction_policy` |
| `MCRevisionEvictionPolicy` | the instance of that run | `eviction_policy` |
| `RevisionRetention` | the abstract retention spec: create, store, evict with `revisionsCount` newer live | instanced by `HelmRevisionsTracker` as `RetentionRefined` (proved, not a run property) |
| `HelmRevisionsTrackerRefinement` | TLAPS proof that the job implements `RevisionRetention` | tlapm |
| `HelmRevisionsTrackerConvergence` | TLAPS proof of `SweptReleaseConverged` | tlapm |
| `HelmRevisionsTrackerCoverage` | TLAPS proof of `EveryMonitoredClusterSwept` | tlapm |
| `FleetPagination` | the page loop of `Run` against a table that `DeleteCluster` and creation change | runs `fleet_pagination`, `fleet_pagination_skip` |
| `OrderedScan` | the abstract page loop: batches of present monitored clusters, each above every cluster visited before, with rows deleted and created freely | instanced by `FleetPagination` as `ScanRefined` |
| `BillingSetup` | the create handler, concurrent CheckPaymentEnabled requests, the Lago customer/plan/credits calls | runs `billing_*` |
| `LagoIngest` | the ingest handler and `IngestEvents` batching and retries | runs `ingest*` |
| `FleetPaginationProofs`, `BillingSetupProofs`, `LagoIngestProofs` | TLAPS proofs of the invariants of the `fleet_pagination`, `billing_setup` and `ingest` runs, and of `ScanRefined` | tlapm |

`FleetPagination`, `BillingSetup` and `LagoIngest` each have an `MC` module that only extends it, with its constants in the cfgs.

### FleetPagination, BillingSetup, LagoIngest: state and actions

- **`FleetPagination`**
  - `rows` are the ids of the rows that are not deleted. `PageOf(i)` is the `i`-th page of the monitored rows in id order.
  - `Count`, `FetchPage`, `Join` and `Finish` are lines 130-151 and 282-288.
  - `DeleteCluster(c)` is the delete handler. `CreateCluster` takes the next auto-increment id. Creation is not in `src/`, so it is modelled from the spec.
  - `sweeps[c]` counts the goroutines started for `c`. `atCount` records the monitored rows at the count.
- **`BillingSetup`**
  - The actors are the creator and the requests `Reqs`. `pc[a]` holds each actor's place.
  - `bid[a]` is the BillingID the actor holds in memory. `billingId` is the database column.
  - `stripe` counts the Stripe customers created.
  - The Lago state is `lagoCustomer`, `lagoLink` (the Stripe id the customer was created with), `plans` and `grants`.
  - There is one action per call of the handlers and of `CreateCustomerWithPlan`. Each action has its error disjunct.
  - The configuration flags (Stripe on, Lago on, sandbox) are chosen in `Init`.
- **`LagoIngest`**
  - The events are `1..NumEvents`. `bad` is the set of events whose customer id does not parse.
  - `StartBatch` is the loop head with its parse check. `SendOk` and `SendFail` are one attempt of `Event().Batch`. `Health` is the health webhook.
  - `delivered` is what Lago stored. `dropped` is the events whose batch ran out of attempts.

### HelmRevisionsTracker: state

- `live[r]`: the versions stored by helm for release `r`.
- `created[r]`: every version ever created. This is a history variable.
- `archive`: the set of `<<release, version>>` written to S3.
- Per run `u`:
  - `runPc[u]`: where `Run` is;
  - `page[u]`: the loop index `i`;
  - `pages[u]`: `count/stepSize + 1`.
- Per goroutine `w = <<u, c>>` (run `u`, cluster `c`):
  - `pc[w]`;
  - `nsLeft[w]`, `relLeft[w]`: the namespaces and releases still to visit;
  - `cur[w]`, `hist[w]`: the release and its fetched history;
  - `evLeft[w]`: the evictable versions still to visit;
  - `rev[w]`: the version being deleted;
  - `relOk[w]`: no call failed for this release.

Namespaces and releases are visited in any order, which over-approximates
the order of the lists. Versions are numbers. A payload is the pair
`<<release, version>>`, which is exactly what the key identifies.

### HelmRevisionsTracker: actions

Each action is one step of the code; `PROJECT.json` "map" gives the lines of each.

- `Count`: lines 130-134.
- `FetchPage`: lines 138-151. The page is `PageOf(i)`, the monitored clusters of rank `i*stepSize+1 .. (i+1)*stepSize` by id.
- `Join`: line 284, `wg.Wait`.
- `Finish`: line 287.
- `Connect`: lines 150-188.
- `OpenNamespace`: lines 190-222.
- `EndCluster`: the end of the namespace loop, with the deferred `wg.Done`.
- `FetchHistory`: lines 224-242.
  - It takes the snapshot `hist` and the evictable versions `Evictable(hist)`, defined as the versions with at least `revisionsCount` newer ones in the snapshot.
  - The `RevisionEvictionPolicy` run checks that this set is exactly what the code's sort-and-slice selects.
- `EndNamespace`: the end of the release loop.
- `Archive`: lines 244-266. It visits the newest evictable version left (the loop order after the descending sort).
  - A marshal or write error skips the revision.
  - A write error may still have stored the object (timeout).
- `DeleteRevision`: lines 268-277.
  - The delete fails when the revision is gone.
  - It may also report an error after taking effect.
- `EndRelease`: the end of the eviction loop.
- Environment actions:
  - `Upgrade(r)`: `helm upgrade` stores version newest+1.
  - `Crash(u)`: the process dies, and that run and its goroutines stop where they are.

## Runs

| Run | Checks | Shows |
|---|---|---|
| `single_run` | DeletedOnlyIfArchived, RetainNewest, SweptReleaseConverged, EveryMonitoredClusterSwept, RunTerminates | correctness of one run, with any failure, crash or upgrade |
| `overlapping_runs` | DeletedOnlyIfArchived, RetainNewest, SweptReleaseConverged, RunTerminates | two runs on the same release, each with a stale snapshot |
| `eviction_policy` | EvictionMatchesReference | the code's sort-and-slice equals "all but the keep newest" |
| `fleet_pagination` | NoClusterSweptTwice, ScanRefined | deletes and creations between pages never give a cluster two goroutines, and the pages go up the ids |
| `fleet_pagination_skip` (violation) | StableClusterSwept | a cluster monitored throughout is skipped when a lower id is deleted mid-run |
| `ingest` | NoEventPastMalformed | nothing at or after a batch with a malformed id reaches Lago |
| `ingest_early_return` (violation) | AllBatchesAttempted | a 200 after only the first batch was sent |
| `ingest_retries_swallowed` (violation) | ExhaustedRetriesReported | a batch refused on every attempt is dropped with a 200 |
| `billing_setup` | OkAnswerHasStripeCustomer, LagoLinkedToStripe | a success answer leaves a saved Stripe customer; the Lago customer always links one |
| `billing_orphan_stripe` (violation) | OneStripeCustomer | a second Stripe customer after a failed create or two concurrent requests |
| `billing_plan_missing` (violation) | SubscribedWhenCustomer | a later request answers success while the Lago customer still has no plan |
| `billing_panic` (violation) | NoPanic | CheckPaymentEnabled panics in `getAdminUser` (list.go:164) on a project without a readable admin |

The job implements `RevisionRetention` (see Proofs). Under the identity
mapping that refinement says no more than DeletedOnlyIfArchived and
RetainNewest together, so no run checks it as a property of its own.
`fleet_pagination` also checks
`ScanRefined`: with `swept` mapped to the clusters the run gave a goroutine
(`{c \in Ids : sweeps[c] # 0}`), the page loop implements `OrderedScan`.
The refinement is not the identity: the abstract spec has no pages, no
offsets and no counts, only the set of visited clusters, and its `Visit`
step asks that a batch lie above every cluster visited before. That is the
promise `Order("id asc")` makes, and it must hold even for a visited
cluster deleted since. The mutant that orders by `id desc` breaks it.

### Findings

Each violation run is a defect of the code. `PROJECT.json` gives each one with its line.

1. **The pagination skips a cluster.** The page offsets count rows that exist when the page is fetched. After a soft delete of an already-swept cluster, the later rows move down one place, so one is never fetched. The trace:
   - the rows are {1,2,3}, with pages of 2;
   - page 0 is {1,2};
   - cluster 1 is deleted;
   - page 1, at offset 2, is empty;
   - cluster 3 is never swept.
2. **`IngestEvents` sends only the first batch.** The `return nil` inside the retry loop (usage.go:408) ends the whole call after the first accepted batch.
3. **`IngestEvents` swallows a failure.** The exhaustion test at usage.go:412 reads an outer `currentAttempts` that the loop variable shadows, so it is never true. A batch that is refused on every attempt is dropped, and the call returns nil.
4. **Orphan Stripe customer.** The create handler returns at a Lago error after the Stripe customer exists but before BillingID is saved. A later `CheckPaymentEnabled` then creates another customer. Two concurrent requests do the same.
5. **Lago customer without a plan.** `addCustomerPlan` fails after `createCustomer` succeeded, and the create handler returns its error. A later `CheckPaymentEnabled` finds the customer with `CheckIfCustomerExists`, returns at list.go:216 without adding the plan, and answers success. The property asks that a request answering success leaves the customer subscribed, so code that repaired the plan would pass it. Ingestion outside the sandbox then fails at `GetCustomerActivePlan`.
6. **Nil dereference.** `getAdminUser` reads `adminUser.ID` at list.go:164 after its loop, whether or not it found an admin. With no admin role of a readable user it dereferences nil, so the request panics in its first `getAdminUser` call. The fallback to the current user at lines 110-113, which the comment promises, is never reached. The model reaches this through a `CreateProjectRole` failure after `CreateProject` succeeded.

The properties:

- **DeletedOnlyIfArchived** (spec invariant 2): every revision gone from the live store has its key in the archive.
- **RetainNewest** (spec invariants 1 and 4): every deleted revision has at least `revisionsCount` newer revisions still live.
  - It would fail if a stale snapshot, an overlapping run or an off-by-one deleted a revision that is among the newest.
- **SweptReleaseConverged** (spec §8): when a goroutine ends a release on which no call failed, at most `revisionsCount` of the versions in its snapshot are still live. Revisions created since the snapshot may be live as well.
- **EveryMonitoredClusterSwept**: when a run returns nil, every monitored cluster got a goroutine. This tests the page arithmetic of line 138.
- **RunTerminates**: every run ends. It relies on `wg.Wait` being released by every goroutine path.
- **EvictionMatchesReference** (spec 4.1), for every order of the input:
  - the evicted versions are the input minus its keep newest;
  - each evicted version appears once;
  - the set is the one `Evictable` gives.

Every property has a mutant in `PROJECT.json`, and TLC finds the property violated with that mutant:

| Mutant | What changes | Property it breaks |
|---|---|---|
| `ArchiveIgnoringError` | deletes after a failed write | DeletedOnlyIfArchived |
| `EvictableKeepsOneLess` | keeps one revision too few | RetainNewest |
| `EvictableKeepsOneMore` | keeps one revision too many | SweptReleaseConverged |
| `PageCountNoPlusOne` | loop bound without the `+1` | EveryMonitoredClusterSwept |
| `ConnectWithoutDone` | an error path without `wg.Done` | RunTerminates |
| `EvictionTailFromKeep` | the loop starts one index early | EvictionMatchesReference |
| `SortedOldestFirst` | the sort without `Reverse` | EvictionMatchesReference (breaks it as well) |
| `PageOfOverlapping` | `Offset(i*stepSize-1)` | NoClusterSweptTwice |
| `PageOfDescending` | `Order("id desc")` | ScanRefined |
| `StartBatchSkipping` | a malformed event skipped instead of failing the call | NoEventPastMalformed |
| `SaveBillingIdSkipped` | `UpdateProject` of the new BillingID lost | OkAnswerHasStripeCustomer |
| `RequestStartSkippingStripe` | the `BillingID == ""` test dropped | LagoLinkedToStripe |

### Bounds, and why they are enough

`single_run` uses:
- three monitored clusters with a page size of two, so there are two pages and the last one is partial;
- two namespaces, one of them empty;
- two releases on cluster 1 with two revisions each, keep 1, and versions up to 3, so each release can be upgraded once during the run.

This instance reaches every case the properties are about:
- eviction;
- a failed write, with or without the object being stored;
- a failed delete, with or without the deletion taking effect;
- an upgrade between the history fetch and the delete;
- a crash between the write and the delete;
- a cluster on the second page.

`overlapping_runs` uses two runs on one release, so each run acts on a history the other run and the upgrades have made stale.

The job runs take about 7 s and 20 s. Larger histories multiply the state
space without adding a new interleaving: each delete and archive step acts on
one version, and the properties are per version.

The other instances:
- **`MCFleetPagination`** has 3 initial clusters and ids up to 4, with pages of 2.
  - So there are two pages, and a delete and a creation can both fall between them.
  - Cluster 2 is a CAPI cluster that is updating, so the delete handler's refusal is reached.
- **`MCLagoIngest`** has 5 events in batches of 2, with 2 attempts. It stands for 100 events per batch and 10 attempts.
  - This gives two full batches and a partial one, a retry, and a batch that runs out of attempts.
  - Every subset of the events can be malformed.
- **`MCBillingSetup`** has the creator and two requests.
  - This is the smallest instance in which two requests race after a create that failed.
  - The bounds of 3 Stripe customers and 2 grants lie above the one each should reach.

Every cfg sets `CHECK_DEADLOCK FALSE`, because these systems really stop: a
run returns, a request is answered (or waits for ever on a call without a
timeout), and the policy computation is done.

### Fairness

The spec has weak fairness on each run's steps (`RunStep(u)`) and each
goroutine's steps (`TaskStep(w)`). This is justified on two grounds:
- the Go runtime schedules every runnable goroutine;
- every external call returns within its timeout (`Timeout: 5 * time.Second`, and the retries of `NewRetryHelmAgent` are bounded).

Upgrades and crashes have no fairness: they may never happen.

`FleetPagination` assumes no fairness. It checks only safety, and a
liveness property of the page loop alone would only repeat RunTerminates:
its bound is fixed when the run counts, and every step moves it on.

`LagoIngest` assumes no fairness either. `Event().Batch` runs on the
request's context, and `postIngestHealthEndpoint` posts with a plain
`http.Client{}` that has no timeout and no context (ingest.go:122-123). The
call can block for ever, so the code does not guarantee that a request is
answered. That is listed as a hazard with no property.

`BillingSetup` checks no liveness, so it assumes no fairness: a request may
never arrive.

## Proofs

`HelmRevisionsTrackerProofs` proves the following for every value of the constants:

| Theorem | Statement |
|---|---|
| `TypeCorrect` | `Spec => []TypeOK` |
| `RetainNewestHolds` | `Spec => []RetainNewest` |
| `DeletedOnlyIfArchivedHolds` | `Spec => []DeletedOnlyIfArchived` |

They rest on the assumptions named in `HelmRevisionsTracker`:
- finite cluster ids that are naturals;
- a well-formed layout;
- `RevisionsCount >= 1`;
- `StepSize >= 1`;
- initial histories inside `1..MaxVersion`.

The properties alone are not inductive. For example, a delete step preserves
RetainNewest only if the deleted version was evictable, and the archive step
only if the goroutine's release is a release. So the proofs use the stronger
invariant `IInv`, made of the following conjuncts:
- `TypeOK`;
- `CurSet`: an evicting goroutine's `cur` is a release;
- `LiveCreated`: `live[r] \subseteq created[r]`;
- `SnapshotSound`: an evicting goroutine's snapshot was created, and its `evLeft` is evictable in the snapshot;
- `DeletePending`: a goroutine about to delete has archived that version, and it is still in `evLeft`;
- the two properties.

TLC checked `IInv` as an invariant of both job runs before it was proved.

The central lemma is `EvictableHasNewer`. It says that a version that is
evictable in a stale snapshot still has at least `revisionsCount` newer
versions in the current store. The reason has two parts:
- a newer version in the snapshot is either still live, or was deleted;
- by RetainNewest, a deleted newer version leaves `revisionsCount` even newer versions live.

This argument is why overlapping runs and upgrades cannot make the job
delete one of the newest revisions. `DeleteRetains` and `AddRetains` carry
RetainNewest across a delete and across an upgrade.

`HelmRevisionsTrackerRefinement` proves `Refinement == Spec => RetentionRefined`.
The abstract specification is `RevisionRetention`. Its state is the same
`live`, `created` and `archive`, so the refinement mapping is the identity.
The proof has three parts:
- `RefInit` shows that the initial states correspond.
- `RefNext` shows, from `IInv`, that each step of the job is one of the following:
  - an upgrade is a `Create`;
  - a successful archive is a `Store`;
  - a delete of a live version is an `Evict`, whose `revisionsCount` newer live versions come from `EvictableHasNewer`;
  - every other step is a stutter of the abstract state.
- The temporal step combines the two with `[]IInv`.

`UpgradeFresh` shows that an upgrade's version was never created before.
`SameCardinality` bridges the instance's `Cardinality` with the module's own.

### The convergence of one release (`HelmRevisionsTrackerConvergence`)

`SweptReleaseConvergedHolds` proves `Spec => []SweptReleaseConverged`. The
inductive invariant `CInv` is `IInv` and one more conjunct:
- `EvictedGone`: while no call for its release has failed, every revision
  a goroutine has already visited (evictable in its snapshot, no longer in
  `evLeft`) is gone from the store.

Two facts about the code make `EvictedGone` inductive:
- `DeleteRevision` takes the revision out of `evLeft` in the same step that
  it deletes it, and any failure clears `relOk`.
- An upgrade never brings a gone version back. `GoneOlderThanLive` shows from
  `RetainNewest` that a gone version is older than some live one. Helm's next
  version is one past the newest live one, so it is newer still.

`KeptFew` is the counting step: the versions the loop keeps, `H \ Evictable(H)`,
are at most `RevisionsCount`. Map each kept version to the number of versions
of `H` newer than it. That number is below `RevisionsCount`, and
`NewerShrinks` shows that distinct versions get distinct numbers. So by
`FS_PigeonHole` there cannot be more kept versions than `RevisionsCount`.
TLC checked `CInv` on both job runs before it was proved.

### Coverage of the page loop (`HelmRevisionsTrackerCoverage`)

`EveryMonitoredClusterSweptHolds` proves `Spec => []EveryMonitoredClusterSwept`.
The inductive invariant `SInv` has two parts:
- `StartedReached`: for a live run, the clusters it has started are exactly
  the monitored ones whose rank is at most `page*stepSize`, or
  `(page+1)*stepSize` while it waits on `wg.Wait`;
- `PageLoop`: the page count is fixed at the count, and `done` implies
  `page >= pages`.

`FetchPage` adds `PageOf(page)`, which is the ranks in
`(page*stepSize, (page+1)*stepSize]`. Goroutine steps never return a place
to `idle`, and that is lemma `TaskKeepsStarted`. `AllReached` is the
arithmetic of line 138: a rank is at most `count`, and
`count < (count/stepSize + 1) * stepSize`.

### Pagination, billing and ingest

- **`FleetPaginationProofs`** proves `NoClusterSweptTwiceHolds`. Its
  inductive invariant is made of:
  - `SweptBehind`: a swept cluster still in the table has a rank within
    the pages already fetched;
  - `FreshIds`: ids from `nextId` up are neither rows nor swept.

  Two lemmas carry `SweptBehind` across the table changes.
  `RemoveKeepsRankDown` shows that a delete never raises a rank.
  `AddAboveKeepsRank` shows that a creation, whose id is above every row,
  changes no rank. The finding of `fleet_pagination_skip` is the other side
  of the same fact: ranks go down, so a page can skip a row but never
  repeat one.

  The same module proves `ScanRefinement`: `Spec => ScanRefined`, the
  page loop implements `OrderedScan`. `SweptBehind` is not enough for it.
  A page member must lie above every swept cluster, and a swept cluster
  that was deleted since has no rank to compare. The invariant is
  strengthened with `SweptBelow`: a present cluster at or below any swept
  id, present or deleted, has a rank the pages have passed. It holds
  because a page's members are the ranks just above the reach, and `RankMono`
  (a lower id has a lower or equal rank) carries it to every row below
  them. A delete only lowers ranks, and a creation's id is above every
  swept id (`FreshIds`). `JInvInit` and `JInvNext` prove `IInv /\ SweptBelow`
  inductive. `ScanStep` maps each step to an abstract one: a fetched page
  is `Visit` with the page as the batch, a delete is `Remove`, a creation is
  `Add`, and the rest are stutters. TLC checked `SweptBelow` on the run's
  instance, and on one with six ids and five monitored, before the proof.
- **`BillingSetupProofs`** proves `OkAnswerHolds` and `LagoLinkHolds`. The
  inductive invariant adds the following:
  - `HoldsCustomer`: an actor past its Stripe step holds a customer;
  - `RowHasCustomer`: an actor past its save sees `BillingID` set;
  - `StripeStepFresh`: a request reaches its Stripe step only having read
    `BillingID` empty. Without it, a request that read a set id would look,
    to the invariant, like one that could go on without a customer.

  The column is only ever written with a held customer and never cleared.
  That is why the orphan-customer finding breaks uniqueness and not these
  two properties.
- **`LagoIngestProofs`** proves `NoEventPastMalformedHolds`. The inductive
  invariant says three things:
  - the loop index `i` is a multiple of `maxIngestEventLimit`;
  - every malformed event lies past `i`;
  - the batch being sent holds none.

  `InBatch`, `PastBatch` and `NextBoundary` are the division facts behind
  `BatchIndex`. TLC checked the invariant on the `ingest` instance before
  it was proved.

The invariants of these three proofs were also checked with TLC, on the
instances of their runs, before they were proved.

### Only model-checked

The following stays with TLC only:
- **Liveness** (`RunTerminates`). TLAPS does not
  reason about fairness and ENABLED here.
- **`EvictionMatchesReference`** (`RevisionEvictionPolicy`). The module sorts
  with `SortSeq`, a RECURSIVE operator, so no theorem may reach it. What a
  sort computes for every input is also induction over data, which the
  installed provers cannot instantiate. `KeptFew` proves the counting half
  of the policy on the set form `Evictable` that the job model uses.
- **The violated properties** of the finding runs. TLC shows they fail.

## Not modelled

- **Job construction** (`NewHelmRevisionsCountTracker`, `ID`, `EnqueueTime`, `SetData`): there is no behaviour to check.
- **API server and client, ee API, CLI, migrations and provisioner**: I/O glue that the spec puts out of scope.
- **The rest of billing**: invoices, the credits listing and usage limits. Each is a read, or a single write with no interleaving.
- **The referrals handler** (`project/referrals.go`): it saves the whole project row read by the middleware (line 53), so in the sandbox it can write back an empty `BillingID` over one that `CheckPaymentEnabled` just saved. That is a real race, listed as a hazard. It is left for a later sitting, as a further actor of `BillingSetup`. The Stripe client is not under `src/`, so the model sees its calls only as a success (a new customer) or a failure.
- **Repository, models, and the kubernetes/helm wrappers**: the model sees them only as calls that succeed or fail, and as the sets `Clusters` and `Monitored`.
- **The helm `ListReleases` status filter**: every release of the model is listed.
- **The log line with the racy read of `cluster` (line 153)**: it changes no state.

## Plan

Done:
- the job model, its runs and proofs;
- the abstract retention spec and the refinement proof;
- the pagination race against the delete handler;
- billing setup and usage ingestion.
- TLAPS proofs of every invariant of a passing run except `EvictionMatchesReference`.
- the refinement of `OrderedScan` by the page loop, proved.

Next, in order:
1. **Invites and roles** (`ee/api/server/handlers/invite/accept.go`, `project/delete_role.go`).
   - The expiry and acceptance check comes before the role creation and the invite update.
   - A failure between the two leaves the invite re-acceptable.
   - No last-admin check exists, and that is what makes finding 6 reachable.
2. **The referrals handler in `BillingSetup`.** An actor that writes back its stale project row (referrals.go:53), against `OkAnswerHasStripeCustomer`.
3. **Helm uninstall and reinstall.** Reused version numbers, and the overwrite of an archived key (hazard at line 256).
4. **More proofs.** Every invariant and refinement of a
   passing run is proved except `EvictionMatchesReference`. Next is the
   refinement of an abstract billing specification (one Stripe customer
   per project), once the orphan-customer finding is settled.
