------------------------- MODULE HelmRevisionsTracker -------------------------
(***************************************************************************)
(* The helm release revisions tracker job of                               *)
(* src/workers/jobs/helm_revisions_count_tracker.go.                       *)
(*                                                                         *)
(* A run (Run, lines 129-288) counts the clusters, then fetches the        *)
(* clusters with monitor_helm_releases set one page of StepSize at a time, *)
(* starts one goroutine per cluster of the page and waits for all of them  *)
(* (wg.Wait) before it fetches the next page.  A cluster goroutine connects *)
(* (ReadCluster, the S3 client, the k8s agent, ListNamespaces: any failure  *)
(* ends the goroutine), then walks its namespaces, their releases and, for *)
(* a release with more than RevisionsCount revisions, every revision past  *)
(* the RevisionsCount newest: it writes the revision to S3 and, only when  *)
(* the write succeeded, deletes it from the cluster.  Every external call  *)
(* may fail; a failure skips the namespace, release or revision.          *)
(*                                                                         *)
(* The environment is helm itself: a user upgrade adds a revision to a     *)
(* release at any time, between the job's read of the history and its      *)
(* deletes included.  Several runs may overlap, and a run may crash at any *)
(* point (the worker process dies); nothing of the job is persisted, only  *)
(* the cluster's release store and the S3 bucket survive.                 *)
(***************************************************************************)
EXTENDS Naturals, FiniteSets

CONSTANTS
  Runs,            \* job runs that may overlap in time
  Clusters,        \* cluster IDs (naturals, the table is ordered by "id asc")
  Monitored,       \* clusters with monitor_helm_releases = true
  Namespaces,      \* namespace names
  ClusterNs,       \* ClusterNs[c]: the namespaces ListNamespaces returns for c
  Releases,        \* release names, each in one namespace of one cluster
  RelCluster,      \* RelCluster[r]: the cluster of release r
  RelNs,           \* RelNs[r]: the namespace of release r
  RevisionsCount,  \* t.revisionsCount: revisions kept per release
  StepSize,        \* stepSize: clusters per page
  MaxVersion,      \* bound on revision versions (helm upgrades stop there)
  InitLen,         \* possible initial history lengths of a release
  NoRelease        \* "no current release" in a goroutine's local state

ASSUME ClustersAssumption ==
  Clusters \subseteq Nat /\ IsFiniteSet(Clusters) /\ Monitored \subseteq Clusters
ASSUME LayoutAssumption ==
  /\ ClusterNs \in [Clusters -> SUBSET Namespaces]
  /\ RelCluster \in [Releases -> Clusters]
  /\ RelNs \in [Releases -> Namespaces]
  /\ \A r \in Releases : RelNs[r] \in ClusterNs[RelCluster[r]]
  /\ NoRelease \notin Releases
ASSUME RevisionsCountAssumption == RevisionsCount \in Nat \ {0}
ASSUME StepSizeAssumption == StepSize \in Nat \ {0}
ASSUME VersionAssumption ==
  /\ MaxVersion \in Nat
  /\ InitLen \subseteq 1..MaxVersion /\ InitLen # {}

VARIABLES
  live,     \* live[r]: versions of r held by the cluster's release store
  created,  \* created[r]: versions of r ever stored (history, for properties)
  archive,  \* the S3 bucket: pairs <<r, v>>, key .../<r>/<v> holding revision v
  runPc,    \* runPc[u]: where run u's Run is
  page,     \* page[u]: the loop index i of Run
  pages,    \* pages[u]: (int(count)/stepSize)+1, fixed when run u counted
  pc,       \* pc[<<u, c>>]: where the goroutine of run u for cluster c is
  nsLeft,   \* namespaces the goroutine has still to visit
  relLeft,  \* releases of the current namespace still to visit
  cur,      \* the release whose revisions are being evicted
  hist,     \* the versions GetReleaseHistory returned for cur
  evLeft,   \* versions of hist still to archive and delete
  rev,      \* the revision being archived then deleted
  relOk     \* no call for the current release has failed so far

vars == <<live, created, archive, runPc, page, pages, pc, nsLeft, relLeft,
          cur, hist, evLeft, rev, relOk>>

Versions == 1..MaxVersion
Workers == Runs \X Clusters
RunPcs == {"start", "page", "wait", "done", "error", "crashed"}
TaskPcs == {"idle", "connect", "ns", "rel", "archive", "delete",
            "done", "failed", "crashed"}
TaskEnded == {"done", "failed", "crashed"}

-----------------------------------------------------------------------------
(* Mutated forms of the definitions below, each a plausible bug in the code *)
(* it models; the model checker must find a property violated with each.  *)

\* the loop starts one past revisionsCount: one revision too many is kept
EvictableKeepsOneMore(H) ==
  {v \in H : Cardinality({u \in H : u > v}) >= RevisionsCount + 1}
\* the loop starts one before revisionsCount: one revision too many goes
EvictableKeepsOneLess(H) ==
  {v \in H : Cardinality({u \in H : u > v}) >= RevisionsCount - 1}
\* the page loop runs count/stepSize times, without the final +1
PageCountNoPlusOne(n) == n \div StepSize
\* the write error is logged but the revision is deleted all the same
ArchiveIgnoringError(w) ==
  /\ pc[w] = "archive"
  /\ \E v \in evLeft[w] :
       /\ \A x \in evLeft[w] : x <= v
       /\ archive' \in {archive, archive \cup {<<cur[w], v>>}}
       /\ pc' = [pc EXCEPT ![w] = "delete"]
       /\ rev' = [rev EXCEPT ![w] = v]
       /\ UNCHANGED <<evLeft, relOk>>
  /\ UNCHANGED <<live, created, runPc, page, pages, nsLeft, relLeft, cur, hist>>
\* a failed connection returns without wg.Done (no defer)
ConnectWithoutDone(w) ==
  /\ pc[w] = "connect"
  /\ \/ /\ pc' = [pc EXCEPT ![w] = "ns"]
        /\ nsLeft' = [nsLeft EXCEPT ![w] = ClusterNs[w[2]]]
     \/ /\ pc' = [pc EXCEPT ![w] = "idle"]
        /\ UNCHANGED nsLeft
  /\ UNCHANGED <<live, created, archive, runPc, page, pages, relLeft, cur, hist, evLeft, rev, relOk>>

-----------------------------------------------------------------------------
(* The revisions of H that the eviction loop (lines 241-244) visits: after *)
(* releaseutil.Reverse(revisions, SortByRevision) sorts H newest first,    *)
(* the loop takes the indexes RevisionsCount .. len-1, and the index of v  *)
(* in that order is the number of versions of H newer than v.              *)
Evictable(H) == {v \in H : Cardinality({u \in H : u > v}) >= RevisionsCount}

(* for i := 0; i < (int(count)/stepSize)+1; i++ (line 138) *)
PageCount(n) == n \div StepSize + 1

(* Position of c in the monitored clusters ordered by "id asc".             *)
Rank(c) == Cardinality({d \in Monitored : d <= c})

(* Offset(i*stepSize).Limit(stepSize) of the monitored clusters (141).     *)
PageOf(i) == {c \in Monitored : i * StepSize < Rank(c) /\ Rank(c) <= (i + 1) * StepSize}

(* The releases of namespace ns of cluster c that ListReleases returns.    *)
ReleasesIn(c, ns) == {r \in Releases : RelCluster[r] = c /\ RelNs[r] = ns}

-----------------------------------------------------------------------------
Init ==
  /\ \E len \in [Releases -> InitLen] :
        /\ live = [r \in Releases |-> 1..len[r]]
        /\ created = live
  /\ archive = {}
  /\ runPc = [u \in Runs |-> "start"]
  /\ page = [u \in Runs |-> 0]
  /\ pages = [u \in Runs |-> 0]
  /\ pc = [w \in Workers |-> "idle"]
  /\ nsLeft = [w \in Workers |-> {}]
  /\ relLeft = [w \in Workers |-> {}]
  /\ cur = [w \in Workers |-> NoRelease]
  /\ hist = [w \in Workers |-> {}]
  /\ evLeft = [w \in Workers |-> {}]
  /\ rev = [w \in Workers |-> 0]
  /\ relOk = [w \in Workers |-> TRUE]

TaskVars == <<pc, nsLeft, relLeft, cur, hist, evLeft, rev, relOk>>
RunVars == <<runPc, page, pages>>
StoreVars == <<live, created, archive>>

-----------------------------------------------------------------------------
(* Environment: helm upgrade stores revision (newest stored) + 1.          *)
Upgrade(r) ==
  \E m \in live[r] :
     /\ \A x \in live[r] : x <= m
     /\ m + 1 \in Versions
     /\ live' = [live EXCEPT ![r] = @ \cup {m + 1}]
     /\ created' = [created EXCEPT ![r] = @ \cup {m + 1}]
     /\ UNCHANGED <<archive, RunVars, TaskVars>>

-----------------------------------------------------------------------------
(* Run, lines 130-134: count every cluster (the count is not filtered by   *)
(* monitor_helm_releases); a database error returns it.                    *)
Count(u) ==
  /\ runPc[u] = "start"
  /\ \/ /\ runPc' = [runPc EXCEPT ![u] = "page"]
        /\ pages' = [pages EXCEPT ![u] = PageCount(Cardinality(Clusters))]
     \/ /\ runPc' = [runPc EXCEPT ![u] = "error"]
        /\ UNCHANGED pages
  /\ UNCHANGED <<page, StoreVars, TaskVars>>

(* Lines 139-151: fetch page i (an error returns Run) and start one        *)
(* goroutine per cluster of it.                                            *)
FetchPage(u) ==
  /\ runPc[u] = "page"
  /\ page[u] < pages[u]
  /\ \/ /\ runPc' = [runPc EXCEPT ![u] = "wait"]
        /\ pc' = [w \in Workers |->
                    IF w[1] = u /\ w[2] \in PageOf(page[u]) THEN "connect" ELSE pc[w]]
     \/ /\ runPc' = [runPc EXCEPT ![u] = "error"]
        /\ UNCHANGED pc
  /\ UNCHANGED <<page, pages, StoreVars, nsLeft, relLeft, cur, hist, evLeft, rev, relOk>>

(* Line 284: wg.Wait() returns once every goroutine of the page is done.   *)
Join(u) ==
  /\ runPc[u] = "wait"
  /\ \A c \in PageOf(page[u]) : pc[<<u, c>>] \in TaskEnded
  /\ runPc' = [runPc EXCEPT ![u] = "page"]
  /\ page' = [page EXCEPT ![u] = @ + 1]
  /\ UNCHANGED <<pages, StoreVars, TaskVars>>

(* Line 287: the loop is over, Run returns nil.                            *)
Finish(u) ==
  /\ runPc[u] = "page"
  /\ page[u] >= pages[u]
  /\ runPc' = [runPc EXCEPT ![u] = "done"]
  /\ UNCHANGED <<page, pages, StoreVars, TaskVars>>

(* The worker process dies: the run and its goroutines stop where they are. *)
Crash(u) ==
  /\ runPc[u] \in {"start", "page", "wait"}
  /\ runPc' = [runPc EXCEPT ![u] = "crashed"]
  /\ pc' = [w \in Workers |->
              IF w[1] = u /\ pc[w] \notin TaskEnded \cup {"idle"} THEN "crashed" ELSE pc[w]]
  /\ UNCHANGED <<page, pages, StoreVars, nsLeft, relLeft, cur, hist, evLeft, rev, relOk>>

-----------------------------------------------------------------------------
(* Lines 155-188: ReadCluster, NewS3StorageClient, GetAgentOutOfClusterConfig *)
(* and ListNamespaces; the first failure ends the goroutine.               *)
Connect(w) ==
  /\ pc[w] = "connect"
  /\ \/ /\ pc' = [pc EXCEPT ![w] = "ns"]
        /\ nsLeft' = [nsLeft EXCEPT ![w] = ClusterNs[w[2]]]
     \/ /\ pc' = [pc EXCEPT ![w] = "failed"]
        /\ UNCHANGED nsLeft
  /\ UNCHANGED <<StoreVars, RunVars, relLeft, cur, hist, evLeft, rev, relOk>>

(* Lines 190-222: for the next namespace, NewRetryHelmAgent then           *)
(* ListReleases; a failure of either skips the namespace.                  *)
OpenNamespace(w) ==
  /\ pc[w] = "ns"
  /\ \E ns \in nsLeft[w] :
       /\ nsLeft' = [nsLeft EXCEPT ![w] = @ \ {ns}]
       /\ \/ /\ pc' = [pc EXCEPT ![w] = "rel"]
             /\ relLeft' = [relLeft EXCEPT ![w] = ReleasesIn(w[2], ns)]
          \/ UNCHANGED <<pc, relLeft>>
  /\ UNCHANGED <<StoreVars, RunVars, cur, hist, evLeft, rev, relOk>>

(* Line 190: no namespace left, the goroutine returns (wg.Done).           *)
EndCluster(w) ==
  /\ pc[w] = "ns"
  /\ nsLeft[w] = {}
  /\ pc' = [pc EXCEPT ![w] = "done"]
  /\ UNCHANGED <<StoreVars, RunVars, nsLeft, relLeft, cur, hist, evLeft, rev, relOk>>

(* Lines 224-242: GetReleaseHistory of the next release (a failure skips   *)
(* it); a release with at most RevisionsCount revisions is skipped;        *)
(* otherwise its evictable revisions are taken from this snapshot.         *)
FetchHistory(w) ==
  /\ pc[w] = "rel"
  /\ \E r \in relLeft[w] :
       /\ relLeft' = [relLeft EXCEPT ![w] = @ \ {r}]
       /\ \/ /\ Cardinality(live[r]) > RevisionsCount
             /\ pc' = [pc EXCEPT ![w] = "archive"]
             /\ cur' = [cur EXCEPT ![w] = r]
             /\ hist' = [hist EXCEPT ![w] = live[r]]
             /\ evLeft' = [evLeft EXCEPT ![w] = Evictable(live[r])]
             /\ relOk' = [relOk EXCEPT ![w] = TRUE]
          \/ /\ Cardinality(live[r]) <= RevisionsCount
             /\ UNCHANGED <<pc, cur, hist, evLeft, relOk>>
          \/ UNCHANGED <<pc, cur, hist, evLeft, relOk>>   \* the fetch failed
  /\ UNCHANGED <<StoreVars, RunVars, nsLeft, rev>>

(* Line 224: no release left in the namespace.                             *)
EndNamespace(w) ==
  /\ pc[w] = "rel"
  /\ relLeft[w] = {}
  /\ pc' = [pc EXCEPT ![w] = "ns"]
  /\ UNCHANGED <<StoreVars, RunVars, nsLeft, relLeft, cur, hist, evLeft, rev, relOk>>

(* Lines 245-266: the newest revision left is marshalled and written to    *)
(* S3.  A marshal error or a write error skips the revision; a write that  *)
(* timed out may still have stored the object.                             *)
Archive(w) ==
  /\ pc[w] = "archive"
  /\ \E v \in evLeft[w] :
       /\ \A x \in evLeft[w] : x <= v
       /\ \/ /\ archive' = archive \cup {<<cur[w], v>>}
             /\ pc' = [pc EXCEPT ![w] = "delete"]
             /\ rev' = [rev EXCEPT ![w] = v]
             /\ UNCHANGED <<evLeft, relOk>>
          \/ /\ archive' \in {archive, archive \cup {<<cur[w], v>>}}
             /\ evLeft' = [evLeft EXCEPT ![w] = @ \ {v}]
             /\ relOk' = [relOk EXCEPT ![w] = FALSE]
             /\ UNCHANGED <<pc, rev>>
  /\ UNCHANGED <<live, created, RunVars, nsLeft, relLeft, cur, hist>>

(* Lines 268-277: DeleteReleaseRevision of the archived revision.  It      *)
(* fails when the revision is already gone; an error may also come back    *)
(* after the store deleted it.                                             *)
DeleteRevision(w) ==
  /\ pc[w] = "delete"
  /\ LET r == cur[w]
         v == rev[w]
     IN \/ /\ v \in live[r]
           /\ live' = [live EXCEPT ![r] = @ \ {v}]
           /\ UNCHANGED relOk
        \/ /\ live' \in {live, [live EXCEPT ![r] = @ \ {v}]}
           /\ relOk' = [relOk EXCEPT ![w] = FALSE]
  /\ pc' = [pc EXCEPT ![w] = "archive"]
  /\ evLeft' = [evLeft EXCEPT ![w] = @ \ {rev[w]}]
  /\ UNCHANGED <<created, archive, RunVars, nsLeft, relLeft, cur, hist, rev>>

(* Line 244: the eviction loop is over, on to the next release.            *)
EndRelease(w) ==
  /\ pc[w] = "archive"
  /\ evLeft[w] = {}
  /\ pc' = [pc EXCEPT ![w] = "rel"]
  /\ UNCHANGED <<StoreVars, RunVars, nsLeft, relLeft, cur, hist, evLeft, rev, relOk>>

-----------------------------------------------------------------------------
RunStep(u) == Count(u) \/ FetchPage(u) \/ Join(u) \/ Finish(u)

TaskStep(w) ==
  \/ Connect(w) \/ OpenNamespace(w) \/ EndCluster(w) \/ FetchHistory(w)
  \/ EndNamespace(w) \/ Archive(w) \/ DeleteRevision(w) \/ EndRelease(w)

Next ==
  \/ \E u \in Runs : RunStep(u) \/ Crash(u)
  \/ \E w \in Workers : TaskStep(w)
  \/ \E r \in Releases : Upgrade(r)

(* Goroutines are scheduled by the Go runtime and every call they make     *)
(* returns within its timeout, so no run or goroutine stops for ever;      *)
(* upgrades and crashes need not happen.                                   *)
Fairness ==
  /\ \A u \in Runs : WF_vars(RunStep(u))
  /\ \A w \in Workers : WF_vars(TaskStep(w))

Spec == Init /\ [][Next]_vars /\ Fairness

-----------------------------------------------------------------------------
(* Type invariant.                                                         *)
TypeOK ==
  /\ live \in [Releases -> SUBSET Versions]
  /\ created \in [Releases -> SUBSET Versions]
  /\ archive \subseteq Releases \X Versions
  /\ runPc \in [Runs -> RunPcs]
  /\ page \in [Runs -> Nat]
  /\ pages \in [Runs -> Nat]
  /\ pc \in [Workers -> TaskPcs]
  /\ nsLeft \in [Workers -> SUBSET Namespaces]
  /\ relLeft \in [Workers -> SUBSET Releases]
  /\ cur \in [Workers -> Releases \cup {NoRelease}]
  /\ hist \in [Workers -> SUBSET Versions]
  /\ evLeft \in [Workers -> SUBSET Versions]
  /\ rev \in [Workers -> Versions \cup {0}]
  /\ relOk \in [Workers -> BOOLEAN]

(* Durability (lines 256-268): every revision that is gone from the live    *)
(* store has an object in the S3 bucket at its key, whatever calls failed, *)
(* timed out after taking effect, or were cut short by a crash.            *)
DeletedOnlyIfArchived ==
  \A r \in Releases : \A v \in created[r] \ live[r] : <<r, v>> \in archive

(* Retention (lines 225-268): a revision is gone only while at least        *)
(* RevisionsCount newer revisions of its release are live, although the    *)
(* deletes act on a history snapshot that helm upgrades and overlapping    *)
(* runs make stale.                                                        *)
RetainNewest ==
  \A r \in Releases : \A v \in created[r] \ live[r] :
     Cardinality({x \in live[r] : x > v}) >= RevisionsCount

(* Convergence (lines 232-278): once the eviction loop of a release is over *)
(* and none of its calls failed, at most RevisionsCount of the revisions    *)
(* its history snapshot held are still live.                               *)
SweptReleaseConverged ==
  \A w \in Workers :
     (pc[w] = "archive" /\ evLeft[w] = {} /\ relOk[w])
        => Cardinality(live[cur[w]] \cap hist[w]) <= RevisionsCount

(* Coverage (lines 132-147): when Run returns nil, it has started a         *)
(* goroutine for exactly the monitored clusters.                            *)
EveryMonitoredClusterSwept ==
  \A u \in Runs :
     runPc[u] = "done" => {c \in Clusters : pc[<<u, c>>] # "idle"} = Monitored

-----------------------------------------------------------------------------
(* The strengthening of RetainNewest and DeletedOnlyIfArchived that every  *)
(* step preserves (HelmRevisionsTrackerProofs proves it).                   *)

(* A goroutine between the history fetch and the end of the eviction loop. *)
Evicting(w) == pc[w] \in {"archive", "delete"}

(* An evicting goroutine has a current release.                            *)
CurSet == \A w \in Workers : Evicting(w) => cur[w] \in Releases

(* The store only holds versions it created.                                *)
LiveCreated == \A r \in Releases : live[r] \subseteq created[r]

(* The snapshot is a set of created versions, and what is left to evict is  *)
(* evictable in it.                                                         *)
SnapshotSound ==
  \A w \in Workers : Evicting(w) =>
     /\ hist[w] \subseteq created[cur[w]]
     /\ evLeft[w] \subseteq Evictable(hist[w])

(* A pending delete is of an archived revision still to evict.              *)
DeletePending ==
  \A w \in Workers : pc[w] = "delete" =>
     /\ rev[w] \in evLeft[w]
     /\ <<cur[w], rev[w]>> \in archive

IInv ==
  /\ TypeOK
  /\ CurSet
  /\ LiveCreated
  /\ SnapshotSound
  /\ DeletePending
  /\ RetainNewest
  /\ DeletedOnlyIfArchived

(* Termination (line 284): every run eventually returns or dies: no         *)
(* goroutine and no wg.Wait blocks for ever.                                *)
RunTerminates == \A u \in Runs : <>(runPc[u] \in {"done", "error", "crashed"})

-----------------------------------------------------------------------------
(* The job refines RevisionRetention with the identity mapping on the       *)
(* stores: every step of runs, goroutines, failures, crashes and upgrades   *)
(* is a creation, an archive write, an eviction the abstract specification *)
(* allows, or leaves the stores alone.                                     *)
Retention == INSTANCE RevisionRetention

(* Refinement: the job's behaviours on the release store and the S3 bucket *)
(* are behaviours of RevisionRetention (spec invariants 1 and 2 as steps).  *)
RetentionRefined == Retention!Spec

=============================================================================
