---------------------------- MODULE FleetPagination ----------------------------
(***************************************************************************)
(* The page loop of the helm revisions tracker (Run, lines 130-144 and     *)
(* 282-287 of src/workers/jobs/helm_revisions_count_tracker.go) over a     *)
(* cluster table that changes while the run goes on.  The pages are        *)
(* Offset(i*stepSize).Limit(stepSize) of the monitored clusters ordered by *)
(* id, each fetched when the previous page's goroutines are done, so a     *)
(* row that disappears in between moves every later row one place down.   *)
(*                                                                         *)
(* The table changes by the cluster delete handler                         *)
(* (src/api/server/handlers/cluster/delete.go), a soft delete that hides    *)
(* the row from both the count and the page queries, and by cluster        *)
(* creation, which takes the next auto-increment id.  The goroutines of a  *)
(* page are HelmRevisionsTracker's business: here a cluster is "swept"     *)
(* when its page started a goroutine for it.                               *)
(***************************************************************************)
EXTENDS Naturals, FiniteSets

CONSTANTS
  MaxId,        \* cluster ids are 1..MaxId
  InitCount,    \* the table starts with ids 1..InitCount
  MonitorIds,   \* ids whose row has monitor_helm_releases set
  CapiIds,      \* ids of clusters with ProvisionedBy = "CAPI"
  UpdatingIds,  \* ids of clusters whose Status is Updating(Unavailable)
  CapiEnabled,  \* c.Config().EnableCAPIProvisioner
  StepSize      \* stepSize

ASSUME FleetAssumption ==
  /\ MaxId \in Nat /\ InitCount \in 0..MaxId
  /\ MonitorIds \subseteq 1..MaxId
  /\ CapiIds \subseteq 1..MaxId /\ UpdatingIds \subseteq 1..MaxId
  /\ CapiEnabled \in BOOLEAN
  /\ StepSize \in Nat \ {0}

VARIABLES
  rows,       \* ids of the cluster rows not (soft) deleted
  nextId,     \* the next auto-increment id
  runPc,      \* where Run is
  page,       \* the loop index i
  pages,      \* (int(count)/stepSize)+1
  sweeps,     \* sweeps[c]: goroutines this run started for cluster c
  atCount     \* the monitored rows when the run counted (history)

vars == <<rows, nextId, runPc, page, pages, sweeps, atCount>>

Ids == 1..MaxId

-----------------------------------------------------------------------------
(* Mutated forms, each a plausible bug in the mapped lines.                 *)

\* Offset(i*stepSize - 1): each page repeats the last row of the previous one
PageOfOverlapping(i) ==
  LET mon == rows \cap MonitorIds
      rank(c) == Cardinality({d \in mon : d <= c})
  IN {c \in mon : i * StepSize - 1 < rank(c) /\ rank(c) <= (i + 1) * StepSize}

\* Order("id desc"): the pages walk the table from the newest cluster down
PageOfDescending(i) ==
  LET mon == rows \cap MonitorIds
      rank(c) == Cardinality({d \in mon : d >= c})
  IN {c \in mon : i * StepSize < rank(c) /\ rank(c) <= (i + 1) * StepSize}

-----------------------------------------------------------------------------
(* Line 141: Order("id asc").Offset(i*stepSize).Limit(stepSize) of the       *)
(* monitored rows present when the page is fetched.                        *)
PageOf(i) ==
  LET mon == rows \cap MonitorIds
      rank(c) == Cardinality({d \in mon : d <= c})
  IN {c \in mon : i * StepSize < rank(c) /\ rank(c) <= (i + 1) * StepSize}

Init ==
  /\ rows = 1..InitCount
  /\ nextId = InitCount + 1
  /\ runPc = "start"
  /\ page = 0
  /\ pages = 0
  /\ sweeps = [c \in Ids |-> 0]
  /\ atCount = {}

(* Lines 130-134: Count of every cluster row; an error ends the run.        *)
Count ==
  /\ runPc = "start"
  /\ \/ /\ runPc' = "page"
        /\ pages' = Cardinality(rows) \div StepSize + 1
        /\ atCount' = rows \cap MonitorIds
     \/ /\ runPc' = "error"
        /\ UNCHANGED <<pages, atCount>>
  /\ UNCHANGED <<rows, nextId, page, sweeps>>

(* Lines 138-151: fetch page i and start a goroutine per cluster of it.     *)
FetchPage ==
  /\ runPc = "page"
  /\ page < pages
  /\ \/ /\ runPc' = "wait"
        /\ sweeps' = [c \in Ids |-> IF c \in PageOf(page) THEN sweeps[c] + 1 ELSE sweeps[c]]
     \/ /\ runPc' = "error"
        /\ UNCHANGED sweeps
  /\ UNCHANGED <<rows, nextId, page, pages, atCount>>

(* Line 284: wg.Wait returns (the goroutines always end, HelmRevisions-     *)
(* Tracker!RunTerminates) and the loop goes on.                            *)
Join ==
  /\ runPc = "wait"
  /\ runPc' = "page"
  /\ page' = page + 1
  /\ UNCHANGED <<rows, nextId, pages, sweeps, atCount>>

(* Line 287: the loop is over.                                             *)
Finish ==
  /\ runPc = "page"
  /\ page >= pages
  /\ runPc' = "done"
  /\ UNCHANGED <<rows, nextId, page, pages, sweeps, atCount>>

(* ClusterDeleteHandler.ServeHTTP: a CAPI cluster (when the CAPI           *)
(* provisioner is enabled) that is updating is refused; otherwise, unless  *)
(* a call fails (no change), DeleteCluster soft-deletes the row.           *)
DeleteCluster(c) ==
  /\ c \in rows
  /\ ~(CapiEnabled /\ c \in CapiIds /\ c \in UpdatingIds)
  /\ rows' = rows \ {c}
  /\ UNCHANGED <<nextId, runPc, page, pages, sweeps, atCount>>

(* A cluster is created with the next auto-increment id.                   *)
CreateCluster ==
  /\ nextId \in Ids
  /\ rows' = rows \cup {nextId}
  /\ nextId' = nextId + 1
  /\ UNCHANGED <<runPc, page, pages, sweeps, atCount>>

Next ==
  \/ Count \/ FetchPage \/ Join \/ Finish
  \/ \E c \in Ids : DeleteCluster(c)
  \/ CreateCluster

(* No fairness: the count and page queries and the goroutines' calls have *)
(* no timeout, and only safety is asked of this model.                     *)
Spec == Init /\ [][Next]_vars

-----------------------------------------------------------------------------
TypeOK ==
  /\ rows \subseteq Ids
  /\ nextId \in 1..MaxId + 1
  /\ runPc \in {"start", "page", "wait", "done", "error"}
  /\ page \in Nat /\ pages \in Nat
  /\ sweeps \in [Ids -> Nat]
  /\ atCount \subseteq Ids

(* No duplicate work (line 141): one run never starts two goroutines for    *)
(* the same cluster, although rows are deleted and created between the     *)
(* page fetches and the offset of each page is computed afresh.            *)
NoClusterSweptTwice == \A c \in Ids : sweeps[c] <= 1

(* Coverage (lines 132-147 with a changing table): when Run returns nil,   *)
(* every cluster that was monitored when the run counted and is still      *)
(* there got a goroutine.                                                  *)
StableClusterSwept ==
  runPc = "done" => \A c \in atCount \cap rows : sweeps[c] >= 1

\* the abstract scan, its visited set the clusters this run swept
Scan == INSTANCE OrderedScan WITH swept <- {c \in Ids : sweeps[c] # 0}

(* Ascending order (line 141 with deletes and creates between the page     *)
(* fetches): every page of the run lies above every cluster an earlier     *)
(* page swept, even one deleted since, so the run implements OrderedScan.  *)
ScanRefined == Scan!Spec
=============================================================================
