------------------------------ MODULE OrderedScan ------------------------------
(***************************************************************************)
(* What the page loop of the helm revisions tracker promises, whatever     *)
(* the cluster table does between two page fetches: the monitored          *)
(* clusters are visited in ascending id order (Order("id asc") on line     *)
(* 141 of src/workers/jobs/helm_revisions_count_tracker.go), so each batch *)
(* of a run lies above every cluster the run visited before, deleted ones  *)
(* included, and no cluster is visited twice.  Rows are deleted and        *)
(* created (with the next auto-increment id) freely.  FleetPagination     *)
(* implements this specification with swept the set of clusters its run   *)
(* started a goroutine for.                                                *)
(***************************************************************************)
EXTENDS Naturals

CONSTANTS MaxId, InitCount, MonitorIds

VARIABLES
  rows,    \* ids of the rows present
  nextId,  \* the next auto-increment id
  swept    \* the clusters the run has visited

Init ==
  /\ rows = 1..InitCount
  /\ nextId = InitCount + 1
  /\ swept = {}

(* The run visits a batch of present monitored clusters, each above every  *)
(* cluster it visited before.                                              *)
Visit ==
  \E S \in SUBSET (rows \cap MonitorIds) :
    /\ \A c \in S, d \in swept : d < c
    /\ swept' = swept \cup S
    /\ UNCHANGED <<rows, nextId>>

(* A row leaves the table. *)
Remove ==
  \E c \in rows :
    /\ rows' = rows \ {c}
    /\ UNCHANGED <<nextId, swept>>

(* A row is created with the next id. *)
Add ==
  /\ nextId \in 1..MaxId
  /\ rows' = rows \cup {nextId}
  /\ nextId' = nextId + 1
  /\ UNCHANGED swept

Next == Visit \/ Remove \/ Add

Spec == Init /\ [][Next]_<<rows, nextId, swept>>
=============================================================================
