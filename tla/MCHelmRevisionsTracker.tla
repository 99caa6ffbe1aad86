------------------------ MODULE MCHelmRevisionsTracker ------------------------
(* Small instances of HelmRevisionsTracker for TLC.                        *)
EXTENDS HelmRevisionsTracker, TLC

CONSTANTS u1, u2, n1, n2, a, b

(* One run; three monitored clusters on pages of two, so the last page is   *)
(* the partial one; clusters 1 and 2 share a page and run concurrently;     *)
(* cluster 1 holds two releases of one namespace.                           *)
MCRunsOne == {u1}
MCClustersThree == {1, 2, 3}
MCClusterNsThree == [x \in {1, 2, 3} |-> IF x = 3 THEN {n2} ELSE {n1}]
MCRelCluster == [r \in {a, b} |-> 1]
MCRelNs == [r \in {a, b} |-> n1]

(* Two overlapping runs over one monitored cluster with one release; the    *)
(* second cluster is not monitored.                                         *)
MCRunsTwo == {u1, u2}
MCClustersTwo == {1, 2}
MCClusterNsTwo == [x \in {1, 2} |-> {n1}]
MCRelClusterOne == [r \in {a} |-> 1]
MCRelNsOne == [r \in {a} |-> n1]
=============================================================================
