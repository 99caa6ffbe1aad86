------------------- MODULE HelmRevisionsTrackerConvergence -------------------
(***************************************************************************)
(* Proof that the eviction loop of one release converges: once it is over *)
(* and none of its calls failed, at most RevisionsCount of the revisions  *)
(* of its history snapshot are still live, whatever upgrades, overlapping *)
(* runs and crashes did meanwhile.                                         *)
(***************************************************************************)
EXTENDS HelmRevisionsTrackerProofs

(* While no call for the current release has failed, every revision the   *)
(* loop has already visited (evictable in the snapshot and no longer left) *)
(* is gone from the release store: its DeleteReleaseRevision succeeded,   *)
(* and helm never stores a version again once it is gone.                  *)
EvictedGone ==
  \A w \in Workers : Evicting(w) /\ relOk[w] =>
     (Evictable(hist[w]) \ evLeft[w]) \cap live[cur[w]] = {}

(* The inductive invariant: IInv of the safety proofs and EvictedGone.     *)
CInv == IInv /\ EvictedGone

-----------------------------------------------------------------------------
USE ClustersAssumption, LayoutAssumption, RevisionsCountAssumption,
    StepSizeAssumption, VersionAssumption

(* The revisions the loop keeps.                                           *)

\* the versions of H newer than v: the index of v in the newest-first order
Newer(H, v) == {u \in H : u > v}

(* A newer version has fewer versions newer than itself.                   *)
LEMMA NewerShrinks ==
  ASSUME NEW H \in SUBSET Versions, NEW x \in H, NEW y \in H, x < y
  PROVE  Cardinality(Newer(H, y)) < Cardinality(Newer(H, x))
<1>1. Newer(H, y) \subseteq Newer(H, x)
  <2>1. ASSUME NEW u \in H, u > y PROVE u > x
    <3>1. u \in Nat /\ x \in Nat /\ y \in Nat
      BY DEF Versions
    <3>. QED  BY <2>1, <3>1
  <2>. QED  BY <2>1 DEF Newer
<1>2. y \in Newer(H, x) /\ y \notin Newer(H, y)
  BY DEF Newer, Versions
<1>3. IsFiniteSet(Newer(H, x))
  BY VersionsFinite DEF Newer
<1>4. Cardinality(Newer(H, y)) <= Cardinality(Newer(H, x))
      /\ (Cardinality(Newer(H, x)) = Cardinality(Newer(H, y)) => Newer(H, x) = Newer(H, y))
  BY <1>1, <1>3, FS_Subset
<1>5. Cardinality(Newer(H, y)) \in Nat /\ Cardinality(Newer(H, x)) \in Nat
  BY VersionsFinite DEF Newer
<1>. QED  BY <1>2, <1>4, <1>5

(* The loop of lines 241-244 keeps at most RevisionsCount versions of any *)
(* history: the kept ones have distinct indexes below RevisionsCount.      *)
LEMMA KeptFew ==
  ASSUME NEW H \in SUBSET Versions
  PROVE  Cardinality(H \ Evictable(H)) <= RevisionsCount
<1> DEFINE K == H \ Evictable(H)
           f == [v \in K |-> Cardinality(Newer(H, v))]
           Idx == 0 .. RevisionsCount - 1
<1>1. IsFiniteSet(K) /\ Cardinality(K) \in Nat
  BY VersionsFinite
<1>2. IsFiniteSet(Idx) /\ Cardinality(Idx) = RevisionsCount
  BY FS_Interval
<1>3. f \in [K -> Idx]
  <2>1. ASSUME NEW v \in K PROVE Cardinality(Newer(H, v)) \in Idx
    <3>1. Cardinality(Newer(H, v)) \in Nat
      BY VersionsFinite DEF Newer
    <3>2. ~(Cardinality(Newer(H, v)) >= RevisionsCount)
      BY DEF Evictable, Newer
    <3>. QED  BY <3>1, <3>2
  <2>. QED  BY <2>1
<1>4. SUFFICES ASSUME Cardinality(K) > RevisionsCount PROVE FALSE
  BY <1>1
<1>5. Cardinality(Idx) < Cardinality(K)
  BY <1>2, <1>4
<1>6. \E x, y \in K : x # y /\ f[x] = f[y]
  <2> HIDE DEF K, f, Idx
  <2>. QED  BY <1>1, <1>2, <1>3, <1>5, FS_PigeonHole
<1>7. PICK x, y \in K : x # y /\ f[x] = f[y]
  BY <1>6
<1>8. Cardinality(Newer(H, x)) = Cardinality(Newer(H, y))
  BY <1>7
<1>9. x \in H /\ y \in H /\ x \in Nat /\ y \in Nat
  BY DEF Versions
<1>10. Cardinality(Newer(H, x)) \in Nat /\ Cardinality(Newer(H, y)) \in Nat
  BY VersionsFinite DEF Newer
<1>11. CASE x < y
  <2>1. Cardinality(Newer(H, y)) < Cardinality(Newer(H, x))
    BY <1>9, <1>11, NewerShrinks
  <2>. QED  BY <1>8, <1>10, <2>1
<1>12. CASE y < x
  <2>1. Cardinality(Newer(H, x)) < Cardinality(Newer(H, y))
    BY <1>9, <1>12, NewerShrinks
  <2>. QED  BY <1>8, <1>10, <2>1
<1>. QED  BY <1>7, <1>9, <1>11, <1>12

-----------------------------------------------------------------------------
(* EvictedGone is kept by every step.                                       *)

(* A step after which every goroutine evicting with no failure was already *)
(* doing so on the same snapshot, with the same work left, and that adds   *)
(* no version to its release keeps EvictedGone.                            *)
LEMMA GoneQuiet ==
  ASSUME EvictedGone,
         \A w \in Workers : (Evicting(w)' /\ relOk'[w]) =>
            /\ Evicting(w) /\ relOk[w]
            /\ cur'[w] = cur[w] /\ hist'[w] = hist[w] /\ evLeft'[w] = evLeft[w]
            /\ live'[cur[w]] \subseteq live[cur[w]]
  PROVE  EvictedGone'
BY DEF EvictedGone

(* A revision gone from the store is older than one that is live: helm's   *)
(* next version, one past the newest live one, was never stored before.    *)
LEMMA GoneOlderThanLive ==
  ASSUME IInv, NEW r \in Releases, NEW v \in created[r] \ live[r]
  PROVE  \E x \in live[r] : x > v
<1>1. Cardinality({x \in live[r] : x > v}) >= RevisionsCount
  BY DEF IInv, RetainNewest
<1>2. IsFiniteSet({x \in live[r] : x > v}) /\ Cardinality({x \in live[r] : x > v}) \in Nat
  BY VersionsFinite DEF IInv, TypeOK
<1>3. {x \in live[r] : x > v} # {}
  BY <1>1, <1>2, FS_EmptySet
<1>. QED  BY <1>3

LEMMA GoneNext == CInv /\ [Next]_vars => EvictedGone'
<1> SUFFICES ASSUME IInv, EvictedGone, [Next]_vars PROVE EvictedGone'
  BY DEF CInv
<1>1. ASSUME NEW r \in Releases, Upgrade(r) PROVE EvictedGone'
  <2>1. PICK m \in live[r] : /\ \A x \in live[r] : x <= m
                             /\ live' = [live EXCEPT ![r] = @ \cup {m + 1}]
    BY <1>1 DEF Upgrade
  <2>2. UNCHANGED <<pc, cur, hist, evLeft, relOk>>
    BY <1>1 DEF Upgrade, TaskVars
  <2> SUFFICES ASSUME NEW w \in Workers, Evicting(w)', relOk'[w],
                      NEW v \in Evictable(hist'[w]) \ evLeft'[w]
               PROVE  v \notin live'[cur'[w]]
    BY DEF EvictedGone
  <2>3. Evicting(w) /\ relOk[w] /\ cur[w] \in Releases
    BY <2>2 DEF Evicting, IInv, CurSet
  <2>4. v \notin live[cur[w]] /\ v \in created[cur[w]]
    <3>1. v \in hist[w] /\ hist[w] \subseteq created[cur[w]]
      BY <2>2, <2>3 DEF IInv, SnapshotSound, Evictable
    <3>. QED  BY <2>2, <2>3, <3>1 DEF EvictedGone
  <2>5. CASE cur[w] = r
    <3>1. PICK x \in live[r] : x > v
      BY <2>3, <2>4, <2>5, GoneOlderThanLive
    <3>2. m + 1 # v
      <4>1. x \in Nat /\ m \in Nat /\ v \in Nat
        BY <2>1, <2>4, <2>5, <3>1 DEF IInv, TypeOK, Versions
      <4>. QED  BY <2>1, <3>1, <4>1
    <3>. QED  BY <2>1, <2>2, <2>4, <2>5, <3>2 DEF IInv, TypeOK
  <2>6. CASE cur[w] # r
    BY <2>1, <2>2, <2>3, <2>4, <2>6 DEF IInv, TypeOK
  <2>. QED  BY <2>5, <2>6
<1>2. ASSUME NEW u \in Runs, RunStep(u) \/ Crash(u) PROVE EvictedGone'
  <2>1. UNCHANGED <<live, cur, hist, evLeft, relOk>>
    BY <1>2 DEF RunStep, Count, FetchPage, Join, Finish, Crash, StoreVars, TaskVars
  <2>2. \A w \in Workers : Evicting(w)' => Evicting(w)
    BY <1>2 DEF RunStep, Count, FetchPage, Join, Finish, Crash, TaskVars, Evicting
  <2>. QED  BY <2>1, <2>2, GoneQuiet
<1>3. ASSUME NEW w \in Workers,
             Connect(w) \/ OpenNamespace(w) \/ EndCluster(w) \/ EndNamespace(w)
             \/ EndRelease(w)
      PROVE EvictedGone'
  <2>1. UNCHANGED <<live, cur, hist, evLeft, relOk>>
    BY <1>3 DEF Connect, OpenNamespace, EndCluster, EndNamespace, EndRelease, StoreVars
  <2>2. \A x \in Workers : Evicting(x)' => Evicting(x)
    BY <1>3 DEF Connect, OpenNamespace, EndCluster, EndNamespace, EndRelease, Evicting,
      IInv, TypeOK
  <2>. QED  BY <2>1, <2>2, GoneQuiet
<1>4. ASSUME NEW w \in Workers, FetchHistory(w) PROVE EvictedGone'
  <2>1. PICK r \in relLeft[w] :
          \/ /\ pc' = [pc EXCEPT ![w] = "archive"]
             /\ cur' = [cur EXCEPT ![w] = r]
             /\ hist' = [hist EXCEPT ![w] = live[r]]
             /\ evLeft' = [evLeft EXCEPT ![w] = Evictable(live[r])]
             /\ relOk' = [relOk EXCEPT ![w] = TRUE]
          \/ UNCHANGED <<pc, cur, hist, evLeft, relOk>>
    BY <1>4 DEF FetchHistory
  <2>2. UNCHANGED live /\ pc[w] = "rel"
    BY <1>4 DEF FetchHistory, StoreVars
  <2>3. CASE UNCHANGED <<pc, cur, hist, evLeft, relOk>>
    BY <2>2, <2>3, GoneQuiet DEF Evicting
  <2>4. CASE /\ pc' = [pc EXCEPT ![w] = "archive"]
             /\ cur' = [cur EXCEPT ![w] = r]
             /\ hist' = [hist EXCEPT ![w] = live[r]]
             /\ evLeft' = [evLeft EXCEPT ![w] = Evictable(live[r])]
             /\ relOk' = [relOk EXCEPT ![w] = TRUE]
    <3> SUFFICES ASSUME NEW x \in Workers, Evicting(x)', relOk'[x]
                 PROVE  (Evictable(hist'[x]) \ evLeft'[x]) \cap live'[cur'[x]] = {}
      BY DEF EvictedGone
    <3>1. CASE x = w
      BY <2>4, <3>1 DEF IInv, TypeOK
    <3>2. CASE x # w
      BY <2>2, <2>4, <3>2 DEF IInv, TypeOK, EvictedGone, Evicting
    <3>. QED  BY <3>1, <3>2
  <2>. QED  BY <2>1, <2>3, <2>4
<1>5. ASSUME NEW w \in Workers, Archive(w) PROVE EvictedGone'
  <2>1. PICK v \in evLeft[w] :
          \/ /\ pc' = [pc EXCEPT ![w] = "delete"]
             /\ UNCHANGED <<evLeft, relOk>>
          \/ /\ evLeft' = [evLeft EXCEPT ![w] = @ \ {v}]
             /\ relOk' = [relOk EXCEPT ![w] = FALSE]
             /\ UNCHANGED pc
    BY <1>5 DEF Archive
  <2>2. UNCHANGED <<live, cur, hist>> /\ pc[w] = "archive"
    BY <1>5 DEF Archive
  <2>3. CASE pc' = [pc EXCEPT ![w] = "delete"] /\ UNCHANGED <<evLeft, relOk>>
    BY <2>2, <2>3, GoneQuiet DEF Evicting, IInv, TypeOK
  <2>4. CASE /\ evLeft' = [evLeft EXCEPT ![w] = @ \ {v}]
             /\ relOk' = [relOk EXCEPT ![w] = FALSE]
             /\ UNCHANGED pc
    BY <2>2, <2>4, GoneQuiet DEF Evicting, IInv, TypeOK
  <2>. QED  BY <2>1, <2>3, <2>4
<1>6. ASSUME NEW w \in Workers, DeleteRevision(w) PROVE EvictedGone'
  <2> DEFINE r == cur[w]
             v == rev[w]
  <2>1. /\ pc[w] = "delete"
        /\ pc' = [pc EXCEPT ![w] = "archive"]
        /\ evLeft' = [evLeft EXCEPT ![w] = @ \ {v}]
        /\ UNCHANGED <<cur, hist>>
        /\ r \in Releases
    BY <1>6 DEF DeleteRevision, IInv, CurSet, Evicting
  <2>2. \A q \in Releases : live'[q] \subseteq live[q]
    BY <1>6 DEF DeleteRevision, IInv, TypeOK
  <2> SUFFICES ASSUME NEW x \in Workers, Evicting(x)', relOk'[x]
               PROVE  (Evictable(hist'[x]) \ evLeft'[x]) \cap live'[cur'[x]] = {}
    BY DEF EvictedGone
  <2>3. CASE x # w
    <3>1. relOk[x] /\ Evicting(x) /\ cur[x] \in Releases
      BY <1>6, <2>1, <2>3 DEF DeleteRevision, Evicting, IInv, TypeOK, CurSet
    <3>. QED  BY <2>1, <2>2, <2>3, <3>1 DEF EvictedGone, IInv, TypeOK
  <2>4. CASE x = w
    <3>1. v \in live[r] /\ live' = [live EXCEPT ![r] = @ \ {v}] /\ relOk[w]
      BY <1>6, <2>4 DEF DeleteRevision, IInv, TypeOK
    <3>2. (Evictable(hist[w]) \ evLeft[w]) \cap live[r] = {}
      BY <2>1, <3>1 DEF EvictedGone, Evicting
    <3>. QED  BY <2>1, <2>4, <3>1, <3>2 DEF IInv, TypeOK
  <2>. QED  BY <2>3, <2>4
<1>7. CASE UNCHANGED vars
  BY <1>7, GoneQuiet DEF vars, Evicting
<1>. QED  BY <1>1, <1>2, <1>3, <1>4, <1>5, <1>6, <1>7 DEF Next, TaskStep

LEMMA CInvInit == Init => CInv
<1> SUFFICES ASSUME Init PROVE CInv
  OBVIOUS
<1>1. IInv
  BY IInvInit
<1>2. EvictedGone
  BY DEF Init, EvictedGone, Evicting
<1>. QED  BY <1>1, <1>2 DEF CInv

LEMMA CInvNext == CInv /\ [Next]_vars => CInv'
BY IInvNext, GoneNext DEF CInv

(* What is left live of a finished snapshot with no failure is what the    *)
(* loop kept.                                                               *)
LEMMA ConvergedFromGone ==
  ASSUME CInv PROVE SweptReleaseConverged
<1> SUFFICES ASSUME NEW w \in Workers, pc[w] = "archive", evLeft[w] = {}, relOk[w]
             PROVE  Cardinality(live[cur[w]] \cap hist[w]) <= RevisionsCount
  BY DEF SweptReleaseConverged
<1>1. cur[w] \in Releases /\ hist[w] \in SUBSET Versions
  BY DEF CInv, IInv, CurSet, Evicting, TypeOK
<1>2. live[cur[w]] \cap hist[w] \subseteq hist[w] \ Evictable(hist[w])
  BY <1>1 DEF CInv, EvictedGone, Evicting
<1>3. Cardinality(live[cur[w]] \cap hist[w]) <= Cardinality(hist[w] \ Evictable(hist[w]))
  BY <1>1, <1>2, CardMono
<1>4. Cardinality(hist[w] \ Evictable(hist[w])) <= RevisionsCount
  BY <1>1, KeptFew
<1>5. /\ Cardinality(live[cur[w]] \cap hist[w]) \in Nat
      /\ Cardinality(hist[w] \ Evictable(hist[w])) \in Nat
  BY <1>1, VersionsFinite
<1>. QED  BY <1>3, <1>4, <1>5

(* Convergence: when the eviction loop of a release (lines 232-278) ends  *)
(* and none of its marshal, write or delete calls failed, at most         *)
(* RevisionsCount of the revisions in its history snapshot are still live, *)
(* although upgrades, overlapping runs and crashes act meanwhile.         *)
THEOREM SweptReleaseConvergedHolds == Spec => []SweptReleaseConverged
<1>1. Spec => []CInv
  BY CInvInit, CInvNext, PTL DEF Spec
<1>. QED  BY <1>1, ConvergedFromGone, PTL
=============================================================================
