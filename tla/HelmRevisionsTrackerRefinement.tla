-------------------- MODULE HelmRevisionsTrackerRefinement --------------------
(***************************************************************************)
(* HelmRevisionsTracker implements RevisionRetention: with the identity    *)
(* mapping on live, created and archive, every step of the job and of its  *)
(* environment is a step of the abstract specification or leaves the      *)
(* stores alone.  The argument rests on the inductive invariant IInv of    *)
(* HelmRevisionsTrackerProofs.                                              *)
(***************************************************************************)
EXTENDS HelmRevisionsTrackerProofs

StoreState == <<live, created, archive>>

(* The abstract module's Cardinality, taken through the INSTANCE, is the   *)
(* one of FiniteSets.                                                       *)
LEMMA SameCardinality == \A S : Retention!Cardinality(S) = Cardinality(S)
BY DEF Retention!Cardinality, Cardinality

LEMMA RefInit == Init => Retention!Init
<1> SUFFICES ASSUME Init PROVE Retention!Init
  OBVIOUS
<1>1. live \in [Releases -> SUBSET Versions]
  BY TypeInit DEF TypeInv, TypeOK
<1>. QED  BY <1>1 DEF Init, Retention!Init, Retention!Versions, Versions

(* The version a helm upgrade stores was never used: the newest live       *)
(* version m is the newest created one, since a created version that is    *)
(* gone has RevisionsCount >= 1 newer live versions.                       *)
LEMMA UpgradeFresh ==
  ASSUME IInv, NEW r \in Releases, NEW m \in live[r],
         \A x \in live[r] : x <= m
  PROVE  m + 1 \notin created[r]
<1>1. live[r] \subseteq Versions /\ m \in Nat
  BY DEF IInv, TypeOK, Versions
<1>2. m + 1 \notin live[r]
  BY <1>1 DEF Versions
<1>3. {x \in live[r] : x > m + 1} = {}
  BY <1>1 DEF Versions
<1>4. Cardinality({x \in live[r] : x > m + 1}) = 0
  BY <1>3, FS_EmptySet
<1>5. ~(m + 1 \in created[r] \ live[r])
  BY <1>4, RevisionsCountAssumption DEF IInv, RetainNewest
<1>. QED  BY <1>2, <1>5

LEMMA RefNext == IInv /\ [Next]_vars => [Retention!Next]_StoreState
<1> SUFFICES ASSUME IInv, [Next]_vars PROVE [Retention!Next]_StoreState
  OBVIOUS
<1>1. ASSUME NEW r \in Releases, Upgrade(r) PROVE Retention!Next
  <2>1. PICK m \in live[r] : /\ \A x \in live[r] : x <= m
                             /\ m + 1 \in Versions
                             /\ live' = [live EXCEPT ![r] = @ \cup {m + 1}]
                             /\ created' = [created EXCEPT ![r] = @ \cup {m + 1}]
                             /\ UNCHANGED archive
    BY <1>1 DEF Upgrade
  <2>2. m + 1 \notin created[r]
    BY <2>1, UpgradeFresh
  <2>3. Retention!Create(r, m + 1)
    BY <2>1, <2>2 DEF Retention!Create
  <2>. QED  BY <2>1, <2>3 DEF Retention!Next, Retention!Versions, Versions
<1>2. ASSUME NEW u \in Runs, RunStep(u) \/ Crash(u) PROVE UNCHANGED StoreState
  BY <1>2 DEF RunStep, Count, FetchPage, Join, Finish, Crash, StoreVars, StoreState
<1>3. ASSUME NEW w \in Workers,
             Connect(w) \/ OpenNamespace(w) \/ EndCluster(w) \/ EndNamespace(w)
             \/ EndRelease(w) \/ FetchHistory(w)
      PROVE UNCHANGED StoreState
  BY <1>3 DEF Connect, OpenNamespace, EndCluster, EndNamespace, EndRelease,
     FetchHistory, StoreVars, StoreState
<1>4. ASSUME NEW w \in Workers, Archive(w) PROVE [Retention!Next]_StoreState
  <2>1. PICK v \in evLeft[w] : archive' \in {archive, archive \cup {<<cur[w], v>>}}
    BY <1>4 DEF Archive
  <2>2. UNCHANGED <<live, created>> /\ pc[w] = "archive"
    BY <1>4 DEF Archive
  <2>3. /\ cur[w] \in Releases
        /\ v \in Versions
        /\ v \in created[cur[w]]
    <3>1. cur[w] \in Releases /\ hist[w] \subseteq created[cur[w]]
          /\ evLeft[w] \subseteq Evictable(hist[w])
      BY <2>2 DEF IInv, CurSet, SnapshotSound, Evicting
    <3>2. v \in hist[w]
      BY <3>1, EvictableSubset
    <3>3. v \in Versions
      BY DEF IInv, TypeOK
    <3>. QED  BY <3>1, <3>2, <3>3
  <2>4. CASE archive' = archive
    BY <2>2, <2>4 DEF StoreState
  <2>5. CASE archive' = archive \cup {<<cur[w], v>>}
    <3>1. Retention!Store(cur[w], v)
      BY <2>2, <2>3, <2>5 DEF Retention!Store
    <3>. QED  BY <2>3, <3>1 DEF Retention!Next, Retention!Versions, Versions
  <2>. QED  BY <2>1, <2>4, <2>5
<1>5. ASSUME NEW w \in Workers, DeleteRevision(w) PROVE [Retention!Next]_StoreState
  <2> DEFINE r == cur[w]
             v == rev[w]
  <2>1. /\ pc[w] = "delete"
        /\ live' \in {live, [live EXCEPT ![r] = @ \ {v}]}
        /\ UNCHANGED <<created, archive>>
    BY <1>5 DEF DeleteRevision
  <2>2. /\ r \in Releases
        /\ v \in evLeft[w] /\ <<r, v>> \in archive
        /\ hist[w] \subseteq created[r] /\ evLeft[w] \subseteq Evictable(hist[w])
    BY <2>1 DEF IInv, CurSet, Evicting, DeletePending, SnapshotSound
  <2>3. CASE live' = live
    BY <2>1, <2>3 DEF StoreState
  <2>4. CASE live' = [live EXCEPT ![r] = @ \ {v}] /\ v \notin live[r]
    <3>1. live \in [Releases -> SUBSET Versions]
      BY DEF IInv, TypeOK
    <3>2. live' = live
      BY <2>2, <2>4, <3>1
    <3>. QED  BY <2>1, <3>2 DEF StoreState
  <2>5. CASE live' = [live EXCEPT ![r] = @ \ {v}] /\ v \in live[r]
    <3>1. live[r] \in SUBSET Versions /\ created[r] \in SUBSET Versions /\ v \in Versions
      BY <2>2 DEF IInv, TypeOK
    <3>2. Cardinality({y \in live[r] : y > v}) >= RevisionsCount
      BY <2>2, <3>1, EvictableHasNewer, RetainNewestRetains DEF IInv, LiveCreated
    <3>3. Retention!Evict(r, v)
      <4>1. v \in live[r] /\ <<r, v>> \in archive
        BY <2>2, <2>5
      <4>2. live' = [live EXCEPT ![r] = @ \ {v}] /\ UNCHANGED <<created, archive>>
        BY <2>1, <2>5
      <4>. QED  BY <3>2, <4>1, <4>2, SameCardinality DEF Retention!Evict
    <3>. QED  BY <2>2, <3>1, <3>3 DEF Retention!Next, Retention!Versions, Versions
  <2>. QED  BY <2>1, <2>3, <2>4, <2>5
<1>6. CASE UNCHANGED vars
  BY <1>6 DEF vars, StoreState
<1>. QED  BY <1>1, <1>2, <1>3, <1>4, <1>5, <1>6 DEF Next, TaskStep

(* Refinement: every behaviour of the job, with its failures, crashes,     *)
(* overlapping runs and concurrent helm upgrades, is a behaviour of        *)
(* RevisionRetention on the release stores and the S3 bucket: revisions    *)
(* are created fresh, archived only if they exist, and evicted only once   *)
(* archived and with RevisionsCount newer live revisions.                  *)
THEOREM Refinement == Spec => RetentionRefined
<1>1. Spec => []IInv
  BY IInvInit, IInvNext, PTL DEF Spec
<1>2. []IInv /\ [][Next]_vars => [][Retention!Next]_StoreState
  BY RefNext, PTL
<1>. QED  BY RefInit, <1>1, <1>2, PTL DEF Spec, RetentionRefined, Retention!Spec, StoreState
=============================================================================
