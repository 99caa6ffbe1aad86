---------------------- MODULE HelmRevisionsTrackerProofs ----------------------
(***************************************************************************)
(* Proofs about HelmRevisionsTracker, for every value of the constants     *)
(* that satisfies its assumptions.                                         *)
(***************************************************************************)
EXTENDS HelmRevisionsTracker, FiniteSetTheorems, TLAPS

USE ClustersAssumption, LayoutAssumption, RevisionsCountAssumption,
    StepSizeAssumption, VersionAssumption

-----------------------------------------------------------------------------
(* Every step keeps the variables in their types.                          *)

(* TypeOK is not inductive by itself: Archive writes the key of cur[w], so *)
(* a goroutine that evicts must have a current release.                   *)
TypeInv == TypeOK /\ CurSet

LEMMA TypeInit == Init => TypeInv
<1> SUFFICES ASSUME Init PROVE TypeInv
  OBVIOUS
<1>1. PICK len \in [Releases -> InitLen] :
        live = [r \in Releases |-> 1..len[r]] /\ created = live
  BY DEF Init
<1>2. live \in [Releases -> SUBSET Versions] /\ created \in [Releases -> SUBSET Versions]
  <2>1. ASSUME NEW r \in Releases PROVE 1..len[r] \subseteq Versions
    <3>1. len[r] \in 1..MaxVersion  BY <1>1, VersionAssumption, Zenon
    <3>. QED  BY <3>1 DEF Versions
  <2>. QED  BY <1>1, <2>1
<1>. QED  BY <1>2 DEF Init, TypeInv, TypeOK, CurSet, Evicting, Workers, RunPcs, TaskPcs

(* The eviction loop only visits revisions of the history it was given.    *)
LEMMA EvictableSubset == \A H : Evictable(H) \subseteq H
BY DEF Evictable

LEMMA TypeNext == TypeInv /\ [Next]_vars => TypeInv'
<1> SUFFICES ASSUME TypeInv, [Next]_vars PROVE TypeInv'
  OBVIOUS
<1> USE DEF TypeInv
<1>1. ASSUME NEW r \in Releases, Upgrade(r) PROVE TypeInv'
  BY <1>1 DEF Upgrade, TypeOK, CurSet, Evicting, Versions,
      RunVars, StoreVars, TaskVars
<1>2. ASSUME NEW u \in Runs, Count(u) PROVE TypeInv'
  <2>1. Cardinality(Clusters) \in Nat
    BY FS_CardinalityType
  <2>2. PageCount(Cardinality(Clusters)) \in Nat
    BY <2>1 DEF PageCount
  <2>. QED  BY <1>2, <2>2 DEF Count, TypeOK, CurSet, Evicting, RunPcs,
      RunVars, StoreVars, TaskVars
<1>3. ASSUME NEW u \in Runs, FetchPage(u) PROVE TypeInv'
  BY <1>3 DEF FetchPage, TypeOK, CurSet, Evicting, RunPcs, TaskPcs,
      RunVars, StoreVars, TaskVars
<1>4. ASSUME NEW u \in Runs, Join(u) PROVE TypeInv'
  BY <1>4 DEF Join, TypeOK, CurSet, Evicting, RunPcs,
      RunVars, StoreVars, TaskVars
<1>5. ASSUME NEW u \in Runs, Finish(u) PROVE TypeInv'
  BY <1>5 DEF Finish, TypeOK, CurSet, Evicting, RunPcs,
      RunVars, StoreVars, TaskVars
<1>6. ASSUME NEW u \in Runs, Crash(u) PROVE TypeInv'
  BY <1>6 DEF Crash, TypeOK, CurSet, Evicting, RunPcs, TaskPcs, TaskEnded,
      RunVars, StoreVars, TaskVars
<1>7. ASSUME NEW w \in Workers, TaskStep(w) PROVE TypeInv'
  <2>1. w[2] \in Clusters
    BY DEF Workers
  <2>2. CASE Connect(w)
    BY <2>1, <2>2 DEF Connect, TypeOK, CurSet, Evicting, TaskPcs,
      RunVars, StoreVars, TaskVars
  <2>3. CASE OpenNamespace(w)
    BY <2>3 DEF OpenNamespace, ReleasesIn, TypeOK, CurSet, Evicting, TaskPcs,
      RunVars, StoreVars, TaskVars
  <2>4. CASE EndCluster(w)
    BY <2>4 DEF EndCluster, TypeOK, CurSet, Evicting, TaskPcs,
      RunVars, StoreVars, TaskVars
  <2>5. CASE FetchHistory(w)
    <3>1. PICK r \in relLeft[w] :
            /\ relLeft' = [relLeft EXCEPT ![w] = @ \ {r}]
            /\ \/ /\ pc' = [pc EXCEPT ![w] = "archive"]
                  /\ cur' = [cur EXCEPT ![w] = r]
                  /\ hist' = [hist EXCEPT ![w] = live[r]]
                  /\ evLeft' = [evLeft EXCEPT ![w] = Evictable(live[r])]
                  /\ relOk' = [relOk EXCEPT ![w] = TRUE]
               \/ UNCHANGED <<pc, cur, hist, evLeft, relOk>>
      BY <2>5 DEF FetchHistory
    <3>2. r \in Releases
      BY <3>1 DEF TypeOK
    <3>3. Evictable(live[r]) \in SUBSET Versions
      BY <3>2, EvictableSubset DEF TypeOK
    <3>4. UNCHANGED <<live, created, archive, runPc, page, pages, nsLeft, rev>>
      BY <2>5 DEF FetchHistory, RunVars, StoreVars
    <3>5. CASE /\ pc' = [pc EXCEPT ![w] = "archive"]
               /\ cur' = [cur EXCEPT ![w] = r]
               /\ hist' = [hist EXCEPT ![w] = live[r]]
               /\ evLeft' = [evLeft EXCEPT ![w] = Evictable(live[r])]
               /\ relOk' = [relOk EXCEPT ![w] = TRUE]
      BY <3>1, <3>2, <3>3, <3>4, <3>5 DEF TypeOK, CurSet, Evicting, TaskPcs
    <3>6. CASE UNCHANGED <<pc, cur, hist, evLeft, relOk>>
      BY <3>1, <3>4, <3>6 DEF TypeOK, CurSet, Evicting
    <3>. QED  BY <3>1, <3>5, <3>6
  <2>6. CASE EndNamespace(w)
    BY <2>6 DEF EndNamespace, TypeOK, CurSet, Evicting, TaskPcs,
      RunVars, StoreVars, TaskVars
  <2>7. CASE Archive(w)
    <3>1. PICK v \in evLeft[w] :
            \/ /\ archive' = archive \cup {<<cur[w], v>>}
               /\ pc' = [pc EXCEPT ![w] = "delete"]
               /\ rev' = [rev EXCEPT ![w] = v]
               /\ UNCHANGED <<evLeft, relOk>>
            \/ /\ archive' \in {archive, archive \cup {<<cur[w], v>>}}
               /\ evLeft' = [evLeft EXCEPT ![w] = @ \ {v}]
               /\ relOk' = [relOk EXCEPT ![w] = FALSE]
               /\ UNCHANGED <<pc, rev>>
      BY <2>7 DEF Archive
    <3>2. cur[w] \in Releases
      BY <2>7 DEF Archive, CurSet, Evicting
    <3>3. UNCHANGED <<live, created, runPc, page, pages, nsLeft, relLeft, cur, hist>>
      BY <2>7 DEF Archive, RunVars
    <3>4. CASE /\ archive' = archive \cup {<<cur[w], v>>}
               /\ pc' = [pc EXCEPT ![w] = "delete"]
               /\ rev' = [rev EXCEPT ![w] = v]
               /\ UNCHANGED <<evLeft, relOk>>
      BY <3>2, <3>3, <3>4 DEF TypeOK, CurSet, Evicting, TaskPcs
    <3>5. CASE /\ archive' \in {archive, archive \cup {<<cur[w], v>>}}
               /\ evLeft' = [evLeft EXCEPT ![w] = @ \ {v}]
               /\ relOk' = [relOk EXCEPT ![w] = FALSE]
               /\ UNCHANGED <<pc, rev>>
      BY <3>2, <3>3, <3>5 DEF TypeOK, CurSet, Evicting
    <3>. QED  BY <3>1, <3>4, <3>5
  <2>8. CASE DeleteRevision(w)
    <3>1. live' \in [Releases -> SUBSET Versions]
      BY <2>8 DEF DeleteRevision, TypeOK, CurSet, Evicting
    <3>. QED  BY <2>8, <3>1 DEF DeleteRevision, TypeOK, CurSet, Evicting, TaskPcs,
      RunVars, StoreVars, TaskVars
  <2>9. CASE EndRelease(w)
    BY <2>9 DEF EndRelease, TypeOK, CurSet, Evicting, TaskPcs,
      RunVars, StoreVars, TaskVars
  <2>. QED  BY <1>7, <2>2, <2>3, <2>4, <2>5, <2>6, <2>7, <2>8, <2>9 DEF TaskStep
<1>8. CASE UNCHANGED vars
  BY <1>8 DEF vars, TypeOK, CurSet, Evicting
<1>. QED  BY <1>1, <1>2, <1>3, <1>4, <1>5, <1>6, <1>7, <1>8 DEF Next, RunStep

(* Type correctness of the job and of its environment.                     *)
THEOREM TypeCorrect == Spec => []TypeOK
<1>1. Spec => []TypeInv
  BY TypeInit, TypeNext, PTL DEF Spec
<1>. QED  BY <1>1, PTL DEF TypeInv


-----------------------------------------------------------------------------
(* Counting lemmas behind the retention argument.                          *)

(* Retains(L, C): every version of C missing from L has at least           *)
(* RevisionsCount newer versions in L; RetainNewest says it of every       *)
(* release's live and created versions.                                    *)
Retains(L, C) ==
  \A x \in C \ L : Cardinality({y \in L : y > x}) >= RevisionsCount

LEMMA VersionsFinite ==
  ASSUME NEW S \in SUBSET Versions
  PROVE  IsFiniteSet(S) /\ Cardinality(S) \in Nat
<1>1. IsFiniteSet(Versions)
  BY FS_Interval DEF Versions
<1>2. IsFiniteSet(S)
  BY <1>1, FS_Subset
<1>. QED  BY <1>2, FS_CardinalityType

(* A subset of versions has no more elements.                              *)
LEMMA CardMono ==
  ASSUME NEW S \in SUBSET Versions, NEW T, T \subseteq S
  PROVE  Cardinality(T) <= Cardinality(S)
BY VersionsFinite, FS_Subset

(* A version the eviction loop visits still has RevisionsCount newer live  *)
(* versions, whatever happened since the snapshot H: a newer version of H  *)
(* that is gone has RevisionsCount newer live ones itself.                 *)
LEMMA EvictableHasNewer ==
  ASSUME NEW L \in SUBSET Versions, NEW C \in SUBSET Versions,
         L \subseteq C, Retains(L, C),
         NEW H \in SUBSET C, NEW v \in Evictable(H)
  PROVE  Cardinality({y \in L : y > v}) >= RevisionsCount
<1>1. v \in Versions /\ Cardinality({u \in H : u > v}) >= RevisionsCount
  BY DEF Evictable
<1>2. CASE \E u \in H : u > v /\ u \notin L
  <2>1. PICK u \in H : u > v /\ u \notin L
    BY <1>2
  <2>2. Cardinality({y \in L : y > u}) >= RevisionsCount
    BY <2>1 DEF Retains
  <2>3. {y \in L : y > u} \subseteq {y \in L : y > v}
    <3>1. u \in Nat /\ v \in Nat /\ L \subseteq Nat
      BY <1>1, <2>1 DEF Versions
    <3>2. ASSUME NEW y \in L, y > u PROVE y > v
      BY <2>1, <3>1, <3>2
    <3>. QED  BY <3>2
  <2>4. Cardinality({y \in L : y > u}) <= Cardinality({y \in L : y > v})
    BY <2>3, CardMono
  <2>5. /\ Cardinality({y \in L : y > u}) \in Nat
        /\ Cardinality({y \in L : y > v}) \in Nat
    BY VersionsFinite
  <2>. QED  BY <2>2, <2>4, <2>5, RevisionsCountAssumption
<1>3. CASE \A u \in H : u > v => u \in L
  <2>1. {u \in H : u > v} \subseteq {y \in L : y > v}
    BY <1>3
  <2>2. Cardinality({u \in H : u > v}) <= Cardinality({y \in L : y > v})
    BY <2>1, CardMono
  <2>3. /\ Cardinality({u \in H : u > v}) \in Nat
        /\ Cardinality({y \in L : y > v}) \in Nat
    BY VersionsFinite
  <2>. QED  BY <1>1, <2>2, <2>3, RevisionsCountAssumption
<1>. QED  BY <1>2, <1>3

(* Deleting a version with RevisionsCount newer live versions keeps        *)
(* Retains.                                                                 *)
LEMMA DeleteRetains ==
  ASSUME NEW L \in SUBSET Versions, NEW C \in SUBSET Versions,
         Retains(L, C), NEW v \in Versions,
         Cardinality({y \in L : y > v}) >= RevisionsCount
  PROVE  Retains(L \ {v}, C)
<1> SUFFICES ASSUME NEW x \in C \ (L \ {v})
             PROVE  Cardinality({y \in L \ {v} : y > x}) >= RevisionsCount
  BY DEF Retains
<1>1. CASE x = v
  <2>1. {y \in L \ {v} : y > x} = {y \in L : y > v}
    BY <1>1 DEF Versions
  <2>. QED  BY <2>1
<1>2. CASE x # v /\ x > v
  <2>1. x \in C \ L
    BY <1>2
  <2>2. {y \in L \ {v} : y > x} = {y \in L : y > x}
    BY <1>2 DEF Versions
  <2>. QED  BY <2>1, <2>2 DEF Retains
<1>3. CASE x # v /\ ~(x > v)
  <2>1. {y \in L : y > v} \subseteq {y \in L \ {v} : y > x}
    <3>1. x \in Nat /\ v \in Nat /\ L \subseteq Nat
      BY DEF Versions
    <3>2. ASSUME NEW y \in L, y > v PROVE y \in L \ {v} /\ y > x
      BY <1>3, <3>1, <3>2
    <3>. QED  BY <3>2
  <2>2. Cardinality({y \in L : y > v}) <= Cardinality({y \in L \ {v} : y > x})
    BY <2>1, CardMono
  <2>3. /\ Cardinality({y \in L : y > v}) \in Nat
        /\ Cardinality({y \in L \ {v} : y > x}) \in Nat
    BY VersionsFinite
  <2>. QED  BY <2>2, <2>3, RevisionsCountAssumption
<1>. QED  BY <1>1, <1>2, <1>3

(* Storing a new version (a helm upgrade) keeps Retains.                   *)
LEMMA AddRetains ==
  ASSUME NEW L \in SUBSET Versions, NEW C \in SUBSET Versions,
         Retains(L, C), NEW n \in Versions
  PROVE  Retains(L \cup {n}, C \cup {n})
<1> SUFFICES ASSUME NEW x \in (C \cup {n}) \ (L \cup {n})
             PROVE  Cardinality({y \in L \cup {n} : y > x}) >= RevisionsCount
  BY DEF Retains
<1>1. x \in C \ L
  OBVIOUS
<1>2. Cardinality({y \in L : y > x}) <= Cardinality({y \in L \cup {n} : y > x})
  BY CardMono
<1>3. /\ Cardinality({y \in L : y > x}) \in Nat
      /\ Cardinality({y \in L \cup {n} : y > x}) \in Nat
  BY VersionsFinite
<1>. QED  BY <1>1, <1>2, <1>3, RevisionsCountAssumption DEF Retains


-----------------------------------------------------------------------------
(* IInv (HelmRevisionsTracker) is inductive.                                *)

LEMMA RetainNewestRetains ==
  RetainNewest <=> \A r \in Releases : Retains(live[r], created[r])
BY DEF RetainNewest, Retains

LEMMA IInvInit == Init => IInv
<1> SUFFICES ASSUME Init PROVE IInv
  OBVIOUS
<1>1. TypeInv
  BY TypeInit
<1>2. \A r \in Releases : created[r] \ live[r] = {}
  BY DEF Init
<1>3. \A w \in Workers : ~Evicting(w)
  BY DEF Init, Evicting
<1>. QED  BY <1>1, <1>2, <1>3 DEF Init, IInv, TypeInv, LiveCreated, SnapshotSound,
      DeletePending, RetainNewest, DeletedOnlyIfArchived, Evicting

(* A step that leaves the stores and the eviction state alone and starts   *)
(* no eviction keeps IInv.                                                  *)
LEMMA QuietStep ==
  ASSUME IInv, TypeInv',
         UNCHANGED <<live, created, archive, cur, hist, evLeft, rev>>,
         \A w \in Workers : Evicting(w)' => pc'[w] = pc[w]
  PROVE  IInv'
<1>1. \A w \in Workers : Evicting(w)' => Evicting(w)
  BY DEF Evicting
<1>. QED  BY <1>1 DEF IInv, TypeInv, CurSet, LiveCreated, SnapshotSound, DeletePending,
      RetainNewest, DeletedOnlyIfArchived, Evicting

LEMMA IInvNext == IInv /\ [Next]_vars => IInv'
<1> SUFFICES ASSUME IInv, [Next]_vars PROVE IInv'
  OBVIOUS
<1>0. TypeInv'
  BY TypeNext DEF IInv, TypeInv
<1>1. ASSUME NEW r \in Releases, Upgrade(r) PROVE IInv'
  <2>1. PICK m \in live[r] : /\ m + 1 \in Versions
                             /\ live' = [live EXCEPT ![r] = @ \cup {m + 1}]
                             /\ created' = [created EXCEPT ![r] = @ \cup {m + 1}]
    BY <1>1 DEF Upgrade
  <2>2. UNCHANGED <<archive, pc, cur, hist, evLeft, rev>>
    BY <1>1 DEF Upgrade, RunVars, TaskVars
  <2>3. live[r] \in SUBSET Versions /\ created[r] \in SUBSET Versions
    BY DEF IInv, TypeOK
  <2>4. Retains(live'[r], created'[r])
    BY <2>1, <2>3, AddRetains, RetainNewestRetains DEF IInv, TypeOK
  <2>5. RetainNewest'
    <3>1. ASSUME NEW q \in Releases PROVE Retains(live'[q], created'[q])
      <4>1. CASE q = r
        BY <2>4, <4>1
      <4>2. CASE q # r
        <5>1. live'[q] = live[q] /\ created'[q] = created[q]
          BY <2>1, <4>2 DEF IInv, TypeOK
        <5>. QED  BY <5>1, RetainNewestRetains DEF IInv
      <4>. QED  BY <4>1, <4>2
    <3>. QED  BY <3>1 DEF RetainNewest, Retains
  <2>6. DeletedOnlyIfArchived'
    <3>1. ASSUME NEW q \in Releases PROVE created'[q] \ live'[q] \subseteq created[q] \ live[q]
      BY <2>1 DEF IInv, TypeOK
    <3>. QED  BY <2>2, <3>1 DEF IInv, DeletedOnlyIfArchived
  <2>7. LiveCreated' /\ SnapshotSound' /\ DeletePending'
    BY <2>1, <2>2 DEF IInv, TypeOK, CurSet, Evicting, LiveCreated, SnapshotSound, DeletePending
  <2>. QED  BY <1>0, <2>5, <2>6, <2>7 DEF IInv, TypeInv
<1>2. ASSUME NEW u \in Runs, RunStep(u) \/ Crash(u) PROVE IInv'
  <2>1. UNCHANGED <<live, created, archive, cur, hist, evLeft, rev>>
    BY <1>2 DEF RunStep, Count, FetchPage, Join, Finish, Crash, StoreVars, TaskVars
  <2>2. \A w \in Workers : Evicting(w)' => pc'[w] = pc[w]
    BY <1>2 DEF RunStep, Count, FetchPage, Join, Finish, Crash, TaskVars, Evicting
  <2>. QED  BY <1>0, <2>1, <2>2, QuietStep
<1>3. ASSUME NEW w \in Workers,
             Connect(w) \/ OpenNamespace(w) \/ EndCluster(w) \/ EndNamespace(w)
             \/ EndRelease(w)
      PROVE IInv'
  <2>1. UNCHANGED <<live, created, archive, cur, hist, evLeft, rev>>
    BY <1>3 DEF Connect, OpenNamespace, EndCluster, EndNamespace, EndRelease, StoreVars
  <2>2. \A x \in Workers : Evicting(x)' => pc'[x] = pc[x]
    BY <1>3 DEF Connect, OpenNamespace, EndCluster, EndNamespace, EndRelease, Evicting, IInv, TypeOK
  <2>. QED  BY <1>0, <2>1, <2>2, QuietStep
<1>4. ASSUME NEW w \in Workers, FetchHistory(w) PROVE IInv'
  <2>1. PICK r \in relLeft[w] :
          \/ /\ pc' = [pc EXCEPT ![w] = "archive"]
             /\ cur' = [cur EXCEPT ![w] = r]
             /\ hist' = [hist EXCEPT ![w] = live[r]]
             /\ evLeft' = [evLeft EXCEPT ![w] = Evictable(live[r])]
          \/ UNCHANGED <<pc, cur, hist, evLeft>>
    BY <1>4 DEF FetchHistory
  <2>2. UNCHANGED <<live, created, archive, rev>>
    BY <1>4 DEF FetchHistory, StoreVars
  <2>3. CASE UNCHANGED <<pc, cur, hist, evLeft>>
    BY <1>0, <2>2, <2>3, QuietStep
  <2>4. CASE /\ pc' = [pc EXCEPT ![w] = "archive"]
             /\ cur' = [cur EXCEPT ![w] = r]
             /\ hist' = [hist EXCEPT ![w] = live[r]]
             /\ evLeft' = [evLeft EXCEPT ![w] = Evictable(live[r])]
    <3>1. r \in Releases /\ live[r] \subseteq created[r]
      BY DEF IInv, TypeOK, LiveCreated
    <3>2. SnapshotSound'
      BY <2>2, <2>4, <3>1 DEF IInv, TypeOK, SnapshotSound, Evicting
    <3>3. DeletePending'
      BY <2>2, <2>4 DEF IInv, TypeOK, DeletePending
    <3>. QED  BY <1>0, <2>2, <3>2, <3>3 DEF IInv, TypeInv, LiveCreated, RetainNewest,
      DeletedOnlyIfArchived
  <2>. QED  BY <2>1, <2>3, <2>4
<1>5. ASSUME NEW w \in Workers, Archive(w) PROVE IInv'
  <2>1. PICK v \in evLeft[w] :
          \/ /\ archive' = archive \cup {<<cur[w], v>>}
             /\ pc' = [pc EXCEPT ![w] = "delete"]
             /\ rev' = [rev EXCEPT ![w] = v]
             /\ UNCHANGED evLeft
          \/ /\ archive' \in {archive, archive \cup {<<cur[w], v>>}}
             /\ evLeft' = [evLeft EXCEPT ![w] = @ \ {v}]
             /\ UNCHANGED <<pc, rev>>
    BY <1>5 DEF Archive
  <2>2. UNCHANGED <<live, created, cur, hist>> /\ pc[w] = "archive"
    BY <1>5 DEF Archive
  <2>3. archive \subseteq archive'
    BY <2>1
  <2>4. DeletedOnlyIfArchived' /\ LiveCreated' /\ RetainNewest'
    BY <2>2, <2>3 DEF IInv, DeletedOnlyIfArchived, LiveCreated, RetainNewest
  <2>5. CASE /\ archive' = archive \cup {<<cur[w], v>>}
             /\ pc' = [pc EXCEPT ![w] = "delete"]
             /\ rev' = [rev EXCEPT ![w] = v]
             /\ UNCHANGED evLeft
    <3>1. SnapshotSound'
      BY <2>2, <2>5 DEF IInv, TypeOK, SnapshotSound, Evicting
    <3>2. DeletePending'
      BY <2>2, <2>3, <2>5 DEF IInv, TypeOK, DeletePending
    <3>. QED  BY <1>0, <2>4, <3>1, <3>2 DEF IInv, TypeInv
  <2>6. CASE /\ archive' \in {archive, archive \cup {<<cur[w], v>>}}
             /\ evLeft' = [evLeft EXCEPT ![w] = @ \ {v}]
             /\ UNCHANGED <<pc, rev>>
    <3>1. SnapshotSound'
      BY <2>2, <2>6 DEF IInv, TypeOK, SnapshotSound, Evicting
    <3>2. DeletePending'
      BY <2>2, <2>3, <2>6 DEF IInv, TypeOK, DeletePending
    <3>. QED  BY <1>0, <2>4, <3>1, <3>2 DEF IInv, TypeInv
  <2>. QED  BY <2>1, <2>5, <2>6
<1>6. ASSUME NEW w \in Workers, DeleteRevision(w) PROVE IInv'
  <2> DEFINE r == cur[w]
             v == rev[w]
  <2>1. /\ pc[w] = "delete"
        /\ live' \in {live, [live EXCEPT ![r] = @ \ {v}]}
        /\ pc' = [pc EXCEPT ![w] = "archive"]
        /\ evLeft' = [evLeft EXCEPT ![w] = @ \ {v}]
        /\ UNCHANGED <<created, archive, cur, hist, rev>>
    BY <1>6 DEF DeleteRevision
  <2>2. /\ r \in Releases
        /\ v \in evLeft[w] /\ <<r, v>> \in archive
        /\ hist[w] \subseteq created[r] /\ evLeft[w] \subseteq Evictable(hist[w])
    BY <2>1 DEF IInv, CurSet, Evicting, DeletePending, SnapshotSound
  <2>3. SnapshotSound' /\ DeletePending'
    BY <2>1, <2>2 DEF IInv, TypeOK, SnapshotSound, DeletePending, Evicting
  <2>4. CASE live' = live
    BY <1>0, <2>1, <2>3, <2>4 DEF IInv, TypeInv, LiveCreated, RetainNewest,
      DeletedOnlyIfArchived
  <2>5. CASE live' = [live EXCEPT ![r] = @ \ {v}]
    <3>1. live[r] \in SUBSET Versions /\ created[r] \in SUBSET Versions /\ v \in Versions
      BY <2>2 DEF IInv, TypeOK
    <3>2. Cardinality({y \in live[r] : y > v}) >= RevisionsCount
      BY <2>2, <3>1, EvictableHasNewer, RetainNewestRetains DEF IInv, LiveCreated
    <3>3. Retains(live[r] \ {v}, created[r])
      <4>1. Retains(live[r], created[r])
        BY <2>2, RetainNewestRetains DEF IInv
      <4>. QED  BY <3>1, <3>2, <4>1, DeleteRetains
    <3>4. RetainNewest'
      <4>1. ASSUME NEW q \in Releases PROVE Retains(live'[q], created'[q])
        <5>1. CASE q = r
          <6>1. live'[q] = live[r] \ {v} /\ created'[q] = created[r]
            BY <2>1, <2>2, <2>5, <5>1 DEF IInv, TypeOK
          <6>. QED  BY <3>3, <6>1
        <5>2. CASE q # r
          <6>1. live'[q] = live[q] /\ created'[q] = created[q]
            BY <2>1, <2>5, <5>2 DEF IInv, TypeOK
          <6>. QED  BY <6>1, RetainNewestRetains DEF IInv
        <5>. QED  BY <5>1, <5>2
      <4>. QED  BY <4>1 DEF RetainNewest, Retains
    <3>5. DeletedOnlyIfArchived'
      BY <2>1, <2>2, <2>5 DEF IInv, TypeOK, DeletedOnlyIfArchived
    <3>6. LiveCreated'
      BY <2>1, <2>5 DEF IInv, TypeOK, LiveCreated
    <3>. QED  BY <1>0, <2>3, <3>4, <3>5, <3>6 DEF IInv, TypeInv
  <2>. QED  BY <2>1, <2>4, <2>5
<1>7. CASE UNCHANGED vars
  BY <1>0, <1>7, QuietStep DEF vars, Evicting
<1>. QED  BY <1>1, <1>2, <1>3, <1>4, <1>5, <1>6, <1>7 DEF Next, TaskStep

(* Retention: in every reachable state, a revision is gone from a release  *)
(* only while RevisionsCount newer revisions of it are live, although the  *)
(* goroutines delete from stale history snapshots while helm upgrades and  *)
(* other runs go on (lines 225-268).                                        *)
THEOREM RetainNewestHolds == Spec => []RetainNewest
<1>1. Spec => []IInv
  BY IInvInit, IInvNext, PTL DEF Spec
<1>. QED  BY <1>1, PTL DEF IInv

(* Durability: in every reachable state, every revision gone from the live *)
(* store has its object in the S3 bucket (lines 256-268).                  *)
THEOREM DeletedOnlyIfArchivedHolds == Spec => []DeletedOnlyIfArchived
<1>1. Spec => []IInv
  BY IInvInit, IInvNext, PTL DEF Spec
<1>. QED  BY <1>1, PTL DEF IInv

=============================================================================
