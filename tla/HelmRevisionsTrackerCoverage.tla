--------------------- MODULE HelmRevisionsTrackerCoverage ---------------------
(***************************************************************************)
(* Proof that a run of the revisions tracker that returns nil has started  *)
(* a goroutine for exactly the monitored clusters, for every number of    *)
(* clusters and every page size.                                            *)
(***************************************************************************)
EXTENDS HelmRevisionsTrackerProofs

\* the clusters run u has started a goroutine for
Started(u) == {c \in Clusters : pc[<<u, c>>] # "idle"}

\* how far into the ordered monitored clusters run u's pages reach
Reach(u) == IF runPc[u] = "wait" THEN (page[u] + 1) * StepSize ELSE page[u] * StepSize

(* The clusters a live run has started are the monitored ones its pages    *)
(* have reached: page i holds exactly the places i*stepSize+1 ..           *)
(* (i+1)*stepSize, and a goroutine, once started, never goes back to idle. *)
StartedReached ==
  \A u \in Runs : runPc[u] \in {"start", "page", "wait", "done"} =>
     Started(u) = {c \in Monitored : Rank(c) <= Reach(u)}

(* A run counts before its first page; the count it took stays fixed, and *)
(* it is done only once its page index has reached it.                     *)
PageLoop ==
  \A u \in Runs :
     /\ runPc[u] = "start" => page[u] = 0
     /\ runPc[u] \in {"page", "wait", "done"} => pages[u] = PageCount(Cardinality(Clusters))
     /\ runPc[u] = "done" => page[u] >= pages[u]

(* The inductive invariant. *)
SInv == TypeInv /\ StartedReached /\ PageLoop

-----------------------------------------------------------------------------
USE ClustersAssumption, LayoutAssumption, RevisionsCountAssumption,
    StepSizeAssumption, VersionAssumption

(* A monitored cluster's place is between 1 and the number of clusters.    *)
LEMMA RankBounds ==
  ASSUME NEW c \in Monitored
  PROVE  Rank(c) \in Nat /\ 1 <= Rank(c) /\ Rank(c) <= Cardinality(Clusters)
<1> DEFINE P == {d \in Monitored : d <= c}
<1>1. P \subseteq Clusters /\ c \in P
  <2>1. c \in Nat /\ c <= c
    BY ClustersAssumption
  <2>2. P \subseteq Clusters
    BY ClustersAssumption DEF P
  <2>. QED  BY <2>1, <2>2 DEF P
<1>2. IsFiniteSet(P) /\ Cardinality(P) <= Cardinality(Clusters)
  BY <1>1, FS_Subset
<1>3. Cardinality(P) \in Nat /\ Cardinality(Clusters) \in Nat
  BY <1>2, FS_CardinalityType
<1>4. Cardinality(P) # 0
  BY <1>1, <1>2, FS_EmptySet
<1>. QED  BY <1>2, <1>3, <1>4 DEF Rank, P

(* (int(count)/stepSize)+1 pages of stepSize reach past every cluster     *)
(* (line 138), so once the loop index has reached the page count, every   *)
(* monitored cluster has been on a page.                                   *)
LEMMA AllReached ==
  ASSUME NEW p \in Nat, p >= PageCount(Cardinality(Clusters))
  PROVE  {c \in Monitored : Rank(c) <= p * StepSize} = Monitored
<1> DEFINE N == Cardinality(Clusters)
<1>1. N \in Nat
  BY FS_CardinalityType
<1>2. N < PageCount(N) * StepSize
  BY <1>1 DEF PageCount
<1>3. PageCount(N) * StepSize <= p * StepSize
  BY <1>1 DEF PageCount
<1>4. ASSUME NEW c \in Monitored PROVE Rank(c) <= p * StepSize
  BY <1>1, <1>2, <1>3, RankBounds DEF PageCount
<1>. QED  BY <1>4

(* No place is 0: a run's pages start out reaching no cluster.             *)
LEMMA NoneReached ==
  {c \in Monitored : Rank(c) <= 0} = {}
<1>1. ASSUME NEW c \in Monitored PROVE ~(Rank(c) <= 0)
  BY RankBounds
<1>. QED  BY <1>1

LEMMA SInvInit == Init => SInv
<1> SUFFICES ASSUME Init PROVE SInv
  OBVIOUS
<1>1. TypeInv
  BY TypeInit
<1>2. \A u \in Runs : Started(u) = {}
  BY DEF Init, Started, Workers
<1>3. \A u \in Runs : Reach(u) = 0
  BY DEF Init, Reach
<1>. QED  BY <1>1, <1>2, <1>3, NoneReached DEF SInv, StartedReached, PageLoop, Init

(* A step of a goroutine neither starts nor forgets one: the goroutine's    *)
(* own place is never idle before or after, and no other place changes.   *)
LEMMA TaskKeepsStarted ==
  ASSUME TypeInv, NEW w \in Workers, TaskStep(w)
  PROVE  /\ UNCHANGED <<runPc, page, pages>>
         /\ \A x \in Workers : (pc'[x] = "idle") <=> (pc[x] = "idle")
<1>1. UNCHANGED <<runPc, page, pages>>
  BY DEF TaskStep, Connect, OpenNamespace, EndCluster, FetchHistory, EndNamespace,
    Archive, DeleteRevision, EndRelease, RunVars
<1>2. pc[w] # "idle"
  BY DEF TaskStep, Connect, OpenNamespace, EndCluster, FetchHistory, EndNamespace,
    Archive, DeleteRevision, EndRelease
<1>3. \/ pc' = pc
      \/ \E s \in TaskPcs \ {"idle"} : pc' = [pc EXCEPT ![w] = s]
  BY DEF TaskStep, Connect, OpenNamespace, EndCluster, FetchHistory, EndNamespace,
    Archive, DeleteRevision, EndRelease, TaskPcs
<1>. QED  BY <1>1, <1>2, <1>3 DEF TypeInv, TypeOK

LEMMA SInvNext == SInv /\ [Next]_vars => SInv'
<1> SUFFICES ASSUME SInv, [Next]_vars PROVE SInv'
  OBVIOUS
<1>0. TypeInv'
  BY TypeNext DEF SInv
<1>1. ASSUME NEW r \in Releases, Upgrade(r) PROVE SInv'
  <2>1. UNCHANGED <<pc, runPc, page, pages>>
    BY <1>1 DEF Upgrade, RunVars, TaskVars
  <2>. QED  BY <1>0, <2>1 DEF SInv, StartedReached, PageLoop, Started, Reach
<1>2. ASSUME NEW w \in Workers, TaskStep(w) PROVE SInv'
  <2>1. /\ UNCHANGED <<runPc, page, pages>>
        /\ \A x \in Workers : (pc'[x] = "idle") <=> (pc[x] = "idle")
    BY <1>2, TaskKeepsStarted DEF SInv
  <2>2. \A u \in Runs : Started(u)' = Started(u)
    BY <2>1 DEF Started, Workers
  <2>. QED  BY <1>0, <2>1, <2>2 DEF SInv, StartedReached, PageLoop, Reach
<1>3. ASSUME NEW u \in Runs, Count(u) PROVE SInv'
  <2>1. UNCHANGED <<pc, page>> /\ runPc[u] = "start"
    BY <1>3 DEF Count, TaskVars
  <2>2. \A v \in Runs : Started(v)' = Started(v)
    BY <2>1 DEF Started
  <2>3. page[u] = 0 /\ Started(u) = {}
    BY <2>1, NoneReached DEF SInv, PageLoop, StartedReached, Reach, TypeInv, TypeOK
  <2>4. StartedReached'
    BY <1>3, <2>1, <2>2, <2>3, NoneReached DEF Count, SInv, StartedReached, Reach,
      TypeInv, TypeOK
  <2>5. PageLoop'
    BY <1>3, <2>1 DEF Count, SInv, PageLoop, TypeInv, TypeOK
  <2>. QED  BY <1>0, <2>4, <2>5 DEF SInv
<1>4. ASSUME NEW u \in Runs, FetchPage(u) PROVE SInv'
  <2>1. UNCHANGED <<page, pages>> /\ runPc[u] = "page"
    BY <1>4 DEF FetchPage
  <2>2. CASE runPc' = [runPc EXCEPT ![u] = "error"] /\ UNCHANGED pc
    BY <2>1, <2>2, <1>0 DEF SInv, StartedReached, PageLoop, Started, Reach, TypeInv, TypeOK
  <2>3. CASE /\ runPc' = [runPc EXCEPT ![u] = "wait"]
             /\ pc' = [w \in Workers |->
                         IF w[1] = u /\ w[2] \in PageOf(page[u]) THEN "connect" ELSE pc[w]]
    <3>1. \A v \in Runs \ {u} : Started(v)' = Started(v) /\ Reach(v)' = Reach(v)
      BY <2>1, <2>3 DEF Started, Reach, Workers, SInv, TypeInv, TypeOK
    <3>2. Started(u)' = Started(u) \cup PageOf(page[u])
      BY <2>3 DEF Started, Workers, PageOf
    <3>3. Started(u) = {c \in Monitored : Rank(c) <= page[u] * StepSize}
      BY <2>1 DEF SInv, StartedReached, Reach
    <3>4. Reach(u)' = (page[u] + 1) * StepSize
      BY <2>1, <2>3 DEF Reach, SInv, TypeInv, TypeOK
    <3>5. Started(u)' = {c \in Monitored : Rank(c) <= Reach(u)'}
      <4>1. ASSUME NEW c \in Monitored
            PROVE  (c \in Started(u) \cup PageOf(page[u])) <=> Rank(c) <= (page[u] + 1) * StepSize
        <5>1. Rank(c) \in Nat /\ page[u] \in Nat
          BY RankBounds DEF SInv, TypeInv, TypeOK
        <5>. QED  BY <3>3, <5>1 DEF PageOf
      <4>2. Started(u) \cup PageOf(page[u]) \subseteq Monitored
        BY <3>3 DEF PageOf
      <4>. QED  BY <3>2, <3>4, <4>1, <4>2
    <3>6. StartedReached'
      BY <2>3, <3>1, <3>5 DEF SInv, StartedReached, TypeInv, TypeOK
    <3>7. PageLoop'
      BY <2>1, <2>3 DEF SInv, PageLoop, TypeInv, TypeOK
    <3>. QED  BY <1>0, <3>6, <3>7 DEF SInv
  <2>. QED  BY <1>4, <2>2, <2>3 DEF FetchPage
<1>5. ASSUME NEW u \in Runs, Join(u) PROVE SInv'
  <2>1. /\ UNCHANGED <<pc, pages>> /\ runPc[u] = "wait"
        /\ runPc' = [runPc EXCEPT ![u] = "page"] /\ page' = [page EXCEPT ![u] = @ + 1]
    BY <1>5 DEF Join, TaskVars
  <2>2. \A v \in Runs : Started(v)' = Started(v) /\ Reach(v)' = Reach(v)
    BY <2>1 DEF Started, Reach, SInv, TypeInv, TypeOK
  <2>. QED  BY <1>0, <2>1, <2>2 DEF SInv, StartedReached, PageLoop, TypeInv, TypeOK
<1>6. ASSUME NEW u \in Runs, Finish(u) PROVE SInv'
  <2>1. /\ UNCHANGED <<pc, page, pages>> /\ runPc[u] = "page" /\ page[u] >= pages[u]
        /\ runPc' = [runPc EXCEPT ![u] = "done"]
    BY <1>6 DEF Finish, TaskVars
  <2>2. \A v \in Runs : Started(v)' = Started(v) /\ Reach(v)' = Reach(v)
    BY <2>1 DEF Started, Reach, SInv, TypeInv, TypeOK
  <2>. QED  BY <1>0, <2>1, <2>2 DEF SInv, StartedReached, PageLoop, TypeInv, TypeOK
<1>7. ASSUME NEW u \in Runs, Crash(u) PROVE SInv'
  <2>1. /\ UNCHANGED <<page, pages>>
        /\ runPc' = [runPc EXCEPT ![u] = "crashed"]
        /\ pc' = [w \in Workers |->
                    IF w[1] = u /\ pc[w] \notin TaskEnded \cup {"idle"} THEN "crashed" ELSE pc[w]]
    BY <1>7 DEF Crash
  <2>2. \A v \in Runs \ {u} : Started(v)' = Started(v) /\ Reach(v)' = Reach(v)
    BY <2>1 DEF Started, Reach, Workers, SInv, TypeInv, TypeOK
  <2>. QED  BY <1>0, <2>1, <2>2 DEF SInv, StartedReached, PageLoop, TypeInv, TypeOK
<1>8. CASE UNCHANGED vars
  BY <1>0, <1>8 DEF vars, SInv, StartedReached, PageLoop, Started, Reach
<1>. QED  BY <1>1, <1>2, <1>3, <1>4, <1>5, <1>6, <1>7, <1>8 DEF Next, RunStep

(* Coverage: when Run returns nil (line 287) it has started a goroutine    *)
(* for exactly the monitored clusters: the pages of Offset(i*stepSize)     *)
(* tile the clusters ordered by id, and (int(count)/stepSize)+1 of them    *)
(* reach past the last one (lines 132-147).                                *)
THEOREM EveryMonitoredClusterSweptHolds == Spec => []EveryMonitoredClusterSwept
<1>1. SInv => EveryMonitoredClusterSwept
  <2> SUFFICES ASSUME SInv, NEW u \in Runs, runPc[u] = "done"
               PROVE  Started(u) = Monitored
    BY DEF EveryMonitoredClusterSwept, Started
  <2>1. Started(u) = {c \in Monitored : Rank(c) <= page[u] * StepSize}
    BY DEF SInv, StartedReached, Reach
  <2>2. page[u] \in Nat /\ page[u] >= PageCount(Cardinality(Clusters))
    BY DEF SInv, PageLoop, TypeInv, TypeOK
  <2>. QED  BY <2>1, <2>2, AllReached
<1>. QED  BY <1>1, SInvInit, SInvNext, PTL DEF Spec
=============================================================================
