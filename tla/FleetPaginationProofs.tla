------------------------- MODULE FleetPaginationProofs -------------------------
(***************************************************************************)
(* Proof that one run of the revisions tracker starts at most one          *)
(* goroutine per cluster, for every table size, page size and sequence of  *)
(* cluster deletes and creations between the page fetches.                  *)
(***************************************************************************)
EXTENDS FleetPagination, FiniteSetTheorems, TLAPS

\* the place of monitored row c in Order("id asc") of the current table
Rank(c) == Cardinality({d \in rows \cap MonitorIds : d <= c})

\* how far into the ordered rows the pages fetched so far reach
Reach == IF runPc = "wait" THEN (page + 1) * StepSize ELSE page * StepSize

(* A swept cluster still in the table is at a place the pages fetched so   *)
(* far have already passed: a delete only moves rows down, and a created   *)
(* row takes an id above every row, so it comes after all of them.         *)
SweptBehind ==
  \A c \in rows \cap MonitorIds : sweeps[c] # 0 => Rank(c) <= Reach

(* Ids at or above the next auto-increment id are neither rows nor swept.  *)
FreshIds ==
  \A c \in Ids : c >= nextId => c \notin rows /\ sweeps[c] = 0

(* A present cluster at or below a swept one is at a place the pages have *)
(* passed: the pages go up the ids, and a row never moves to a later place. *)
SweptBelow ==
  \A c \in rows \cap MonitorIds :
    (\E d \in Ids : sweeps[d] # 0 /\ c <= d) => Rank(c) <= Reach

(* The inductive invariant. *)
IInv ==
  /\ rows \subseteq Ids /\ nextId \in Nat
  /\ page \in Nat /\ sweeps \in [Ids -> Nat]
  /\ FreshIds
  /\ SweptBehind
  /\ NoClusterSweptTwice

-----------------------------------------------------------------------------
USE FleetAssumption

(* Rows lie among finitely many ids, so every prefix of them is finite.    *)
LEMMA PrefixFinite ==
  ASSUME NEW R \in SUBSET Ids, NEW c
  PROVE  IsFiniteSet({d \in R \cap MonitorIds : d <= c})
  <1>1. IsFiniteSet(Ids)
    BY FS_Interval DEF Ids
  <1>. QED
    BY <1>1, FS_Subset DEF Ids

(* Removing a row never moves another row to a later place.                *)
LEMMA RemoveKeepsRankDown ==
  ASSUME NEW R \in SUBSET Ids, NEW x, NEW c
  PROVE  Cardinality({d \in (R \ {x}) \cap MonitorIds : d <= c})
           <= Cardinality({d \in R \cap MonitorIds : d <= c})
  <1>1. IsFiniteSet({d \in R \cap MonitorIds : d <= c})
    BY PrefixFinite
  <1>2. {d \in (R \ {x}) \cap MonitorIds : d <= c} \subseteq {d \in R \cap MonitorIds : d <= c}
    OBVIOUS
  <1>. QED
    BY <1>1, <1>2, FS_Subset

(* A row with an id above c does not change the place of c.                *)
LEMMA AddAboveKeepsRank ==
  ASSUME NEW R \in SUBSET Ids, NEW n \in Nat, NEW c \in Nat, c < n
  PROVE  {d \in (R \cup {n}) \cap MonitorIds : d <= c} = {d \in R \cap MonitorIds : d <= c}
  BY DEF Ids

(* A row at or below another one is at the same or an earlier place.      *)
LEMMA RankMono ==
  ASSUME NEW R \in SUBSET Ids, NEW c \in Nat, NEW d \in Nat, c <= d
  PROVE  Cardinality({x \in R \cap MonitorIds : x <= c})
           <= Cardinality({x \in R \cap MonitorIds : x <= d})
  <1>1. IsFiniteSet({x \in R \cap MonitorIds : x <= d})
    BY PrefixFinite
  <1>2. {x \in R \cap MonitorIds : x <= c} \subseteq {x \in R \cap MonitorIds : x <= d}
    <2> SUFFICES ASSUME NEW x \in R \cap MonitorIds, x <= c PROVE x <= d
      OBVIOUS
    <2>1. x \in Nat
      BY DEF Ids
    <2>. QED
      BY <2>1
  <1>. QED
    BY <1>1, <1>2, FS_Subset

(* A place is a natural number. *)
LEMMA RankNat ==
  ASSUME rows \subseteq Ids, NEW c
  PROVE  Rank(c) \in Nat
  BY PrefixFinite, FS_CardinalityType DEF Rank

LEMMA IInvInit == Init => IInv
  BY DEF Init, IInv, FreshIds, SweptBehind, NoClusterSweptTwice, Ids

LEMMA IInvNext == IInv /\ [Next]_vars => IInv'
  <1> SUFFICES ASSUME IInv, [Next]_vars PROVE IInv'
    OBVIOUS
  <1>1. CASE Count
    BY <1>1 DEF Count, IInv, FreshIds, SweptBehind, NoClusterSweptTwice, Rank, Reach
  <1>2. CASE FetchPage
    <2>1. CASE runPc' = "error" /\ UNCHANGED sweeps
      BY <1>2, <2>1 DEF FetchPage, IInv, FreshIds, SweptBehind, NoClusterSweptTwice, Rank, Reach
    <2>2. CASE /\ runPc' = "wait"
               /\ sweeps' = [c \in Ids |-> IF c \in PageOf(page) THEN sweeps[c] + 1 ELSE sweeps[c]]
      <3>. USE <1>2, <2>2 DEF FetchPage
      <3>1. Reach = page * StepSize /\ Reach' = (page + 1) * StepSize
        BY DEF Reach
      <3>2. \A c \in PageOf(page) : c \in rows \cap MonitorIds /\ page * StepSize < Rank(c)
                                    /\ Rank(c) <= (page + 1) * StepSize
        BY DEF PageOf, Rank
      <3>3. \A c \in PageOf(page) : sweeps[c] = 0
        BY <3>1, <3>2, RankNat DEF IInv, SweptBehind
      <3>4. sweeps' \in [Ids -> Nat] /\ NoClusterSweptTwice'
        BY <3>3 DEF IInv, NoClusterSweptTwice
      <3>5. FreshIds'
        BY <3>2 DEF IInv, FreshIds
      <3>6. SweptBehind'
        <4> SUFFICES ASSUME NEW c \in rows \cap MonitorIds, sweeps'[c] # 0
                     PROVE  Rank(c)' <= (page + 1) * StepSize
          BY <3>1 DEF SweptBehind
        <4>1. Rank(c)' = Rank(c)
          BY DEF Rank
        <4>2. CASE c \in PageOf(page)
          BY <4>1, <4>2, <3>2
        <4>3. CASE c \notin PageOf(page)
          <5>1. sweeps[c] # 0
            BY <4>3 DEF IInv
          <5>2. Rank(c) <= page * StepSize
            BY <5>1, <3>1 DEF IInv, SweptBehind
          <5>3. Rank(c) \in Nat
            BY RankNat DEF IInv
          <5>. QED
            BY <4>1, <5>2, <5>3 DEF IInv
        <4>. QED
          BY <4>2, <4>3
      <3>. QED
        BY <3>4, <3>5, <3>6 DEF IInv
    <2>. QED
      BY <1>2, <2>1, <2>2 DEF FetchPage
  <1>3. CASE Join
    BY <1>3 DEF Join, IInv, FreshIds, SweptBehind, NoClusterSweptTwice, Rank, Reach
  <1>4. CASE Finish
    BY <1>4 DEF Finish, IInv, FreshIds, SweptBehind, NoClusterSweptTwice, Rank, Reach
  <1>5. ASSUME NEW x \in Ids, DeleteCluster(x) PROVE IInv'
    <2>. USE <1>5 DEF DeleteCluster
    <2>1. SweptBehind'
      <3> SUFFICES ASSUME NEW c \in rows' \cap MonitorIds, sweeps[c] # 0
                   PROVE  Rank(c)' <= Reach
        BY DEF SweptBehind, Reach
      <3>1. Rank(c)' <= Rank(c)
        BY RemoveKeepsRankDown DEF IInv, Rank
      <3>2. Rank(c) <= Reach
        BY DEF IInv, SweptBehind
      <3>3. Rank(c) \in Nat /\ Rank(c)' \in Nat
        BY PrefixFinite, FS_CardinalityType DEF IInv, Rank
      <3>4. Reach \in Nat
        BY DEF IInv, Reach
      <3>. QED
        BY <3>1, <3>2, <3>3, <3>4
    <2>. QED
      BY <2>1 DEF IInv, FreshIds, NoClusterSweptTwice
  <1>6. CASE CreateCluster
    <2>. USE <1>6 DEF CreateCluster
    <2>1. SweptBehind'
      <3> SUFFICES ASSUME NEW c \in rows' \cap MonitorIds, sweeps[c] # 0
                   PROVE  Rank(c)' <= Reach
        BY DEF SweptBehind, Reach
      <3>1. c \in rows /\ c \in Nat /\ c < nextId
        BY DEF IInv, FreshIds, Ids
      <3>2. rows' = rows \cup {nextId} /\ rows \in SUBSET Ids /\ nextId \in Nat
        BY DEF IInv
      <3>3. {d \in rows' \cap MonitorIds : d <= c} = {d \in rows \cap MonitorIds : d <= c}
        BY <3>1, <3>2, AddAboveKeepsRank
      <3>4. Rank(c)' = Rank(c)
        BY <3>3 DEF Rank
      <3>. QED
        BY <3>1, <3>4 DEF IInv, SweptBehind
    <2>. QED
      BY <2>1 DEF IInv, FreshIds, NoClusterSweptTwice, Ids
  <1>7. CASE UNCHANGED vars
    BY <1>7 DEF vars, IInv, FreshIds, SweptBehind, NoClusterSweptTwice, Rank, Reach
  <1>. QED
    BY <1>1, <1>2, <1>3, <1>4, <1>5, <1>6, <1>7 DEF Next

(* The invariant for the refinement: IInv and SweptBelow. *)
JInv == IInv /\ SweptBelow

LEMMA JInvInit == Init => JInv
  BY IInvInit DEF Init, JInv, SweptBelow, Ids

LEMMA JInvNext == JInv /\ [Next]_vars => JInv'
  <1> SUFFICES ASSUME JInv, [Next]_vars PROVE SweptBelow'
    BY IInvNext DEF JInv
  <1>. USE DEF JInv
  <1>1. CASE Count \/ Join \/ Finish \/ UNCHANGED vars
    BY <1>1 DEF Count, Join, Finish, vars, SweptBelow, Rank, Reach
  <1>2. CASE FetchPage
    <2>1. CASE runPc' = "error" /\ UNCHANGED sweeps
      BY <1>2, <2>1 DEF FetchPage, SweptBelow, Rank, Reach
    <2>2. CASE /\ runPc' = "wait"
               /\ sweeps' = [c \in Ids |-> IF c \in PageOf(page) THEN sweeps[c] + 1 ELSE sweeps[c]]
      <3>. USE <1>2, <2>2 DEF FetchPage
      <3>1. Reach = page * StepSize /\ Reach' = (page + 1) * StepSize
        BY DEF Reach
      <3> SUFFICES ASSUME NEW c \in rows \cap MonitorIds, NEW d \in Ids,
                          sweeps'[d] # 0, c <= d
                   PROVE  Rank(c)' <= (page + 1) * StepSize
        BY <3>1 DEF SweptBelow
      <3>2. Rank(c)' = Rank(c) /\ Rank(c) \in Nat
        <4>1. Rank(c)' = Rank(c)
          BY DEF Rank
        <4>2. Rank(c) \in Nat
          BY RankNat DEF IInv
        <4>. QED
          BY <4>1, <4>2
      <3>3. CASE d \in PageOf(page)
        <4>1. d \in rows \cap MonitorIds /\ Rank(d) <= (page + 1) * StepSize
          BY <3>3 DEF PageOf, Rank
        <4>2. Rank(c) <= Rank(d)
          <5>1. rows \in SUBSET Ids /\ c \in Nat /\ d \in Nat
            BY DEF IInv, Ids
          <5>. QED
            BY <5>1, RankMono DEF Rank
        <4>. QED
          BY <4>1, <4>2, <3>2, RankNat DEF IInv
      <3>4. CASE d \notin PageOf(page)
        <4>1. sweeps[d] # 0
          BY <3>4 DEF IInv
        <4>2. Rank(c) <= page * StepSize
          BY <4>1, <3>1 DEF SweptBelow
        <4>. QED
          BY <4>2, <3>2 DEF IInv
      <3>. QED
        BY <3>3, <3>4
    <2>. QED
      BY <1>2, <2>1, <2>2 DEF FetchPage
  <1>3. ASSUME NEW x \in Ids, DeleteCluster(x) PROVE SweptBelow'
    <2>. USE <1>3 DEF DeleteCluster
    <2> SUFFICES ASSUME NEW c \in rows' \cap MonitorIds, NEW d \in Ids, sweeps[d] # 0, c <= d
                 PROVE  Rank(c)' <= Reach
      BY DEF SweptBelow, Reach
    <2>1. Rank(c)' <= Rank(c)
      BY RemoveKeepsRankDown DEF IInv, Rank
    <2>2. Rank(c) <= Reach
      BY DEF SweptBelow
    <2>3. Rank(c) \in Nat /\ Rank(c)' \in Nat
      BY PrefixFinite, FS_CardinalityType DEF IInv, Rank
    <2>4. Reach \in Nat
      BY DEF IInv, Reach
    <2>. QED
      BY <2>1, <2>2, <2>3, <2>4
  <1>4. CASE CreateCluster
    <2>. USE <1>4 DEF CreateCluster
    <2> SUFFICES ASSUME NEW c \in rows' \cap MonitorIds, NEW d \in Ids, sweeps[d] # 0, c <= d
                 PROVE  Rank(c)' <= Reach
      BY DEF SweptBelow, Reach
    <2>1. d < nextId
      BY DEF IInv, FreshIds, Ids
    <2>2. c \in rows /\ c \in Nat /\ c < nextId
      BY <2>1 DEF IInv, Ids
    <2>3. rows' = rows \cup {nextId} /\ rows \in SUBSET Ids /\ nextId \in Nat
      BY DEF IInv
    <2>4. Rank(c)' = Rank(c)
      BY <2>2, <2>3, AddAboveKeepsRank DEF Rank
    <2>. QED
      BY <2>2, <2>4 DEF SweptBelow
  <1>. QED
    BY <1>1, <1>2, <1>3, <1>4 DEF Next

(* The pages of Run (helm_revisions_count_tracker.go 138-147), each an      *)
(* Offset(i*stepSize) of the clusters present when it is fetched, never    *)
(* hand a cluster to two goroutines of one run, whatever clusters are      *)
(* deleted or created between the fetches.                                 *)
THEOREM NoClusterSweptTwiceHolds == Spec => []NoClusterSweptTwice
  <1>1. IInv => NoClusterSweptTwice
    BY DEF IInv
  <1>. QED
    BY <1>1, IInvInit, IInvNext, PTL DEF Spec

\* the clusters this run swept, the abstract visited set
SweptSet == {c \in Ids : sweeps[c] # 0}

(* Each step of the tracker's page loop, of the delete handler or of a     *)
(* creation is a step of OrderedScan on the rows, the next id and the set  *)
(* of swept clusters, or leaves the three unchanged.                       *)
LEMMA ScanStep ==
  JInv /\ [Next]_vars => [Scan!Next]_<<rows, nextId, SweptSet>>
  <1> SUFFICES ASSUME JInv, [Next]_vars PROVE [Scan!Next]_<<rows, nextId, SweptSet>>
    OBVIOUS
  <1>. USE DEF JInv
  <1>1. CASE Count \/ Join \/ Finish \/ UNCHANGED vars
    BY <1>1 DEF Count, Join, Finish, vars, SweptSet
  <1>2. CASE FetchPage
    <2>1. CASE runPc' = "error" /\ UNCHANGED sweeps
      BY <1>2, <2>1 DEF FetchPage, SweptSet
    <2>2. CASE /\ runPc' = "wait"
               /\ sweeps' = [c \in Ids |-> IF c \in PageOf(page) THEN sweeps[c] + 1 ELSE sweeps[c]]
      <3>0. UNCHANGED <<rows, nextId, page>> /\ runPc = "page"
        BY <1>2 DEF FetchPage
      <3>1. PageOf(page) \in SUBSET (rows \cap MonitorIds)
        BY DEF PageOf
      <3>2. \A c \in PageOf(page) : page * StepSize < Rank(c)
        BY DEF PageOf, Rank
      <3>3. \A c \in PageOf(page), d \in SweptSet : d < c
        <4> SUFFICES ASSUME NEW c \in PageOf(page), NEW d \in SweptSet, ~(d < c)
                     PROVE  FALSE
          OBVIOUS
        <4>1. c \in rows \cap MonitorIds /\ c \in Nat
          <5>1. c \in rows \cap MonitorIds
            BY <3>1, Zenon
          <5>2. c \in 1..MaxId
            BY <5>1, FleetAssumption, Zenon
          <5>. QED
            BY <5>1, <5>2
        <4>2. d \in Ids /\ sweeps[d] # 0
          BY DEF SweptSet
        <4>3. c <= d
          BY <4>1, <4>2 DEF Ids
        <4>4. Rank(c) <= page * StepSize
          BY <3>0, <4>1, <4>2, <4>3 DEF SweptBelow, Reach
        <4>5. Rank(c) \in Nat /\ page * StepSize \in Nat
          BY RankNat DEF IInv
        <4>. QED
          BY <3>2, <4>4, <4>5
      <3>4. SweptSet' = SweptSet \cup PageOf(page)
        <4>1. PageOf(page) \subseteq Ids /\ sweeps \in [Ids -> Nat]
          BY <3>1 DEF IInv
        <4>2. \A c \in Ids : sweeps'[c] = IF c \in PageOf(page) THEN sweeps[c] + 1 ELSE sweeps[c]
          BY <2>2
        <4>. QED
          BY <4>1, <4>2 DEF SweptSet
      <3>5. \E S \in SUBSET (rows \cap MonitorIds) :
              /\ \A c \in S, d \in SweptSet : d < c
              /\ SweptSet' = SweptSet \cup S
              /\ UNCHANGED <<rows, nextId>>
        BY <3>0, <3>1, <3>3, <3>4
      <3>. QED
        BY <3>5 DEF Scan!Next, Scan!Visit, SweptSet
    <2>. QED
      BY <1>2, <2>1, <2>2 DEF FetchPage
  <1>3. ASSUME NEW x \in Ids, DeleteCluster(x) PROVE [Scan!Next]_<<rows, nextId, SweptSet>>
    BY <1>3 DEF DeleteCluster, Scan!Next, Scan!Remove, SweptSet
  <1>4. CASE CreateCluster
    BY <1>4 DEF CreateCluster, Scan!Next, Scan!Add, SweptSet, Ids
  <1>. QED
    BY <1>1, <1>2, <1>3, <1>4 DEF Next

(* The page loop of Run (helm_revisions_count_tracker.go 138-147), with    *)
(* the delete handler and creations changing the table between the page    *)
(* fetches, implements OrderedScan: every page lies above every cluster an *)
(* earlier page of the run swept, deleted ones included.                   *)
THEOREM ScanRefinement == Spec => ScanRefined
  <1>1. Init => Scan!Init
    BY DEF Init, Scan!Init, Ids
  <1>2. JInv /\ [Next]_vars => [Scan!Next]_<<rows, nextId, SweptSet>>
    BY ScanStep
  <1>. QED
    BY <1>1, <1>2, JInvInit, JInvNext, PTL DEF Spec, ScanRefined, Scan!Spec, SweptSet
=============================================================================
