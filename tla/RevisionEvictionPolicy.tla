------------------------ MODULE RevisionEvictionPolicy ------------------------
(***************************************************************************)
(* The choice of the revisions to evict, lines 232-244 of                  *)
(* src/workers/jobs/helm_revisions_count_tracker.go, as the code computes  *)
(* it: the history as GetReleaseHistory returned it (any order), skipped   *)
(* when it holds at most revisionsCount revisions, otherwise sorted newest *)
(* first by releaseutil.Reverse(revisions, releaseutil.SortByRevision) and *)
(* cut at index revisionsCount.  It is checked for every short history     *)
(* against the definition of the spec (all but the keep most recent), and  *)
(* against the index form that HelmRevisionsTracker!Evictable uses.        *)
(***************************************************************************)
EXTENDS Naturals, Sequences, SequencesExt, FiniteSets

CONSTANTS
  MaxVersion,  \* versions are 1..MaxVersion
  MaxKeep      \* revisionsCount ranges over 1..MaxKeep

ASSUME PolicyAssumption == MaxVersion \in Nat /\ MaxKeep \in Nat \ {0}

VARIABLES
  revisions,   \* the history, versions in the order the store returned them
  keep,        \* t.revisionsCount
  evicted,     \* the versions the eviction loop visits, in its order
  done         \* the choice has been made

vars == <<revisions, keep, evicted, done>>

-----------------------------------------------------------------------------
(* Mutated forms, each a plausible bug in these lines.                      *)

\* the sort without releaseutil.Reverse: oldest first
SortedOldestFirst(revs) == SortSeq(revs, LAMBDA x, y : x < y)
\* the loop starts at index revisionsCount - 1 (0-based)
EvictionTailFromKeep(sorted, k) == SubSeq(sorted, k, Len(sorted))

-----------------------------------------------------------------------------
(* releaseutil.Reverse(revisions, releaseutil.SortByRevision), line 242.    *)
SortedNewestFirst(revs) == SortSeq(revs, LAMBDA x, y : x > y)

(* for i := t.revisionsCount; i < len(revisions); i += 1, line 244 (Go     *)
(* index i is TLA+ index i + 1).                                           *)
EvictionTail(sorted, k) == SubSeq(sorted, k + 1, Len(sorted))

(* Lines 232-244: the early continue, then the sort and the loop.          *)
Evict ==
  /\ ~done
  /\ done' = TRUE
  /\ \/ /\ Len(revisions) <= keep
        /\ evicted' = <<>>
     \/ /\ Len(revisions) > keep
        /\ evicted' = EvictionTail(SortedNewestFirst(revisions), keep)
  /\ UNCHANGED <<revisions, keep>>

(* Every history of distinct versions in any order, every count.           *)
Init ==
  /\ revisions \in UNION {SetToSeqs(S) : S \in SUBSET (1..MaxVersion)}
  /\ keep \in 1..MaxKeep
  /\ evicted = <<>>
  /\ done = FALSE

Next == Evict

Spec == Init /\ [][Next]_vars

-----------------------------------------------------------------------------
TypeOK ==
  /\ revisions \in Seq(1..MaxVersion)
  /\ keep \in 1..MaxKeep
  /\ evicted \in Seq(1..MaxVersion)
  /\ done \in BOOLEAN

(* The spec's reference (4.1): the keep most recent revisions of S.         *)
KeptReference(S, k) ==
  CHOOSE T \in SUBSET S :
     /\ Cardinality(T) = IF Cardinality(S) < k THEN Cardinality(S) ELSE k
     /\ \A t \in T, x \in S \ T : t > x

(* The eviction of lines 232-244 is the spec's: exactly the revisions       *)
(* outside the keep most recent, each once (so n - keep of them when n >    *)
(* keep, none otherwise), whatever order the store listed the history in;  *)
(* and it is the index form {v : at least keep newer versions} that the     *)
(* job model uses.                                                          *)
EvictionMatchesReference ==
  done =>
     LET S == ToSet(revisions)
     IN /\ ToSet(evicted) = S \ KeptReference(S, keep)
        /\ Len(evicted) = Cardinality(ToSet(evicted))
        /\ ToSet(evicted) = {v \in S : Cardinality({u \in S : u > v}) >= keep}
=============================================================================
