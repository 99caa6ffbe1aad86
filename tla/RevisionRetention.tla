--------------------------- MODULE RevisionRetention ---------------------------
(***************************************************************************)
(* What the helm revisions tracker promises about the stores it touches,   *)
(* whatever its runs, goroutines, failures and crashes do (spec, section 3 *)
(* invariants 1 and 2): helm creates revisions, an archive may receive     *)
(* any revision that was created, and a revision leaves the live store     *)
(* only once it is archived and RevisionsCount newer revisions of its     *)
(* release are live.  HelmRevisionsTracker implements this specification  *)
(* with the identity mapping on live, created and archive.                *)
(***************************************************************************)
EXTENDS Naturals, FiniteSets

CONSTANTS Releases, RevisionsCount, MaxVersion

VARIABLES
  live,     \* live[r]: versions of release r in the live store
  created,  \* created[r]: versions of r ever created
  archive   \* pairs <<r, v>> held by the cold store

Versions == 1..MaxVersion

Init ==
  /\ live \in [Releases -> SUBSET Versions]
  /\ created = live
  /\ archive = {}

(* helm stores a version of r it never used before.                       *)
Create(r, v) ==
  /\ v \notin created[r]
  /\ live' = [live EXCEPT ![r] = @ \cup {v}]
  /\ created' = [created EXCEPT ![r] = @ \cup {v}]
  /\ UNCHANGED archive

(* The cold store receives (or receives again) a created revision.         *)
Store(r, v) ==
  /\ v \in created[r]
  /\ archive' = archive \cup {<<r, v>>}
  /\ UNCHANGED <<live, created>>

(* An archived revision with RevisionsCount newer live ones is evicted.    *)
Evict(r, v) ==
  /\ v \in live[r]
  /\ <<r, v>> \in archive
  /\ Cardinality({x \in live[r] : x > v}) >= RevisionsCount
  /\ live' = [live EXCEPT ![r] = @ \ {v}]
  /\ UNCHANGED <<created, archive>>

Next ==
  \E r \in Releases, v \in Versions : Create(r, v) \/ Store(r, v) \/ Evict(r, v)

Spec == Init /\ [][Next]_<<live, created, archive>>
=============================================================================
