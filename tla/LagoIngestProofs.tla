-------------------------- MODULE LagoIngestProofs --------------------------
(***************************************************************************)
(* Proof that IngestEvents never lets an event reach Lago from a batch     *)
(* holding a malformed customer id, or from any batch after it, for every *)
(* number of events, batch size and retry count.                           *)
(***************************************************************************)
EXTENDS LagoIngest, TLAPS

\* the batch an event belongs to: events[kL:(k+1)L] is batch k
BatchIndex(e) == (e - 1) \div Limit

(* The loop index is always at a batch boundary, every malformed event     *)
(* lies past it, and the batch being sent holds none: the parse of lines   *)
(* 382-387 ran over it.                                                    *)
IInv ==
  /\ bad \subseteq Events /\ delivered \subseteq Events /\ dropped \subseteq Events
  /\ i \in Nat /\ i % Limit = 0
  /\ \A b \in bad : b > i
  /\ pc = "send" => Batch(i) \cap bad = {}
  /\ NoEventPastMalformed

-----------------------------------------------------------------------------
USE IngestAssumption

(* An event past the k-th boundary and not past the next is in batch k.    *)
LEMMA InBatch ==
  ASSUME NEW k \in Nat, NEW e \in Nat, k * Limit < e, e <= (k + 1) * Limit
  PROVE  BatchIndex(e) = k
  BY DEF BatchIndex

(* An event past the (k+1)-th boundary is in a later batch than k.         *)
LEMMA PastBatch ==
  ASSUME NEW k \in Nat, NEW b \in Nat, (k + 1) * Limit < b
  PROVE  BatchIndex(b) > k
  BY DEF BatchIndex

(* An event of the batch starting at a boundary lies in an earlier batch   *)
(* than any event past the boundary that the batch does not hold.          *)
LEMMA BatchBeforeLater ==
  ASSUME NEW s \in Nat, s % Limit = 0, NEW e \in Batch(s),
         NEW b \in Events, b > s, b \notin Batch(s)
  PROVE  BatchIndex(e) < BatchIndex(b)
  <1> DEFINE k == s \div Limit
  <1>1. k \in Nat /\ s = k * Limit
    OBVIOUS
  <1>2. e \in Nat /\ k * Limit < e /\ e <= (k + 1) * Limit
    BY <1>1 DEF Batch, Events
  <1>3. b \in Nat /\ (k + 1) * Limit < b
    BY <1>1 DEF Batch, Events
  <1>4. BatchIndex(e) = k
    BY <1>1, <1>2, InBatch
  <1>5. BatchIndex(b) > k
    BY <1>1, <1>3, PastBatch
  <1>. QED
    BY <1>4, <1>5

(* Adding the batch being sent to what Lago holds, or to what it gave up,  *)
(* keeps every such event before every malformed one.                     *)
LEMMA SentBatchBeforeBad ==
  ASSUME IInv, pc = "send", NEW S, S \subseteq delivered \cup dropped \cup Batch(i)
  PROVE  \A e \in S, b \in bad : BatchIndex(e) < BatchIndex(b)
  <1> SUFFICES ASSUME NEW e \in S, NEW b \in bad PROVE BatchIndex(e) < BatchIndex(b)
    OBVIOUS
  <1>1. CASE e \in delivered \cup dropped
    BY <1>1 DEF IInv, NoEventPastMalformed, BatchIndex
  <1>2. CASE e \in Batch(i)
    BY <1>2, BatchBeforeLater DEF IInv
  <1>. QED
    BY <1>1, <1>2

(* The next batch boundary is again a boundary.                           *)
LEMMA NextBoundary ==
  ASSUME NEW s \in Nat, s % Limit = 0
  PROVE  s + Limit \in Nat /\ (s + Limit) % Limit = 0
  <1> DEFINE q == s \div Limit
  <1>1. q \in Nat /\ s = q * Limit
    OBVIOUS
  <1>2. (s + Limit) \div Limit = q + 1
    BY <1>1
  <1>3. (s + Limit) % Limit = (s + Limit) - ((s + Limit) \div Limit) * Limit
    OBVIOUS
  <1>. QED
    BY <1>1, <1>2, <1>3

(* Every malformed event lies past the end of the batch being sent.        *)
LEMMA BadPastBatch ==
  ASSUME IInv, pc = "send"
  PROVE  \A b \in bad : b > i + Limit
  BY DEF IInv, Batch, Events

LEMMA IInvInit == Init => IInv
  BY DEF Init, IInv, NoEventPastMalformed, Events

(* StartBatch at a boundary past which every malformed event lies keeps    *)
(* the loop facts of the invariant.                                        *)
LEMMA StartBatchKeeps ==
  ASSUME NEW s \in Nat, s % Limit = 0, \A b \in bad : b > s,
         StartBatch(s), bad' = bad
  PROVE  /\ i' \in Nat /\ i' % Limit = 0
         /\ \A b \in bad' : b > i'
         /\ pc' = "send" => Batch(i') \cap bad' = {}
  BY DEF StartBatch

LEMMA IInvNext == IInv /\ [Next]_vars => IInv'
  <1> SUFFICES ASSUME IInv, [Next]_vars PROVE IInv'
    OBVIOUS
  <1>1. CASE Start
    <2>1. CASE ~lagoOn /\ pc' = "ok" /\ UNCHANGED <<i, attempts>>
      BY <1>1, <2>1 DEF Start, IInv, NoEventPastMalformed
    <2>2. CASE lagoOn /\ ~sandbox /\ pc' = "error" /\ UNCHANGED <<i, attempts>>
      BY <1>1, <2>2 DEF Start, IInv, NoEventPastMalformed
    <2>3. CASE lagoOn /\ StartBatch(0)
      <3>1. \A b \in bad : b > 0
        BY DEF IInv, Events
      <3>2. /\ i' \in Nat /\ i' % Limit = 0
            /\ \A b \in bad' : b > i'
            /\ pc' = "send" => Batch(i') \cap bad' = {}
        BY <1>1, <2>3, <3>1, StartBatchKeeps DEF Start
      <3>. QED
        BY <1>1, <3>2 DEF Start, IInv, NoEventPastMalformed
    <2>. QED
      BY <1>1, <2>1, <2>2, <2>3 DEF Start
  <1>2. CASE SendOk
    <2>1. NoEventPastMalformed'
      BY <1>2, SentBatchBeforeBad DEF SendOk, NoEventPastMalformed, BatchIndex
    <2>. QED
      BY <1>2, <2>1 DEF SendOk, IInv, Batch
  <1>3. CASE SendFail
    <2>1. CASE attempts + 1 < MaxRetries
      BY <1>3, <2>1 DEF SendFail, IInv, NoEventPastMalformed
    <2>2. CASE ~(attempts + 1 < MaxRetries)
      <3>1. dropped' = dropped \cup Batch(i) /\ StartBatch(i + Limit)
            /\ UNCHANGED <<bad, delivered>>
        BY <1>3, <2>2 DEF SendFail
      <3>2. NoEventPastMalformed'
        BY <1>3, <3>1, SentBatchBeforeBad DEF NoEventPastMalformed, BatchIndex, SendFail
      <3>3. /\ i + Limit \in Nat /\ (i + Limit) % Limit = 0
            /\ \A b \in bad : b > i + Limit
        <4>1. pc = "send"
          BY <1>3 DEF SendFail
        <4>2. \A b \in bad : b > i + Limit
          BY <4>1, BadPastBatch
        <4>3. i \in Nat /\ i % Limit = 0
          BY DEF IInv
        <4>. QED
          BY <4>2, <4>3, NextBoundary
      <3>4. /\ i' \in Nat /\ i' % Limit = 0
            /\ \A b \in bad' : b > i'
            /\ pc' = "send" => Batch(i') \cap bad' = {}
        BY <3>1, <3>3, StartBatchKeeps
      <3>. QED
        BY <3>1, <3>2, <3>4 DEF IInv, Batch
    <2>. QED
      BY <2>1, <2>2
  <1>4. CASE Health
    BY <1>4 DEF Health, IInv, NoEventPastMalformed
  <1>5. CASE UNCHANGED vars
    BY <1>5 DEF vars, IInv, NoEventPastMalformed
  <1>. QED
    BY <1>1, <1>2, <1>3, <1>4, <1>5 DEF Next

(* IngestEvents (usage.go 374-416) parses every customer id of a batch     *)
(* before it sends the batch and returns at the first one that does not   *)
(* parse, so no event of a batch holding a malformed event, nor of a later *)
(* batch, is ever stored by Lago or given up on after its retries.         *)
THEOREM NoEventPastMalformedHolds == Spec => []NoEventPastMalformed
  <1>1. IInv => NoEventPastMalformed
    BY DEF IInv
  <1>. QED
    BY <1>1, IInvInit, IInvNext, PTL DEF Spec
=============
