------------------------------ MODULE LagoIngest ------------------------------
(***************************************************************************)
(* The usage-ingest path of billing: IngestEventsHandler.ServeHTTP         *)
(* (src/api/server/handlers/billing/ingest.go, lines 35-96) and the call   *)
(* it makes, LagoClient.IngestEvents (src/internal/billing/usage.go, lines *)
(* 366-418).  IngestEvents cuts the events into batches of                 *)
(* maxIngestEventLimit, parses the customer id of every event of a batch,  *)
(* then sends the batch, retrying up to defaultMaxRetries times.           *)
(*                                                                         *)
(* Events are their positions 1..NumEvents; an event whose CustomerID does *)
(* not parse is a member of the input bad.  Which events Lago has stored  *)
(* is the set delivered; the events of a batch whose retries all failed    *)
(* are recorded in dropped, so that a property can relate what the handler *)
(* answered to what Lago holds.                                            *)
(***************************************************************************)
EXTENDS Naturals, FiniteSets

CONSTANTS
  NumEvents,    \* len(events)
  Limit,        \* maxIngestEventLimit
  MaxRetries    \* defaultMaxRetries

ASSUME IngestAssumption ==
  /\ NumEvents \in Nat
  /\ Limit \in Nat \ {0}
  /\ MaxRetries \in Nat \ {0}

VARIABLES
  lagoOn,     \* LagoConfigLoaded and the project's LagoEnabled flag
  sandbox,    \* proj.EnableSandbox
  bad,        \* events whose CustomerID does not parse
  pc,         \* where the request is
  i,          \* the batch start index of the outer loop (0-based)
  attempts,   \* currentAttempts of the retry loop
  delivered,  \* events Lago has stored
  dropped     \* events of batches whose retries were all used up

vars == <<lagoOn, sandbox, bad, pc, i, attempts, delivered, dropped>>

Events == 1..NumEvents

\* batch[i:end] with end = min(i + maxIngestEventLimit, len(events))
Batch(start) == {e \in Events : start < e /\ e <= start + Limit}

-----------------------------------------------------------------------------
(* Mutated forms, each a plausible bug in the mapped lines.                 *)

\* a malformed event skipped (continue) instead of failing the call
StartBatchSkipping(start) ==
  /\ i' = start
  /\ IF start < NumEvents
       THEN pc' = "send" /\ attempts' = 0
       ELSE pc' = "health" /\ UNCHANGED attempts

-----------------------------------------------------------------------------
(* Init: the request arrives for a project of any configuration.           *)
Init ==
  /\ lagoOn \in BOOLEAN
  /\ sandbox \in BOOLEAN
  /\ bad \in SUBSET Events
  /\ pc = "start"
  /\ i = 0
  /\ attempts = 0
  /\ delivered = {}
  /\ dropped = {}

(* Lines 374-400: the loop head at index start, with the parse of every    *)
(* event of the batch; a CustomerID that does not parse returns the error; *)
(* past the last event the loop ends and IngestEvents returns nil.         *)
StartBatch(start) ==
  /\ i' = start
  /\ IF start < NumEvents
       THEN IF Batch(start) \cap bad # {}
              THEN pc' = "error" /\ UNCHANGED attempts
              ELSE pc' = "send" /\ attempts' = 0
       ELSE pc' = "health" /\ UNCHANGED attempts

(* ingest.go 47-87 up to the call: off when Lago is not loaded or the flag *)
(* is off; outside the sandbox GetCustomerActivePlan, which may fail; then *)
(* IngestEvents, which returns nil at once for no events (usage.go 370).   *)
Start ==
  /\ pc = "start"
  /\ \/ /\ ~lagoOn
        /\ pc' = "ok"
        /\ UNCHANGED <<i, attempts>>
     \/ /\ lagoOn
        /\ ~sandbox
        /\ pc' = "error"
        /\ UNCHANGED <<i, attempts>>
     \/ /\ lagoOn
        /\ StartBatch(0)
  /\ UNCHANGED <<lagoOn, sandbox, bad, delivered, dropped>>

(* Lines 405-410: Event().Batch succeeds, and the function returns nil     *)
(* from inside the retry loop, leaving the outer loop.                      *)
SendOk ==
  /\ pc = "send"
  /\ delivered' = delivered \cup Batch(i)
  /\ pc' = "health"
  /\ UNCHANGED <<lagoOn, sandbox, bad, i, attempts, dropped>>

(* Lines 405-416: Event().Batch fails.  While attempts remain the loop      *)
(* retries; once they are used up the test at 412 reads the outer          *)
(* currentAttempts, which the loop variable shadows and which stays 0, so  *)
(* it is false (defaultMaxRetries is 10) and the outer loop goes on to    *)
(* the next batch.                                                          *)
SendFail ==
  /\ pc = "send"
  /\ IF attempts + 1 < MaxRetries
       THEN /\ attempts' = attempts + 1
            /\ UNCHANGED <<pc, i, dropped>>
       ELSE /\ dropped' = dropped \cup Batch(i)
            /\ StartBatch(i + Limit)
  /\ UNCHANGED <<lagoOn, sandbox, bad, delivered>>

(* ingest.go 89-95: postIngestHealthEndpoint, which may fail.               *)
Health ==
  /\ pc = "health"
  /\ pc' \in {"ok", "error"}
  /\ UNCHANGED <<lagoOn, sandbox, bad, i, attempts, delivered, dropped>>

Next == Start \/ SendOk \/ SendFail \/ Health

(* No fairness: Event().Batch and the health webhook post (a plain        *)
(* http.Client with no timeout, ingest.go 122-123) may block for ever, so  *)
(* the model asks only safety of the handler.                              *)
Spec == Init /\ [][Next]_vars

-----------------------------------------------------------------------------
(* Type invariant. *)
TypeOK ==
  /\ lagoOn \in BOOLEAN /\ sandbox \in BOOLEAN /\ bad \subseteq Events
  /\ pc \in {"start", "send", "health", "ok", "error"}
  /\ i \in Nat /\ attempts \in 0..MaxRetries
  /\ delivered \subseteq Events /\ dropped \subseteq Events

(* A batch is all or nothing with respect to malformed events: no event of *)
(* a batch holding an event whose customer id does not parse reaches Lago, *)
(* nor any event after it, because IngestEvents parses the whole batch     *)
(* before it sends it and returns at the first parse error.                *)
NoEventPastMalformed ==
  \A e \in delivered \cup dropped, b \in bad : (e - 1) \div Limit < (b - 1) \div Limit

(* What the handler's 200 promises: when it answers "" after ingesting,    *)
(* every event was handed to Lago, either stored or given up after the     *)
(* retries.  (The early return at line 408 ends the call after the first   *)
(* batch that succeeds.)                                                    *)
AllBatchesAttempted ==
  (pc = "ok" /\ lagoOn) => delivered \cup dropped = Events

(* An event that Lago refused defaultMaxRetries times is reported as an    *)
(* error (the test at line 412 is meant for that), never answered with a   *)
(* 200.                                                                     *)
ExhaustedRetriesReported ==
  pc = "ok" => dropped = {}
=============================================================================
