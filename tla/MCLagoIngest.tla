----------------------------- MODULE MCLagoIngest -----------------------------
(* LagoIngest on a small instance: batches of 2 (for maxIngestEventLimit    *)
(* 100) over 5 events, so that there is a full batch, a second one and a    *)
(* partial last one, and 2 attempts per batch (for defaultMaxRetries 10),    *)
(* so that both a retry and a batch whose attempts run out happen.           *)
EXTENDS LagoIngest
=============================================================================
