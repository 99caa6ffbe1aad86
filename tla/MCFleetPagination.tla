------------------------------ MODULE MCFleetPagination ------------------------------
(* Instances of FleetPagination for TLC: three clusters, pages of two, one  *)
(* more cluster may be created, a CAPI cluster that is updating.           *)
EXTENDS FleetPagination
=============================================================================
