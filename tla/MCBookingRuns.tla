--------------------------- MODULE MCBookingRuns ---------------------------
(* Two keys; the last batch begins after two that were killed or have ended. *)
EXTENDS BookingRuns

MCKeys == <<"k1", "k2">>

ASSUME InstanceAssumption == SentinelApart

=============================================================================
