---------------------------- MODULE MCEnforcing ----------------------------
(* The enforcing middleware with the protocol of the examples.              *)
EXTENDS EnforcingMiddleware, BookingText

\* The tools of the instance are the ones the proofs are about.
ASSUME InstanceAssumption == NamesApart

=============================================================================
