--------------------------- MODULE MCHousekeeping ---------------------------
(* One instance of Housekeeping for TLC.                                   *)
EXTENDS Housekeeping

CONSTANTS acme, other

MCItems == {[kind |-> "usage", org |-> acme]}
=============================================================================
