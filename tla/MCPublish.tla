------------------------------- MODULE MCPublish ------------------------------
(* Three publishers of the demo bundle and the dashboard.  The publishers are   *)
(* interchangeable.                                                             *)
EXTENDS Publish, TLC

CONSTANTS cli1, cli2, cli3

MCPublishers == {cli1, cli2, cli3}
MCSymmetry == Permutations(MCPublishers)
===============================================================================
