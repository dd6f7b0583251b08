----------------------------- MODULE MCPhase2Demo -----------------------------
(* Two repetitions of the contract. *)
EXTENDS Phase2Demo

MCPackages == {UntrustedPackage, TrustedPackage}
MCRequests == (1 .. 2) \X Labels
===============================================================================
