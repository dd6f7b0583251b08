-------------------------- MODULE MCVerificationRun ---------------------------
(* One verification run with the two packages it generates, every fault of the *)
(* lab, a key file that may come to hold a key generated later, and a patched  *)
(* slot that may still hold the unpatched build.                               *)
EXTENDS VerificationRun

CONSTANT OtherKey

MCPackages == {UntrustedPackage, TrustedPackage}
===============================================================================
