------------------------------ MODULE MCGateway -------------------------------
(* Two concurrent requests to the two gateways, with every kind of package     *)
(* the policies tell apart.                                                     *)
EXTENDS Gateway

MCPackages ==
  {UntrustedPackage, TrustedPackage, Unparsable,
   [TrustedPackage EXCEPT !.payload.size = 66],
   [TrustedPackage EXCEPT !.payload.bytes = "damaged payload"],
   [TrustedPackage EXCEPT !.signer_fingerprint = sha256(UntrustedKey)],
   [TrustedPackage EXCEPT !.signature = UntrustedPackage.signature]}
===============================================================================
