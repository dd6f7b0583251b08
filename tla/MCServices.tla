------------------------------ MODULE MCServices ------------------------------
(* A run of the dashboard and one of the command line, one after the other or   *)
(* overlapping in any way.                                                      *)
EXTENDS Services
===============================================================================
