----------------------------- MODULE MCJobManager -----------------------------
(* Three jobs against a history of two: jobs finish, are dropped and polled.     *)
EXTENDS JobManager
===============================================================================
