------------------------------- MODULE MCBrowser ------------------------------
(* One page and up to three jobs, its own and those of another page.            *)
EXTENDS Browser
===============================================================================
