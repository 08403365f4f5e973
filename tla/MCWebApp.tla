------------------------------ MODULE MCWebApp ------------------------------
(* Instances of WebApp for TLC. *)
EXTENDS WebApp
=============================================================================
