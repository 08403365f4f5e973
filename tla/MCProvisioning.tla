--------------------------- MODULE MCProvisioning ---------------------------
(* An instance of Provisioning for TLC: four runs of the seed script, under  *)
(* two keys and without one, and a client that asks all the time.            *)
EXTENDS Provisioning, TLC

CONSTANTS r1, r2, r3, r4, key1, key2, nokey

MCKeyOf == r1 :> key1 @@ r2 :> key2 @@ r3 :> key1 @@ r4 :> nokey
=============================================================================
