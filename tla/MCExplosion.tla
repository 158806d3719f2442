---------------------------- MODULE MCExplosion ----------------------------
(***************************************************************************)
(* Three explosions: one before, one overtaken, and one inside the other.  *)
(***************************************************************************)
EXTENDS Explosion

=============================================================================
