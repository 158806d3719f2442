----------------------------- MODULE MCMobBlocks -----------------------------
(* Two kinds of blocks, of which one can be stood on, and goals whose range *)
(* is given by the configuration.                                           *)
EXTENDS MobBlocks

CONSTANTS dirt, flower

MCKinds == {dirt, flower}
MCSolid == {dirt}
MCRandomly == {flower}
=============================================================================
