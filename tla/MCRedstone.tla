----------------------------- MODULE MCRedstone -----------------------------
(***************************************************************************)
(* A secondary powered lamp ahead of a wire that ignores its first update: *)
(* the lamp has to wait for the wire, and each can change while the other  *)
(* is processed.  Strengths 0 and 15 are enough for "changed".             *)
(***************************************************************************)
EXTENDS Redstone

CONSTANTS lamp, wire

MCComponents == {lamp, wire}
MCOrder == <<lamp, wire>>
MCSecondary == {lamp}
MCIgnoreFirst == {wire}

=============================================================================
