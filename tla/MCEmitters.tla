----------------------------- MODULE MCEmitters -----------------------------
(***************************************************************************)
(* The two styles of emitter the code has, and the hooks they share:       *)
(*   moneyBefore, moneyAfter      members, two hooks each (add, trans)     *)
(*   sendBefore, sendTyped        temporaries over one hook (send)         *)
(*   structureTyped               a temporary over two hooks               *)
(* MoneyChange has four hooks and the structure events fifteen: two are    *)
(* enough for every order in which a walk over the hooks can be seen half  *)
(* way, and two events on a hook for every edge of its count.              *)
(***************************************************************************)
EXTENDS Emitters

CONSTANTS moneyBefore, moneyAfter, sendBefore, sendTyped, structureTyped,
          add, trans, send, village, ocean

MCEvents == {moneyBefore, moneyAfter, sendBefore, sendTyped, structureTyped}
MCHooks == {add, trans, send, village, ocean}
MCHooksOf ==
    [e \in MCEvents |->
        CASE e \in {moneyBefore, moneyAfter} -> {add, trans}
          [] e \in {sendBefore, sendTyped} -> {send}
          [] e = structureTyped -> {village, ocean}]
MCMemberEvents == {moneyBefore, moneyAfter}

=============================================================================
