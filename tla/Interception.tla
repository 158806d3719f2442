---------------------------- MODULE Interception ----------------------------
(***************************************************************************)
(* What the emitters promise to the event bus, with no counting in it: an  *)
(* event is served only while every engine function it is made from is     *)
(* detoured, and a detour is taken out only when no served event needs it. *)
(* Emitters.tla is shown to implement this module.                         *)
(***************************************************************************)

CONSTANTS
    Events,     (* event ids that have an emitter factory                  *)
    Hooks,      (* engine functions the library can detour                 *)
    HooksOf     (* the hooks each event is made from                       *)

VARIABLES
    served,     (* events whose listeners are being called                 *)
    detoured    (* hooks now installed on their engine function            *)

vars == <<served, detoured>>

Users(h) == {e \in Events : h \in HooksOf[e]}

Init == served = {} /\ detoured = {}

Install(h) ==
    /\ Users(h) \subseteq Events \ served
    /\ detoured' = detoured \union {h}
    /\ UNCHANGED served

Serve(e) ==
    /\ HooksOf[e] \subseteq detoured
    /\ served' = served \union {e}
    /\ UNCHANGED detoured

Retire(e) ==
    /\ served' = served \ {e}
    /\ UNCHANGED detoured

Uninstall(h) ==
    /\ Users(h) \intersect served = {}
    /\ detoured' = detoured \ {h}
    /\ UNCHANGED served

Next ==
    \/ \E h \in Hooks : Install(h) \/ Uninstall(h)
    \/ \E e \in Events : Serve(e) \/ Retire(e)

Spec == Init /\ [][Next]_vars

=============================================================================
