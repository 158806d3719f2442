----------------------------- MODULE MCHookFlow -----------------------------
(***************************************************************************)
(* Every hook, one call after the other.  Nothing is bounded: a call has   *)
(* at most eight steps.                                                    *)
(***************************************************************************)
EXTENDS HookFlow

=============================================================================
