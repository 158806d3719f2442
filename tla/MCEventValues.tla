--------------------------- MODULE MCEventValues ---------------------------
(***************************************************************************)
(* All events, two edits to a call: one listener after another, one key    *)
(* and another, an edit and a broken key.                                  *)
(***************************************************************************)
EXTENDS EventValues

=============================================================================
