--------------------------- MODULE MCTypedEvents ---------------------------
(***************************************************************************)
(* Two threads that generate chunks and two structures, so that they may   *)
(* come upon the same new one at once; one thread that sends or receives   *)
(* packets, of a type with a name and of one without.                      *)
(***************************************************************************)
EXTENDS TypedEvents

MCThreads == [structure |-> {1, 2}, send |-> {1}, receive |-> {1}]
MCTypes == [structure |-> {"village", "stronghold"},
            send |-> {"TextPacket", "unnamed"}, receive |-> {"TextPacket", "unnamed"}]

=============================================================================
