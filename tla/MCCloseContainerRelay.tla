----------------------- MODULE MCCloseContainerRelay -----------------------
(***************************************************************************)
(* Two subscribers that come and go in every order and four emitters: a    *)
(* lambda can outlive its emitter, meet the next one, and still leave room *)
(* for two more that behave as they should.                                *)
(***************************************************************************)
EXTENDS CloseContainerRelay

=============================================================================
