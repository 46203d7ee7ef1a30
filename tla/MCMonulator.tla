----------------------------- MODULE MCMonulator -----------------------------
(***************************************************************************)
(* A small instance of Monulator: two sockets, a response of up to three   *)
(* chunks, and links that come, go and come back.                          *)
(***************************************************************************)
EXTENDS Monulator

MCSockets == {2, 3}
=============================================================================
