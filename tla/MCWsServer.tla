----------------------------- MODULE MCWsServer -----------------------------
(***************************************************************************)
(* An instance of WsServer for TLC.                                        *)
(***************************************************************************)
EXTENDS WsServer

=============================================================================
