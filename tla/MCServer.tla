------------------------------ MODULE MCServer ------------------------------
(***************************************************************************)
(* An instance of Server for TLC: two plain requests and a websocket.      *)
(***************************************************************************)
EXTENDS Server

CONSTANTS r1, r2, w1
=============================================================================
