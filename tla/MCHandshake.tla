---------------------------- MODULE MCHandshake ----------------------------
(* One session in which the client sends at most MaxReq requests.          *)
EXTENDS Handshake
=============================================================================
