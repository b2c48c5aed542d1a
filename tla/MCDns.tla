------------------------------- MODULE MCDns -------------------------------
(* Three coroutines, two names.                                            *)
EXTENDS Dns
=============================================================================
