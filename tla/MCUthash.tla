----------------------------- MODULE MCUthash ------------------------------
(* Six elements: three under one key, and keys whose hash values share a   *)
(* bucket until the table has doubled once, twice and three times.         *)
EXTENDS Uthash

CONSTANTS x1, x2, x3, x4, x5, x6

Keys   == x1 :> "k1" @@ x2 :> "k1" @@ x3 :> "k2" @@ x4 :> "k3" @@ x5 :> "k4"
          @@ x6 :> "k1"
Hashes == x1 :> 0 @@ x2 :> 0 @@ x3 :> 2 @@ x4 :> 1 @@ x5 :> 4 @@ x6 :> 0
=============================================================================
