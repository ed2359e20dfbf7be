-------------------------------- MODULE MCJwks --------------------------------
(* Small instances of JwksCache.                                           *)
EXTENDS JwksProperties

CONSTANTS p1, p2, a, b
=============================================================================
