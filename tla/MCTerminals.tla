---------------------------- MODULE MCTerminals ----------------------------
(* Instances of Terminals for TLC.                                         *)
EXTENDS Terminals, TLC

CONSTANTS d1, a1, a2, s1, s2, v1, t1

OneAgent   == (a1 :> d1)
OneDevice  == (a1 :> d1) @@ (a2 :> d1)

OneBrowser == (t1 :> v1)
OnD1       == (t1 :> d1)

SocketSymmetry == Permutations(Socket)
=============================================================================
