-------------------------- MODULE MCAgentsGateway --------------------------
(* Instances of AgentsGateway for TLC.                                     *)
EXTENDS AgentsGateway, TLC

CONSTANTS d1, a1, a2, s1, s2, s3

(* Two processes of one device: an old daemon and the one that a later
   "app connect", or systemd, started.                                     *)
OneDevice == (a1 :> d1) @@ (a2 :> d1)
OneAgent  == (a1 :> d1)

SocketSymmetry == Permutations(Socket)
=============================================================================
