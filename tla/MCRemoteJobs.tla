---------------------------- MODULE MCRemoteJobs ----------------------------
(* Instances of RemoteJobs for TLC.                                        *)
EXTENDS RemoteJobs, TLC

CONSTANTS d1, a1, s1, s2, j1

OneAgent == (a1 :> d1)
ForD1    == (j1 :> d1)

SocketSymmetry == Permutations(Socket)
=============================================================================
