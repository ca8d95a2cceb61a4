------------------------------ MODULE MCPolicy ------------------------------
(* Small instances of Policy for TLC.                                       *)
EXTENDS Policy, TLC

CONSTANTS ip, s1, s2

\* Two sessions of one address.
MCSameIp == s1 :> ip @@ s2 :> ip
=============================================================================
