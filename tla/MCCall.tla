------------------------------- MODULE MCCall -------------------------------
(* Instance of Call for TLC. *)
EXTENDS Call, TLC
CONSTANTS u1, u2, s1, s2, s3

TwoAndOne == s1 :> u1 @@ s2 :> u1 @@ s3 :> u2
=============================================================================
