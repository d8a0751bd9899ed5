------------------------------- MODULE MCGrpc -------------------------------
(***************************************************************************)
(* Instances of Grpc for TLC.                                              *)
(***************************************************************************)
EXTENDS Grpc

CONSTANTS r1, r2

TwoRequests  == {r1, r2}
ThirdMessage == {3}
=============================================================================
