---------------------------- MODULE MCShmSetup ----------------------------
(***************************************************************************)
(* Instances of ShmSetup for TLC.                                          *)
(***************************************************************************)
EXTENDS ShmSetup

CONSTANTS g1, g2

AllTransports  == {"polling", "uds", "eventfd"}
OneTransport   == {"polling"}
OneGateway     == {g1}
TwoGateways    == {g1, g2}
=============================================================================
