--------------------------- MODULE MCShmPolling ---------------------------
(***************************************************************************)
(* Instances of ShmPolling for TLC.                                        *)
(***************************************************************************)
EXTENDS ShmPolling

CONSTANTS c1, c2, c3, c4

TwoCalls   == {c1, c2}
FourCalls  == {c1, c2, c3, c4}
NoCalls    == {}
FirstCall  == {c1}
SecondCall == {c2}
=============================================================================
