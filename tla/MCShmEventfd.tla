--------------------------- MODULE MCShmEventfd ---------------------------
(***************************************************************************)
(* Instances of ShmEventfd for TLC.                                        *)
(***************************************************************************)
EXTENDS ShmEventfd

CONSTANTS c1, c2, c3, c4

FourCalls  == {c1, c2, c3, c4}
ThirdCall  == {c3}
FourthCall == {c4}
=============================================================================
