--------------------------- MODULE MCEventFdTable ---------------------------
(***************************************************************************)
(* The instance of EventFdTable for TLC.                                   *)
(***************************************************************************)
EXTENDS EventFdTable

CONSTANTS v1, v2

TwoValues == {v1, v2}
=============================================================================
