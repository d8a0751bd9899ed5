----------------------------- MODULE MCShmUds -----------------------------
(***************************************************************************)
(* Instances of ShmUds for TLC.                                            *)
(***************************************************************************)
EXTENDS ShmUds

CONSTANTS c1, c2, c3

ThreeCalls  == {c1, c2, c3}
FirstCall   == {c1}
\* Every request can be read, or the third one cannot.
NoneOrThird == {{}, {c3}}
=============================================================================
