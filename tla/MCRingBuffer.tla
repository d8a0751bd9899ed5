--------------------------- MODULE MCRingBuffer ---------------------------
(***************************************************************************)
(* Instances of RingBuffer for TLC.  Aligned messages make frames of 8, 12 *)
(* and 16 bytes, so that in a ring of 24 no length prefix starts in the    *)
(* last three bytes; the payloads differ from each other, from the zeroes  *)
(* of a fresh mapping and from the bytes of a length.                      *)
(*                                                                         *)
(* A message of one byte makes frames of 5 bytes.                          *)
(***************************************************************************)
EXTENDS RingBuffer

CONSTANTS w1, w2, r1, r2, none

Short == <<7, 7, 7, 7>>
Long  == <<9, 9, 9, 9, 8, 8, 8, 8>>
Huge  == <<5, 5, 5, 5, 5, 5, 5, 5, 5, 5, 5, 5>>
Odd   == <<6>>

AlignedMessages == {Short, Long, Huge}
OddMessages     == {Odd}
TwoWriters      == {w1, w2}
OneWriter       == {w1}
TwoReaders      == {r1, r2}
OneReader       == {r1}
=============================================================================
