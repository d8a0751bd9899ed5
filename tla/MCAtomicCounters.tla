-------------------------- MODULE MCAtomicCounters --------------------------
(***************************************************************************)
(* Instances of AtomicCounters for TLC.                                    *)
(***************************************************************************)
EXTENDS AtomicCounters, TLC

CONSTANTS t1, t2, t3

ThreeThreads == {t1, t2, t3}
\* At the first bound, at the last one, beyond it.
ThreeKinds   == {2, 6, 7}
HalfAndMost  == {50, 99}
Symmetry     == Permutations(ThreeThreads)
=============================================================================
