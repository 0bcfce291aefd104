---------------------------- MODULE MCNodeHealth ----------------------------
(* Two tasks on one node; a second is two ticks, so both halves occur. *)
EXTENDS NodeHealth, TLC

CONSTANTS t1, t2

MCThread == {t1, t2}
MCSample == {1, 9}
MCRetryAfters == {0, 5}

Symmetry == Permutations(MCThread)
=============================================================================
