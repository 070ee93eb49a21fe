------------------------------ MODULE MCLFQueue -----------------------------
(* LFQueue for TLC: the indices wrap at twice the size. *)
EXTENDS LFQueue

CONSTANTS a, b

MCValues == {a, b}

=============================================================================
