----------------------------- MODULE MCRawServer ----------------------------
(* RawServer with two connections, or one, and one worker or two. *)
EXTENDS RawServer, TLC

CONSTANTS s1, s2
OneSession  == {s1}
TwoSessions == {s1, s2}
Symmetry    == Permutations(TwoSessions)

=============================================================================
