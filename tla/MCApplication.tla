--------------------------- MODULE MCApplication ----------------------------
(* Application with every stack of up to three layers. *)
EXTENDS Application, TLC

CONSTANTS r1, r2
TwoRequests == {r1, r2}
OneRequest  == {r1}
Symmetry    == Permutations(TwoRequests)
AllStacks   == UNION {[1..n -> Layer] : n \in 0..3}
\* The stack of the tutorial and of the tests.
UsualStack  == {<<"request_id", "access_log", "recover_exceptions">>}

=============================================================================
