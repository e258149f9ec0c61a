---------------------------- MODULE BindingTurns -----------------------------
(***************************************************************************)
(* Binding with its turns counted.  A turn that changes nothing, which is  *)
(* how the loops of bind_parameter would spin, is a stuttering step of     *)
(* Binding; the parity of the turns makes it a step all the same.  A call  *)
(* that has returned rests, and any other state without a step is a        *)
(* deadlock.                                                               *)
(***************************************************************************)
EXTENDS Binding

VARIABLE turn

turnVars == <<bindingVars, turn>>

TurnInit == BindingInit /\ turn = 0
Turn     == BindingNext /\ turn' = 1 - turn
Rest     == outcome # Pending /\ UNCHANGED turnVars
TurnNext == Turn \/ Rest
TurnSpec == TurnInit /\ [][TurnNext]_turnVars

\* Every turn brings the answer nearer, so every request is answered: no loop spins
\* where find returned npos or its offset was left on a separator.
GetsNearer == [][Nearer]_turnVars

=============================================================================
