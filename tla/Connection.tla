----------------------------- MODULE Connection -----------------------------
(***************************************************************************)
(* What raw_session of include/flash/server.hpp promises the client of a   *)
(* connection and the application behind it, whatever the network does.    *)
(* The two sides take turns: the server receives a request, the            *)
(* application serves it, the server answers, and only an answer that kept *)
(* the connection is followed by another request.                          *)
(*                                                                         *)
(*   - a request the application was given is answered, once, unless the   *)
(*     connection is told to close by force;                               *)
(*   - after an answer that closes, nothing more is read or served;        *)
(*   - once the connection is told to stop no answer promises to keep it   *)
(*     and no further request is received;                                 *)
(*   - after the force nothing begins.                                     *)
(***************************************************************************)
CONSTANT Session

VARIABLES
    turn,           \* whose turn it is; the answer on its way keeps the connection or closes it
    stop            \* how the connection was told to stop

connectionVars == <<turn, stop>>

ConnectionTypeOK ==
    /\ turn \in [Session -> {"new", "receiving", "serving", "keeping", "closing", "closed"}]
    /\ stop \in [Session -> {"none", "graceful", "forced"}]

ConnectionInit ==
    /\ turn = [s \in Session |-> "new"]
    /\ stop = [s \in Session |-> "none"]

Turn(s, from, to) ==
    /\ turn[s] \in from
    /\ turn' = [turn EXCEPT ![s] = to]
    /\ UNCHANGED stop

Accept(s) == Turn(s, {"new"}, "receiving")

Serve(s) == stop[s] # "forced" /\ Turn(s, {"receiving"}, "serving")

\* A request that is refused is answered without being served.
AnswerAndKeep(s)  == stop[s] = "none" /\ Turn(s, {"receiving", "serving"}, "keeping")
AnswerAndClose(s) == stop[s] # "forced" /\ Turn(s, {"receiving", "serving"}, "closing")

ReceiveNext(s) == stop[s] = "none" /\ Turn(s, {"keeping"}, "receiving")

\* The peer is gone, or silent for too long, or the answer was sent.
Close(s) == Turn(s, {"receiving", "keeping", "closing"}, "closed")

\* Only the force leaves a request without its answer.
Abandon(s) == stop[s] = "forced" /\ Turn(s, {"serving"}, "closed")

Stop(S) ==
    /\ stop' = [s \in Session |-> IF s \in S /\ stop[s] = "none" THEN "graceful" ELSE stop[s]]
    /\ UNCHANGED turn

Force(s) ==
    /\ stop[s] = "graceful"
    /\ stop' = [stop EXCEPT ![s] = "forced"]
    /\ UNCHANGED turn

ConnectionNext ==
    \/ \E s \in Session :
          \/ Accept(s) \/ Serve(s) \/ AnswerAndKeep(s) \/ AnswerAndClose(s)
          \/ ReceiveNext(s) \/ Close(s) \/ Abandon(s) \/ Force(s)
    \/ \E S \in SUBSET Session : Stop(S)

Promise == ConnectionInit /\ [][ConnectionNext]_connectionVars

=============================================================================
