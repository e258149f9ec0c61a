----------------------------- MODULE Lifecycle ------------------------------
(***************************************************************************)
(* What raw_server promises to the program that embeds it, with no threads,*)
(* timers or sockets: connections are admitted only while it serves; once  *)
(* asked to stop it drains; what does not leave in time is told to by      *)
(* force; and wait() returns only when nobody is left or force was used.   *)
(***************************************************************************)
CONSTANT Session

VARIABLES
    mode,       \* what the server is doing
    open        \* the connections it has admitted and not closed

abstractVars == <<mode, open>>

LifecycleTypeOK ==
    /\ mode \in {"idle", "serving", "draining", "forced", "down"}
    /\ open \subseteq Session

LifecycleInit == mode = "idle" /\ open = {}

Open == mode = "idle" /\ mode' = "serving" /\ UNCHANGED open

Admit(s) ==
    /\ mode = "serving"
    /\ s \notin open
    /\ open' = open \cup {s}
    /\ UNCHANGED mode

Leave(s) ==
    /\ mode \in {"serving", "draining", "forced"}
    /\ s \in open
    /\ open' = open \ {s}
    /\ UNCHANGED mode

Drain == mode = "serving" /\ mode' = "draining" /\ UNCHANGED open

Force ==
    /\ mode = "draining"
    /\ open # {}
    /\ mode' = "forced"
    /\ UNCHANGED open

\* From "serving" only when start() failed before anything could connect.
Down ==
    /\ mode \in {"serving", "draining", "forced"}
    /\ open = {} \/ mode = "forced"
    /\ mode' = "down"
    /\ UNCHANGED open

LifecycleNext ==
    \/ Open \/ Drain \/ Force \/ Down
    \/ \E s \in Session : Admit(s) \/ Leave(s)

LifecycleSafety == LifecycleInit /\ [][LifecycleNext]_abstractVars

\* A drain does not last for ever, whatever the connections do.
LifecycleFairness ==
    /\ WF_abstractVars(Force)
    /\ WF_abstractVars(mode # "serving" /\ Down)

LifecycleSpec == LifecycleSafety /\ LifecycleFairness

=============================================================================
