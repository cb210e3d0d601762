---------------------------- MODULE DurableJobs ----------------------------
(***************************************************************************)
(* What the durable auto-delete of temporary messages promises, whatever   *)
(* stops in between: a job that was promised stays promised until it is    *)
(* carried out, is never carried out before its delay is over, and is      *)
(* given up only when its grace period ended while nobody was at work.     *)
(***************************************************************************)
EXTENDS Naturals

CONSTANTS Messages, Delay, Grace

VARIABLES
    job,    \* what became of the job of each message
    age,    \* ticks since it was promised
    up      \* somebody is at work

vars == <<job, age, up>>

TTL == Delay + Grace

Init ==
    /\ job = [m \in Messages |-> "none"]
    /\ age = [m \in Messages |-> 0]
    /\ up = FALSE

Promise(m) ==
    /\ job[m] = "none"
    /\ job' = [job EXCEPT ![m] = "promised"]
    /\ UNCHANGED <<age, up>>

Attempt(m) ==
    /\ job[m] = "promised" /\ age[m] >= Delay
    /\ job' = [job EXCEPT ![m] = "done"]
    /\ UNCHANGED <<age, up>>

\* The clock counts for promised jobs only, and no further than the TTL.
Older ==
    /\ age' \in [Messages -> 0..TTL]
    /\ \A m \in Messages :
         /\ age'[m] \in {age[m], age[m] + 1}
         /\ job[m] = "none" => age'[m] = age[m]

\* Time passes, work begins or stops; the jobs of S are given up with it.
Pass(S) ==
    /\ Older /\ up' \in BOOLEAN
    /\ \A m \in S : job[m] = "promised" /\ age'[m] = TTL /\ ~up'
    /\ job' = [m \in Messages |-> IF m \in S THEN "lost" ELSE job[m]]

Next ==
    \/ \E m \in Messages : Promise(m) \/ Attempt(m)
    \/ \E S \in SUBSET Messages : Pass(S)

Spec == Init /\ [][Next]_vars
=============================================================================
