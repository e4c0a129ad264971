---------------------------- MODULE BoundedPool ----------------------------
(***************************************************************************)
(* What the sub-agent engine promises about concurrency, with nothing      *)
(* about how: jobs are admitted while fewer than Limit of them are active, *)
(* an active job finishes once, and a job that is never admitted may be    *)
(* turned away.                                                            *)
(***************************************************************************)
EXTENDS Integers, FiniteSets

CONSTANTS Jobs,   (* the jobs that may ask for admission   *)
          Limit   (* how many of them may be active at once *)

VARIABLES active,   (* the admitted jobs that have not finished *)
          over      (* the jobs that finished or were turned away *)

Init == active = {} /\ over = {}

Admit(j) == /\ j \notin active \union over
            /\ Cardinality(active) < Limit
            /\ active' = active \union {j}
            /\ over' = over

Finish(j) == /\ j \in active
             /\ active' = active \ {j}
             /\ over' = over \union {j}

TurnAway(j) == /\ j \notin active \union over
               /\ over' = over \union {j}
               /\ active' = active

Next == \E j \in Jobs : Admit(j) \/ Finish(j) \/ TurnAway(j)

Spec == Init /\ [][Next]_<<active, over>>
=============================================================================
