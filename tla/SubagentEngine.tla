--------------------------- MODULE SubagentEngine ---------------------------
(***************************************************************************)
(* The sub-agent engine of internal/subagents/engine.go: every delegated   *)
(* task is one call of Engine.Spawn, which takes a slot of the counting    *)
(* semaphore e.sem, runs a child brain while holding it, distils what the  *)
(* child learnt into the parent's memory and gives the slot back.          *)
(*                                                                         *)
(* A child brain may delegate in turn.  Such a nested call runs inside the *)
(* child's turn, so the child keeps its own slot while it waits.           *)
(***************************************************************************)
EXTENDS Integers, FiniteSets

CONSTANTS
  Calls,            (* the calls of Spawn a behaviour may contain             *)
  Outside,          (* the caller of a call no child brain made               *)
  Enabled,          (* cfg.Enabled                                            *)
  MaxConcurrent,    (* cfg.MaxConcurrent, as configured, before clamping      *)
  MaxDepth,         (* cfg.MaxDepth, as configured, before clamping           *)
  DelegateInherited,(* the engine's runners include delegate_task             *)
  LearningEnabled   (* cfg.LearningEnabled                                    *)

ASSUME EngineAssumption ==
  /\ IsFiniteSet(Calls)
  /\ Outside \notin Calls
  /\ MaxConcurrent \in Int
  /\ MaxDepth \in Int
  /\ {Enabled, DelegateInherited, LearningEnabled} \subseteq BOOLEAN

(* NewEngine and Spawn clamp what the configuration says. *)
Capacity   == IF MaxConcurrent <= 0 THEN 1
              ELSE IF MaxConcurrent > 10 THEN 10 ELSE MaxConcurrent
DepthLimitUnclamped == IF MaxDepth <= 0 THEN 1 ELSE MaxDepth
DepthLimit == IF MaxDepth <= 0 THEN 1
              ELSE IF MaxDepth > 2 THEN 2 ELSE MaxDepth

(* A context built with ContextWithDepth carries the depth of whoever holds *)
(* it; a plain context counts as depth 0.                                   *)
ContextDepths == 0 .. 2

VARIABLES
  pc,       (* where each call of Spawn stands                               *)
  caller,   (* the call whose child brain made this one, or Outside          *)
  depth,    (* DepthFromContext of the context the call was made with        *)
  expired,  (* the call's own deadline passed, or its caller gave it up      *)
  sem,      (* how many tokens the channel e.sem holds                       *)
  result,   (* what Spawn returned                                           *)
  learnt    (* what the call left in the parent's memory                     *)

vars == <<pc, caller, depth, expired, sem, result, learnt>>

Places  == {"idle", "select", "step", "distil", "returned"}
Results == {"none", "rejected", "context error", "provider error", "reply"}
Learnt  == {"nothing", "saved", "audited"}

Holders   == {c \in Calls : pc[c] \in {"step", "distil"}}
InFlight  == {c \in Calls : pc[c] \in {"select", "step", "distil"}}
NestedOf(c) == {n \in InFlight : caller[n] = c}

(* childCtx is derived from the context of the caller's child brain. *)
CtxDone(c) == expired[c] \/ (caller[c] # Outside /\ expired[caller[c]])

(* The runners the child brain of call c is given: at the last level the    *)
(* delegate_task runner is left out.                                        *)
MayDelegate(c) == DelegateInherited /\ ~(depth[c] + 1 >= DepthLimit)

TypeOK ==
  /\ pc \in [Calls -> Places]
  /\ caller \in [Calls -> Calls \union {Outside}]
  /\ depth \in [Calls -> ContextDepths]
  /\ expired \in [Calls -> BOOLEAN]
  /\ sem \in 0 .. Capacity
  /\ result \in [Calls -> Results]
  /\ learnt \in [Calls -> Learnt]

Init ==
  /\ pc = [c \in Calls |-> "idle"]
  /\ caller = [c \in Calls |-> Outside]
  /\ depth = [c \in Calls |-> 0]
  /\ expired = [c \in Calls |-> FALSE]
  /\ sem = 0
  /\ result = [c \in Calls |-> "none"]
  /\ learnt = [c \in Calls |-> "nothing"]

(* Spawn returns r; its parameters and its context are gone. *)
Leave(c, r) ==
  /\ pc' = [pc EXCEPT ![c] = "returned"]
  /\ result' = [result EXCEPT ![c] = r]
  /\ caller' = [caller EXCEPT ![c] = Outside]
  /\ depth' = [depth EXCEPT ![c] = 0]
  /\ expired' = [expired EXCEPT ![c] = FALSE]

(* The checks at the head of Spawn: a call made with a context of depth d   *)
(* enters the select unless the engine is off, the task is blank or the     *)
(* depth limit is reached.                                                  *)
Enter(c, d, p, blank) ==
  /\ pc[c] = "idle"
  /\ \/ /\ Enabled /\ ~blank /\ d < DepthLimit
        /\ pc' = [pc EXCEPT ![c] = "select"]
        /\ depth' = [depth EXCEPT ![c] = d]
        /\ caller' = [caller EXCEPT ![c] = p]
        /\ UNCHANGED <<expired, result>>
     \/ /\ ~Enabled \/ blank \/ d >= DepthLimit
        /\ Leave(c, "rejected")
  /\ UNCHANGED <<sem, learnt>>

SpawnFromOutside(c) ==
  \E d \in ContextDepths, blank \in BOOLEAN : Enter(c, d, Outside, blank)

(* A running child brain calls delegate_task; it runs one tool at a time,   *)
(* and its own context carries depth[p] + 1.                                *)
SpawnFromChild(c, p) ==
  /\ pc[p] = "step"
  /\ NestedOf(p) = {}
  /\ MayDelegate(p)
  /\ Enter(c, depth[p] + 1, p, FALSE)

(* Mutants of Acquire: no semaphore, and one slot too many. *)
AcquireOffByOne(c) ==
  /\ pc[c] = "select"
  /\ sem <= Capacity
  /\ sem' = sem + 1
  /\ pc' = [pc EXCEPT ![c] = "step"]
  /\ UNCHANGED <<caller, depth, expired, result, learnt>>

AcquireUnbounded(c) ==
  /\ pc[c] = "select"
  /\ sem' = IF sem < Capacity THEN sem + 1 ELSE sem
  /\ pc' = [pc EXCEPT ![c] = "step"]
  /\ UNCHANGED <<caller, depth, expired, result, learnt>>

(* The first case of the select; Go picks either case when both are ready,  *)
(* so an expired call may still take the slot.                              *)
Acquire(c) ==
  /\ pc[c] = "select"
  /\ sem < Capacity
  /\ sem' = sem + 1
  /\ pc' = [pc EXCEPT ![c] = "step"]
  /\ UNCHANGED <<caller, depth, expired, result, learnt>>

GiveUpMissing(c) == FALSE /\ UNCHANGED vars

(* The second case of the select. *)
GiveUp(c) ==
  /\ pc[c] = "select"
  /\ CtxDone(c)
  /\ Leave(c, "context error")
  /\ UNCHANGED <<sem, learnt>>

(* context.WithTimeout fires, or the outside caller cancels. *)
Expire(c) ==
  /\ c \in InFlight
  /\ ~expired[c]
  /\ expired' = [expired EXCEPT ![c] = TRUE]
  /\ UNCHANGED <<pc, caller, depth, sem, result, learnt>>

StepFailsKeepingSlot(c) ==
  /\ pc[c] = "step"
  /\ NestedOf(c) = {}
  /\ Leave(c, "provider error")
  /\ UNCHANGED <<sem, learnt>>

StepFailsEarly(c) ==
  /\ pc[c] = "step"
  /\ Leave(c, "provider error")
  /\ sem' = sem - 1
  /\ UNCHANGED learnt

(* childBrain.Step returns, which it cannot do while a nested call runs.    *)
(* An error leaves Spawn through the deferred release.                      *)
StepFails(c) ==
  /\ pc[c] = "step"
  /\ NestedOf(c) = {}
  /\ \/ Leave(c, "provider error")
     \/ CtxDone(c) /\ Leave(c, "context error")
  /\ sem' = sem - 1
  /\ UNCHANGED learnt

StepReplies(c) ==
  /\ pc[c] = "step"
  /\ NestedOf(c) = {}
  /\ pc' = [pc EXCEPT ![c] = "distil"]
  /\ UNCHANGED <<caller, depth, expired, sem, result, learnt>>

(* ExtractKeyLearnings may find nothing; SaveObservations and AppendAudit   *)
(* run under childCtx, so they fail when it is done, and any failure is     *)
(* logged only.  The reply is returned and the slot released either way.    *)
Distil(c) ==
  /\ pc[c] = "distil"
  /\ \E l \in Learnt :
        /\ l # "nothing" => LearningEnabled /\ ~CtxDone(c)
        /\ learnt' = [learnt EXCEPT ![c] = l]
  /\ Leave(c, "reply")
  /\ sem' = sem - 1

CallStep(c) ==
  \/ SpawnFromOutside(c)
  \/ \E p \in Calls : SpawnFromChild(c, p)
  \/ Acquire(c)
  \/ GiveUp(c)
  \/ Expire(c)
  \/ StepFails(c)
  \/ StepReplies(c)
  \/ Distil(c)

Next == \E c \in Calls : CallStep(c)

Spec == Init /\ [][Next]_vars

(* The Go runtime keeps timers firing and ready goroutines running; a child *)
(* brain is only known to come back once its context is done, because the   *)
(* provider request it waits for carries that context.                      *)
Fairness ==
  \A c \in Calls :
    /\ WF_vars(Acquire(c))
    /\ WF_vars(GiveUp(c))
    /\ WF_vars(Expire(c))
    /\ WF_vars(CtxDone(c) /\ (StepFails(c) \/ StepReplies(c)))
    /\ WF_vars(Distil(c))

FairSpec == Spec /\ Fairness

-----------------------------------------------------------------------------
(* The semaphore counts exactly the calls that run a child or distil its    *)
(* answer: Spawn releases its token on every way out, once (engine.go,      *)
(* lines 120 to 125 and each later return).                                 *)
SlotsMatchHolders == sem = Cardinality(Holders)

(* A nested call never outlives the child brain that made it: while it is   *)
(* in flight its caller sits in childBrain.Step, holding a slot, so neither *)
(* a slot nor a context is given up under a running descendant.             *)
NestedInsideCaller ==
  \A n \in InFlight :
    caller[n] # Outside => /\ pc[caller[n]] = "step"
                           /\ depth[n] = depth[caller[n]] + 1

(* Whatever max_depth says, no child brain runs below depth 2 (Spawn,       *)
(* lines 84 to 94, and the runner filter of lines 127 to 135).              *)
DepthNeverExceedsTwo == \A c \in Holders : depth[c] + 1 <= 2

(* How children nest: within their callers, and no deeper than two.         *)
NestingIsBounded == NestedInsideCaller /\ DepthNeverExceedsTwo

(* The engine implements the bounded pool: taking a slot admits, every      *)
(* return finishes or turns away.                                           *)
Pool == INSTANCE BoundedPool
  WITH Jobs <- Calls, Limit <- Capacity,
       active <- Holders, over <- {c \in Calls : pc[c] = "returned"}

ImplementsPool == Pool!Spec

(* Every call of Spawn returns to its caller.  With two levels of           *)
(* delegation all slots may be held by child brains that wait for a slot    *)
(* themselves: only the deadlines end that (engine.go:114 and 123).         *)
EveryCallReturns == \A c \in Calls : (c \in InFlight) ~> (pc[c] = "returned")
=============================================================================
