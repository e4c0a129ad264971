----------------------------- MODULE CronEngine -----------------------------
(***************************************************************************)
(* The cron engine (internal/cron/engine.go): AddJob, Start, the scheduler  *)
(* loop with its timer and wake channel, the goroutines it launches, the    *)
(* cancelled context and Stop.  A job run's turn in its conversation is     *)
(* SessionRouting's subject; here a run is only in flight or over.  Time is *)
(* the integer clock the engine reads through now().                        *)
(***************************************************************************)
EXTENDS Integers, FiniteSets

CONSTANTS
  Jobs,
  Plans,   (* the schedules the jobs may have, each with "every", the period *)
           (* of an "@every" schedule or 0, and otherwise the times "at"     *)
           (* which it matches                                               *)
  Hour,    (* the wait when no job has a next run                            *)
  LastTick  (* bound: the clock stops here                                    *)

ASSUME EngineAssumption ==
  /\ {Hour, LastTick} \subseteq Nat \ {0}
  /\ Plans \subseteq [Jobs -> [every : Nat, at : SUBSET (Nat \ {0})]]

Zero == 0  (* the zero time.Time; the clock starts at 1                      *)

VARIABLES
  plan,      (* the schedules of the jobs                                    *)
  now,
  added,     (* the jobs in e.jobs                                           *)
  nextRun,   (* their next runs                                              *)
  owed,      (* AddJob calls between their unlock and triggerWake            *)
  wake,      (* tokens in wakeCh, whose capacity is one                      *)
  loop,      (* the loop: "off", "scan", "arm", "wait", "gone"               *)
  ready,     (* what the last scan found due                                 *)
  earliest,  (* and the earliest next run it left                            *)
  timer,     (* when the timer fires                                         *)
  inFlight,  (* runs of each job that the wait group counts                  *)
  launches,  (* history: how often each job was launched                     *)
  ctxDone, running, closed,
  stopper    (* Stop: "no", "waiting" for the group, "returned"              *)

jobVars == <<added, nextRun, owed>>
loopVars == <<loop, ready, earliest, timer>>
runVars == <<inFlight, launches>>
lifeVars == <<ctxDone, running, closed, stopper>>
cronVars == <<plan, now, jobVars, wake, loopVars, runVars, lifeVars>>

CronTypeOK ==
  /\ plan \in Plans /\ now \in 1 .. LastTick
  /\ added \subseteq Jobs /\ owed \subseteq added
  /\ nextRun \in [Jobs -> Nat] /\ wake \in 0 .. 1
  /\ loop \in {"off", "scan", "arm", "wait", "gone"}
  /\ ready \subseteq added /\ earliest \in Nat /\ timer \in Nat
  /\ inFlight \in [Jobs -> Nat] /\ launches \in [Jobs -> Nat]
  /\ {ctxDone, running, closed} \subseteq BOOLEAN
  /\ stopper \in {"no", "waiting", "returned"}

CronInit ==
  /\ plan \in Plans /\ now = 1
  /\ added = {} /\ nextRun = [j \in Jobs |-> Zero] /\ owed = {} /\ wake = 0
  /\ loop = "off" /\ ready = {} /\ earliest = Zero /\ timer = Zero
  /\ inFlight = [j \in Jobs |-> 0] /\ launches = [j \in Jobs |-> 0]
  /\ ctxDone = FALSE /\ running = FALSE /\ closed = FALSE /\ stopper = "no"

Least(S) == CHOOSE x \in S : \A y \in S : x <= y

(* Mutant: the present minute counts as the next. *)
ScheduledFromNow(j, at) ==
  LET later == {x \in plan[j].at : x >= at}
  IN IF plan[j].every > 0 THEN at + plan[j].every
     ELSE IF later = {} THEN Zero ELSE Least(later)

(* schedule.Next(at): the zero time when nothing is to come.                *)
Scheduled(j, at) ==
  LET later == {x \in plan[j].at : x > at}
  IN IF plan[j].every > 0 THEN at + plan[j].every
     ELSE IF later = {} THEN Zero ELSE Least(later)

-----------------------------------------------------------------------------
(* Mutant: the loop is not told. *)
AddJobQuietly(j) ==
  /\ j \notin added /\ ~closed
  /\ added' = added \union {j}
  /\ nextRun' = [nextRun EXCEPT ![j] = Scheduled(j, now)]
  /\ UNCHANGED <<plan, now, wake, owed, loopVars, runVars, lifeVars>>

AddJob(j) ==
  /\ j \notin added /\ ~closed
  /\ added' = added \union {j}
  /\ nextRun' = [nextRun EXCEPT ![j] = Scheduled(j, now)]
  /\ owed' = owed \union {j}
  /\ UNCHANGED <<plan, now, wake, loopVars, runVars, lifeVars>>

(* Mutant: a channel without a limit. *)
TriggerWakePiling(j) ==
  /\ j \in owed
  /\ owed' = owed \ {j}
  /\ wake' = wake + 1
  /\ UNCHANGED <<plan, now, added, nextRun, loopVars, runVars, lifeVars>>

(* A send that gives way when a token is there already. *)
TriggerWake(j) ==
  /\ j \in owed
  /\ owed' = owed \ {j}
  /\ wake' = 1
  /\ UNCHANGED <<plan, now, added, nextRun, loopVars, runVars, lifeVars>>

StartEngine ==
  /\ ~closed /\ ~running
  /\ running' = TRUE /\ loop' = "scan"
  /\ UNCHANGED <<plan, now, wake, jobVars, ready, earliest, timer,
                 runVars, ctxDone, closed, stopper>>

(* The pass under e.mu.  A job without a next run is asked for one; if that *)
(* is still the zero time it is not after now, and so the job is due.       *)
Asked(j) == IF nextRun[j] = Zero THEN Scheduled(j, now) ELSE nextRun[j]
Due == {j \in added : Asked(j) <= now}
Scan ==
  /\ loop = "scan"
  /\ ready' = Due
  /\ nextRun' = [j \in Jobs |-> IF j \in Due THEN Scheduled(j, now)
                                ELSE IF j \in added THEN Asked(j) ELSE Zero]
  /\ earliest' = LET times == {nextRun'[j] : j \in added} \ {Zero}
                 IN IF times = {} THEN Zero ELSE Least(times)
  /\ loop' = "arm"
  /\ UNCHANGED <<plan, now, wake, added, owed, timer, runVars, lifeVars>>

(* The goroutines are launched, and the clock is read again for the timer.  *)
Arm ==
  /\ loop = "arm"
  /\ inFlight' = [j \in Jobs |-> inFlight[j] + IF j \in ready THEN 1 ELSE 0]
  /\ launches' = [j \in Jobs |-> launches[j] + IF j \in ready THEN 1 ELSE 0]
  /\ ready' = {}
  /\ timer' = IF earliest = Zero THEN now + Hour
              ELSE IF earliest > now THEN earliest ELSE now
  /\ loop' = "wait"
  /\ UNCHANGED <<plan, now, wake, jobVars, earliest, lifeVars>>

(* The select of the loop; with several cases ready any of them is taken.   *)
LeaveLoop == ctxDone /\ loop' = "gone" /\ UNCHANGED wake
TakeWake == wake = 1 /\ wake' = 0 /\ loop' = "scan"
TimerFires == timer <= now /\ loop' = "scan" /\ UNCHANGED wake
Select ==
  /\ loop = "wait"
  /\ LeaveLoop \/ TakeWake \/ TimerFires
  /\ UNCHANGED <<plan, now, jobVars, ready, earliest,
                 timer, runVars, lifeVars>>

(* executeJob returns, whichever way. *)
RunEnds(j) ==
  /\ inFlight[j] > 0
  /\ inFlight' = [inFlight EXCEPT ![j] = @ - 1]
  /\ UNCHANGED <<plan, now, wake, jobVars, loopVars, launches, lifeVars>>

(* The signal that ends the program cancels the parent context. *)
Interrupt ==
  /\ ~ctxDone
  /\ ctxDone' = TRUE
  /\ UNCHANGED <<plan, now, wake, jobVars, loopVars, runVars,
                 running, closed, stopper>>

(* Mutant: Stop forgets to cancel the loop's context. *)
StopWithoutCancel ==
  /\ stopper = "no"
  /\ closed' = TRUE /\ running' = FALSE
  /\ stopper' = IF running THEN "waiting" ELSE "returned"
  /\ UNCHANGED <<plan, now, wake, jobVars, loopVars, runVars, ctxDone>>

StopEngine ==
  /\ stopper = "no"
  /\ closed' = TRUE /\ running' = FALSE
  /\ ctxDone' = (ctxDone \/ running)
  /\ stopper' = IF running THEN "waiting" ELSE "returned"
  /\ UNCHANGED <<plan, now, wake, jobVars, loopVars, runVars>>

(* Mutant: the group counts the loop but not the runs. *)
StopReturnsEarly ==
  /\ stopper = "waiting" /\ loop = "gone"
  /\ stopper' = "returned"
  /\ UNCHANGED <<plan, now, wake, jobVars, loopVars, runVars,
                 ctxDone, running, closed>>

StopReturns ==
  /\ stopper = "waiting"
  /\ loop = "gone" /\ \A j \in Jobs : inFlight[j] = 0
  /\ stopper' = "returned"
  /\ UNCHANGED <<plan, now, wake, jobVars, loopVars, runVars,
                 ctxDone, running, closed>>

Tick ==
  /\ now < LastTick
  /\ now' = now + 1
  /\ UNCHANGED <<plan, wake, jobVars, loopVars, runVars, lifeVars>>

CronNext ==
  \/ \E j \in Jobs : AddJob(j) \/ TriggerWake(j) \/ RunEnds(j)
  \/ StartEngine \/ Scan \/ Arm \/ Select
  \/ Interrupt \/ StopEngine \/ StopReturns
  \/ Tick

CronSpec == CronInit /\ [][CronNext]_cronVars

(* The loop and the calls run on, time passes, and a run whose context is   *)
(* cancelled ends: every wait of a brain's step watches its context.  Calls *)
(* are finitely many, and runs are once no more begin, so that each has its *)
(* turn.                                                                    *)
CronFairness ==
  /\ WF_cronVars(Scan \/ Arm \/ Select)
  /\ WF_cronVars(StopReturns)
  /\ WF_cronVars(loop # "off" /\ Tick)
  /\ WF_cronVars(\E j \in Jobs : TriggerWake(j))
  /\ WF_cronVars(ctxDone /\ \E j \in Jobs : RunEnds(j))

-----------------------------------------------------------------------------
(* The loop never sleeps past a run: while it waits, the timer is set no    *)
(* later than every job's next run, or the loop is about to be woken, also  *)
(* for a job that was added after the loop looked (engine.go:119-137,       *)
(* 239-260).                                                                *)
SleepsNoLongerThanDue ==
  loop = "wait" =>
    \A j \in added :
      \/ nextRun[j] = Zero
      \/ timer <= nextRun[j] \/ timer <= now
      \/ wake = 1 \/ owed # {}

(* A job runs at most once for each time its schedule matches, or for each  *)
(* period, however late the loop gets to it and however often it is woken   *)
(* (engine.go:215-231).                                                     *)
(* Only a schedule that never matches escapes: its zero next run is due on  *)
(* every pass.                                                              *)
RunsOncePerDue ==
  \A j \in Jobs :
    /\ plan[j].every > 0 => launches[j] * plan[j].every < now
    /\ (plan[j].every = 0 /\ \E x \in plan[j].at : x > LastTick) =>
         launches[j] <= Cardinality({x \in plan[j].at : x <= now})

(* Once Stop has waited, the loop is gone and no run is in flight           *)
(* (engine.go:187, "waits for inflight jobs to finish").                    *)
StopIsFinal ==
  (stopper = "returned" /\ loop # "off") =>
    loop = "gone" /\ \A j \in Jobs : inFlight[j] = 0

CronOnTime == SleepsNoLongerThanDue /\ RunsOncePerDue /\ StopIsFinal

(* A due job is taken up, unless the engine is being shut down, and Stop,   *)
(* which only waits until it returns, does so (engine.go:186-206).          *)
OverDue(j) == loop # "off" /\ j \in added /\ nextRun[j] \in 1 .. now
CronProgress ==
  \A j \in Jobs :
    (OverDue(j) \/ stopper = "waiting") ~>
      (stopper # "waiting" /\ (nextRun[j] \notin 1 .. now \/ ctxDone))
=============================================================================
