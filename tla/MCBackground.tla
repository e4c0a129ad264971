---------------------------- MODULE MCBackground ----------------------------
(* What goes on beside the conversations: a behaviour has one of the cron    *)
(* engine, an MCP client whose transport is up, and an MCP manager that is   *)
(* enabled.                                                                  *)
EXTENDS CronEngine, McpClient, McpManager, TLC
CONSTANTS lazy, eager, t1, t2

(* Two servers, the lazy one with two calls for it. *)
AllServers == {lazy, eager}
LazyServer == {lazy}
TwoCalls   == {t1, t2}
BothLazy   == t1 :> lazy @@ t2 :> lazy

(* The engine has a job that matches twice, and then not for long, and       *)
(* either one that never matches or one that is run every second minute.    *)
Daily == [every |-> 0, at |-> {2, 3, 99}]
Timed == [every |-> 2, at |-> {}]
Never == [every |-> 0, at |-> {}]
TwoJobs == {1, 2}
JobPlans == {<<Daily, Never>>, <<Daily, Timed>>}

VARIABLE part

BackgroundInit ==
  /\ part \in {"cron", "client", "manager"}
  /\ CronInit /\ (part # "cron" => plan = CHOOSE p \in Plans : TRUE)
  /\ ClientInit /\ (part = "client") = (link # "none")
  /\ ManagerInit /\ (part = "manager") = (phase # "off")

BackgroundNext ==
  \/ part = "cron" /\ CronNext
     /\ UNCHANGED <<part, clientVars, managerVars>>
  \/ part = "client" /\ ClientNext
     /\ UNCHANGED <<part, cronVars, managerVars>>
  \/ part = "manager" /\ ManagerNext
     /\ UNCHANGED <<part, cronVars, clientVars>>

BackgroundSpec ==
  /\ BackgroundInit
  /\ [][BackgroundNext]_<<part, cronVars, clientVars, managerVars>>
  /\ CronFairness /\ ClientFairness /\ ManagerFairness

BackgroundTypeOK == CronTypeOK /\ ClientTypeOK /\ ManagerTypeOK

(* No caller of a client is left waiting, and the manager stops.            *)
McpSettles == NobodyLeftWaiting /\ ServersComeToRest
=============================================================================
