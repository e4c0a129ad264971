------------------------------ MODULE MCBrain -------------------------------
(* A brain in the rounds of one step, with a tool to load and a tool that is *)
(* offered once loaded; or a brain in several steps of one conversation,     *)
(* with load_tool alone to run and the curator's cadence; or the index of    *)
(* what the brain's memory holds.                                            *)
EXTENDS BrainTurn, EmbeddingIndex, TLC
CONSTANTS load, mcp, profile, project
AllRunners  == {load, mcp}
CoreRunners == {load}
ShellRunner == {mcp}

(* Two topics, saved alone or together. *)
TwoTopics == {profile, project}
SmallBatches == {<<profile>>, <<profile, project>>}

(* The conversation of several steps has load_tool alone. *)
ASSUME StepsAssumption == load \in Runners

Steps == INSTANCE BrainTurn WITH
  Runners <- {load}, Core <- {load}, Shells <- {},
  ToolSearch <- FALSE, Threshold <- 2, TailLimit <- 3, MaxTurns <- 1,
  MaxSteps <- 4, MaxCalls <- 1, Disobedience <- 2

VARIABLE part
BrainInit == part \in {"rounds", "steps", "index"} /\ Init /\ IndexInit
InRounds(A) == part = "rounds" /\ A /\ UNCHANGED <<part, indexVars>>
InSteps(A)  == part = "steps" /\ A /\ UNCHANGED <<part, indexVars>>
BrainNext == \/ InRounds(Next) \/ InSteps(Steps!Next)
             \/ part = "index" /\ IndexNext /\ UNCHANGED <<part, vars>>
BrainSpec ==
  /\ BrainInit /\ [][BrainNext]_<<part, vars, indexVars>>
  /\ WF_<<part, vars>>(InRounds(Goes))
  /\ WF_<<part, vars>>(InSteps(Steps!Goes))
  /\ IndexFairness

BrainTypeOK == TypeOK /\ IndexTypeOK

(* What the limit of rounds and the pruning of tools promise of each round. *)
RoundsKeepLimits ==
  part = "rounds" => NothingRunsPastLimit /\ AdvertisedWasLoaded

(* Saved observations get their vectors, and Close gets past the worker.    *)
IndexProgress == SavedIsEmbedded /\ CloseEnds
=============================================================================
