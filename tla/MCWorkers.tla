----------------------------- MODULE MCWorkers ------------------------------
(* What a turn waits for: a behaviour has the calls of the sub-agent engine, *)
(* one request over a chain of providers, or an MCP server's process.        *)
EXTENDS SubagentEngine, FallbackStream, StdioTransport

VARIABLE part
WorkersInit ==
  /\ part \in {"engine", "chain", "stdio"}
  /\ Init /\ StreamInit /\ StdioInit
  /\ (part = "chain") <=> (mode # "off")
  /\ (part = "stdio") <=> (child # "none")
WorkersNext ==
  \/ part = "engine" /\ Next /\ UNCHANGED <<part, streamVars, stdioVars>>
  \/ part = "chain" /\ StreamNext /\ UNCHANGED <<part, vars, stdioVars>>
  \/ part = "stdio" /\ StdioNext /\ UNCHANGED <<part, vars, streamVars>>
WorkersSpec ==
  /\ WorkersInit
  /\ [][WorkersNext]_<<part, vars, streamVars, stdioVars>>
  /\ Fairness /\ StreamFairness /\ StdioFairness

WorkersTypeOK == TypeOK /\ StreamTypeOK /\ StdioTypeOK

(* What comes over a stream, of a provider or of a server's output, is whole *)
(* and in its order.                                                         *)
StreamsAreWhole == FailoverIsSeamless /\ LinesArrive

(* The chain and the transport implement an ordered stream: nothing that was *)
(* sent is skipped, repeated or heard out of order, and a listener who did   *)
(* not stop it takes it for whole only when it is, also when what it sends   *)
(* is decided only after another provider failed, or the child died.         *)
ImplementStreams == Answer!Spec /\ Output!Spec

(* A cancelled stream ends, and so does a transport that is closed.          *)
StreamsComeToRest == CancelledStreamEnds /\ StdioComesToRest
=============================================================================
