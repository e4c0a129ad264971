----------------------------- MODULE BrainTurn -----------------------------
(***************************************************************************)
(* One Brain of internal/core/brain.go working on one conversation: Step   *)
(* persists the user's message, loads the tail, runs the bounded tool loop *)
(* of runTurns, persists the reply and nudges the curator on its cadence.  *)
(*                                                                         *)
(* The provider is a goroutine that sends events on an unbuffered channel  *)
(* and closes it; a tool call goes through the policy guard, perhaps the   *)
(* approver, and its runner.  The guard's verdict, the approver's answer,  *)
(* the runner's outcome and every repository error are chosen freely.      *)
(* The text of messages is left out: an entry of the message slice is its  *)
(* role, the calls a request carries, or the call a result answers.        *)
(***************************************************************************)
EXTENDS Integers, Sequences, FiniteSets

CONSTANTS
  Runners,          (* names of the registered tools; empty: tools are off   *)
  Core,             (* those isCoreTool accepts                              *)
  Names,            (* the names a model may call, registered or not         *)
  LoadTool,         (* the name load_tool                                    *)
  Shells,           (* the runners that take a command line                  *)
  Nothing,          (* the argument of a call that names no tool             *)
  ToolSearch,       (* tool search is enabled                                *)
  Threshold,        (* the tool count above which pruning starts             *)
  MaxTurns,         (* b.maxTurns as configured                              *)
  ApproverPresent,  (* b.approver is not nil                                 *)
  NudgeEvery,       (* b.nudgeEvery                                          *)
  TailLimit,        (* tailLimit                                             *)
  MaxSteps,         (* bound: steps in a behaviour                           *)
  MaxCalls,         (* bound: tool calls in one stream                       *)
  Disobedience      (* bound: streams past the cap that still carry calls    *)

ASSUME BrainAssumption ==
  /\ Core \subseteq Runners /\ Runners \subseteq Names
  /\ LoadTool \in Names /\ Nothing \notin Names
  /\ Shells \subseteq Runners \ {LoadTool}
  /\ IsFiniteSet(Runners)
  /\ {Threshold, MaxTurns, NudgeEvery} \subseteq Int
  /\ TailLimit \in Nat \ {0}
  /\ {MaxSteps, MaxCalls, Disobedience} \subseteq Nat
  /\ {ToolSearch, ApproverPresent} \subseteq BOOLEAN

ToolsEnabled  == Runners # {}
TurnLimit     == IF MaxTurns <= 0 THEN 8 ELSE MaxTurns
PruningActive ==
  /\ ToolsEnabled /\ ToolSearch
  /\ Cardinality(Runners) > (IF Threshold <= 0 THEN 8 ELSE Threshold)

(* A tool call; only load_tool's argument matters here. *)
Calls == [name : Names \ {LoadTool}, arg : {Nothing}]
           \union [name : {LoadTool}, arg : Names]

(* What executeTool feeds back. *)
Outputs == {"unknown", "invalid", "blocked", "error", "ok"}

Entries == [kind : {"user", "assistant", "policy"}]
             \union [kind : {"request"}, calls : Seq(Calls)]
             \union [kind : {"result"}, call : Calls, out : Outputs]

VARIABLES
  pc,       (* where Step stands                                             *)
  round,    (* runTurns' round                                               *)
  messages, (* the message slice sent to the provider                        *)
  offered,  (* the tools the running request advertises                      *)
  sending,  (* a provider goroutine holds an event channel open              *)
  calls,    (* the calls the stream carried                                  *)
  next,     (* the call being executed                                       *)
  loaded,   (* loadedTools                                                   *)
  ctxDone,  (* the step's context is cancelled                               *)
  store,    (* the roles persisted in the conversation                       *)
  outcome,  (* what the last Step returned                                   *)
  replies,  (* b.assistantCount                                              *)
  nudges,   (* cadence boundaries at which maybeNudge went to work           *)
  steps     (* steps taken, for the bound                                    *)

turn == <<round, messages, offered, sending, calls, next, loaded>>
log  == <<store, replies, nudges>>
vars == <<pc, turn, ctxDone, log, outcome, steps>>

Places == {"idle", "persist", "assemble", "request", "drain", "errdrain",
           "guard", "asking", "running", "save", "nudge"}

TypeOK ==
  /\ pc \in Places
  /\ round \in Nat
  /\ messages \in Seq(Entries)
  /\ offered \subseteq Runners
  /\ sending \in BOOLEAN
  /\ calls \in Seq(Calls)
  /\ next \in Nat
  /\ loaded \subseteq Names
  /\ ctxDone \in BOOLEAN
  /\ store \in Seq({"user", "assistant"})
  /\ outcome \in {"none", "reply", "error"}
  /\ replies \in Nat /\ nudges \in Nat /\ steps \in Nat

Init ==
  /\ pc = "idle" /\ ctxDone = FALSE /\ outcome = "none"
  /\ round = 0 /\ messages = <<>> /\ offered = {} /\ sending = FALSE
  /\ calls = <<>> /\ next = 0 /\ loaded = {}
  /\ store = <<>> /\ replies = 0 /\ nudges = 0 /\ steps = 0

(* Step returns; its locals are gone, while a provider goroutine that was   *)
(* not drained would stay.                                                  *)
Return(o) ==
  /\ pc' = "idle"
  /\ outcome' = o
  /\ ctxDone' = FALSE
  /\ round' = 0 /\ messages' = <<>> /\ offered' = {}
  /\ calls' = <<>> /\ next' = 0 /\ loaded' = {}

Fail == Return("error") /\ UNCHANGED <<log, steps>>

StartStep ==
  /\ pc = "idle"
  /\ steps < MaxSteps
  /\ steps' = steps + 1
  /\ pc' = "persist"
  /\ UNCHANGED <<turn, ctxDone, log, outcome>>

(* The user's message is persisted before anything else happens. *)
PersistUser ==
  /\ pc = "persist"
  /\ \/ /\ store' = Append(store, "user")
        /\ pc' = "assemble"
        /\ UNCHANGED <<turn, ctxDone, replies, nudges, outcome, steps>>
     \/ Fail /\ UNCHANGED sending

RecentMessages(s) ==
  LET from == IF Len(s) > TailLimit THEN Len(s) - TailLimit + 1 ELSE 1
  IN  [i \in 1 .. Len(s) - from + 1 |-> [kind |-> s[from + i - 1]]]

(* The tail is read back, the system slots are put in front of it.          *)
Assemble ==
  /\ pc = "assemble"
  /\ \/ /\ messages' = RecentMessages(store)
        /\ pc' = "request"
        /\ UNCHANGED <<round, offered, sending, calls, next, loaded,
                       ctxDone, log, outcome, steps>>
     \/ Fail /\ UNCHANGED sending

CapReachedLate == ToolsEnabled /\ round > TurnLimit
CapReached     == ToolsEnabled /\ round >= TurnLimit

(* Mutants: everything on offer; what was asked for, found or not.          *)
AdvertisedRequested ==
  IF ~ToolsEnabled \/ CapReached THEN {}
  ELSE Core \union {messages[i].call.arg : i \in
                     {j \in DOMAIN messages : /\ messages[j].kind = "result"
                                              /\ messages[j].call.name = LoadTool}}
Advertised ==
  IF ~ToolsEnabled \/ CapReached THEN {}
  ELSE IF PruningActive THEN Core \union (loaded \intersect Runners)
  ELSE Runners

Request ==
  /\ pc = "request"
  /\ \/ /\ offered' = Advertised
        /\ sending' = TRUE
        /\ calls' = <<>> /\ next' = 0
        /\ pc' = "drain"
        /\ UNCHANGED <<round, messages, loaded, ctxDone, log, outcome, steps>>
     \/ Fail /\ UNCHANGED sending

(* The provider sends a tool call.  It was told which tools it may call but *)
(* may call any name, and may go on calling once nothing is offered.        *)
EmitCall ==
  /\ pc = "drain" /\ sending
  /\ Len(calls) < MaxCalls
  /\ CapReached => round < TurnLimit + Disobedience
  /\ \E c \in Calls : calls' = IF ToolsEnabled THEN Append(calls, c) ELSE calls
  /\ UNCHANGED <<pc, round, messages, offered, sending, next, loaded,
                 ctxDone, log, outcome, steps>>

EmitErrorNoDrain ==
  /\ pc = "drain" /\ sending
  /\ Fail /\ UNCHANGED sending

(* The provider sends an error event; Step reads on until the close.        *)
EmitError ==
  /\ pc = "drain" /\ sending
  /\ pc' = "errdrain"
  /\ UNCHANGED <<turn, ctxDone, log, outcome, steps>>

(* A mutant: what had been streamed is kept as the reply.                   *)
StreamFailedKeepingText ==
  /\ pc = "errdrain"
  /\ sending' = FALSE
  /\ store' = Append(store, "assistant")
  /\ replies' = replies + 1
  /\ Return("error") /\ UNCHANGED <<nudges, steps>>

StreamFailed ==
  /\ pc = "errdrain"
  /\ sending' = FALSE
  /\ Fail

RecordRequest ==
  messages' = Append(messages, [kind |-> "request", calls |-> calls])

(* The check of ctx.Err() behind the loop, and a mutant that tries again.   *)
StreamRetried ==
  /\ ctxDone
  /\ pc' = "request"
  /\ UNCHANGED <<round, messages, offered, calls, next, loaded, ctxDone, log,
                 outcome, steps>>
StreamCancelled == ctxDone /\ Fail

(* The provider closes the channel: Step returns the cancellation, keeps    *)
(* the text as the reply, refuses the calls of a round past the cap, or     *)
(* records the request and starts executing.                                *)
StreamEnds ==
  /\ pc = "drain"
  /\ sending' = FALSE
  /\ \/ StreamCancelled
     \/ /\ ~ctxDone /\ calls = <<>>
        /\ pc' = "save"
        /\ UNCHANGED <<round, messages, offered, calls, next, loaded>>
        /\ UNCHANGED <<ctxDone, log, outcome, steps>>
     \/ /\ ~ctxDone /\ calls # <<>> /\ CapReached
        /\ messages' = Append(messages, [kind |-> "policy"])
        /\ round' = round + 1
        /\ pc' = "request"
        /\ UNCHANGED <<offered, calls, next, loaded>>
        /\ UNCHANGED <<ctxDone, log, outcome, steps>>
     \/ /\ ~ctxDone /\ calls # <<>> /\ ~CapReached
        /\ RecordRequest
        /\ next' = 1
        /\ pc' = "guard"
        /\ UNCHANGED <<round, offered, calls, loaded>>
        /\ UNCHANGED <<ctxDone, log, outcome, steps>>

LoadsAnyway(out) == calls[next].name = LoadTool
Loads(out) ==
  calls[next].name = LoadTool /\ out \notin {"error", "blocked"}

(* The output of the call becomes a tool message, and the next call or the  *)
(* next round follows.                                                      *)
FeedBackUnlessBlocked(out) ==
  /\ messages' = IF out = "blocked" THEN messages
                 ELSE Append(messages, [kind |-> "result",
                                        call |-> calls[next], out |-> out])
  /\ loaded' = IF Loads(out) THEN loaded \union {calls[next].arg} ELSE loaded
  /\ \/ /\ next < Len(calls)
        /\ next' = next + 1 /\ pc' = "guard" /\ round' = round
     \/ /\ next = Len(calls)
        /\ next' = next /\ pc' = "request" /\ round' = round + 1
  /\ UNCHANGED <<offered, sending, calls, ctxDone, log, outcome, steps>>

FeedBack(out) ==
  /\ messages' = Append(messages, [kind |-> "result",
                                   call |-> calls[next], out |-> out])
  /\ loaded' = IF Loads(out) THEN loaded \union {calls[next].arg} ELSE loaded
  /\ \/ /\ next < Len(calls)
        /\ next' = next + 1 /\ pc' = "guard" /\ round' = round
     \/ /\ next = Len(calls)
        /\ next' = next /\ pc' = "request" /\ round' = round + 1
  /\ UNCHANGED <<offered, sending, calls, ctxDone, log, outcome, steps>>

Registered(c) == c.name \in Runners

(* executeTool up to the verdict of the guard. *)
Refuse ==
  /\ pc = "guard"
  /\ \/ ~Registered(calls[next]) /\ FeedBack("unknown")
     \/ calls[next].name \in Shells /\ FeedBack("invalid")
     \/ Registered(calls[next]) /\ FeedBack("blocked")

Allow ==
  /\ pc = "guard"
  /\ Registered(calls[next])
  /\ pc' = "running"
  /\ UNCHANGED <<turn, ctxDone, log, outcome, steps>>

Ask ==
  /\ pc = "guard"
  /\ Registered(calls[next])
  /\ ApproverPresent
  /\ pc' = "asking"
  /\ UNCHANGED <<turn, ctxDone, log, outcome, steps>>

(* The approver answers with a scope; deny and the empty scope block.       *)
Answer ==
  /\ pc = "asking"
  /\ \/ FeedBack("blocked")
     \/ /\ pc' = "running"
        /\ UNCHANGED <<turn, ctxDone, log, outcome, steps>>

(* load_tool finds exactly the registered tools. *)
RunOutputs(c) ==
  IF c.name # LoadTool THEN {"ok", "error"}
  ELSE IF c.arg \in Runners THEN {"ok"} ELSE {"error"}

(* The runner returns. *)
RunTool ==
  /\ pc = "running"
  /\ \E out \in RunOutputs(calls[next]) : FeedBack(out)

SaveReplyCountingFirst ==
  /\ pc = "save"
  /\ replies' = replies + 1
  /\ \/ /\ store' = Append(store, "assistant")
        /\ pc' = "nudge"
        /\ UNCHANGED <<turn, ctxDone, nudges, outcome, steps>>
     \/ Return("error") /\ UNCHANGED <<store, nudges, steps, sending>>

SaveReply ==
  /\ pc = "save"
  /\ \/ /\ store' = Append(store, "assistant")
        /\ replies' = replies + 1
        /\ pc' = "nudge"
        /\ UNCHANGED <<turn, ctxDone, nudges, outcome, steps>>
     \/ Fail /\ UNCHANGED sending

NudgeDueLate == NudgeEvery > 0 /\ (replies + 1) % NudgeEvery = 0
NudgeDue == NudgeEvery > 0 /\ replies % NudgeEvery = 0

(* Loading the messages for the nudge may fail, which is logged only.       *)
Nudge ==
  /\ pc = "nudge"
  /\ nudges' = IF NudgeDue THEN nudges + 1 ELSE nudges
  /\ Return("reply")
  /\ UNCHANGED <<store, replies, steps, sending>>

(* The caller cancels the context of the running step. *)
Cancel ==
  /\ pc # "idle"
  /\ ~ctxDone
  /\ ctxDone' = TRUE
  /\ UNCHANGED <<pc, turn, log, outcome, steps>>

Provider == EmitCall \/ EmitError \/ StreamFailed \/ StreamEnds
Tool     == Refuse \/ Allow \/ Ask \/ Answer \/ RunTool
Next ==
  \/ StartStep \/ PersistUser \/ Assemble \/ Request
  \/ Provider \/ Tool \/ SaveReply \/ Nudge \/ Cancel

Spec == Init /\ [][Next]_vars

(* Step's own code never stops; the provider, the approver and the runner   *)
(* all watch the step's context, and need come back only once it is done.   *)
Goes ==
  \/ PersistUser \/ Assemble \/ Request \/ Refuse \/ Allow \/ Ask
  \/ SaveReply \/ Nudge
  \/ ctxDone /\ (StreamEnds \/ StreamFailed \/ Answer \/ RunTool)

CancelSpec == Spec /\ WF_vars(Goes)

-----------------------------------------------------------------------------
IsResult(e)  == e.kind = "result"
IsRequest(e) == e.kind = "request"

(* Whenever the provider is called, each recorded request is followed by    *)
(* the result of each of its calls, in order and nothing in between, and no *)
(* result stands anywhere else: the protocol the comment at brain.go:400    *)
(* names, whatever was unknown, blocked, failed or cancelled on the way.    *)
RequestsFullyAnswered ==
  pc \in {"request", "drain"} =>
    /\ \A i \in DOMAIN messages : IsRequest(messages[i]) =>
         /\ i + Len(messages[i].calls) <= Len(messages)
         /\ \A k \in DOMAIN messages[i].calls :
              /\ IsResult(messages[i + k])
              /\ messages[i + k].call = messages[i].calls[k]
    /\ \A j \in DOMAIN messages : IsResult(messages[j]) =>
         \E i \in 1 .. j - 1 : /\ IsRequest(messages[i])
                               /\ j - i <= Len(messages[i].calls)

(* Outside the loop that reads a stream no provider goroutine is left       *)
(* blocked on its unbuffered channel, however Step left the loop            *)
(* (brain.go:357-363).                                                      *)
NoProviderLeftSending == sending => pc \in {"drain", "errdrain"}

(* A tool runs only in a round below the limit, and only a registered one,  *)
(* however many calls a stream past the limit carries (brain.go:386-398).   *)
NothingRunsPastLimit ==
  pc \in {"guard", "asking", "running"} => round < TurnLimit

(* While pruning is active a request advertises a tool exactly when it is   *)
(* core or this turn's messages show that load_tool came back for it        *)
(* without an error or a refusal (brain.go:332-347 and 410-417).            *)
AdvertisedWasLoaded ==
  (pc = "drain" /\ PruningActive /\ round < TurnLimit) =>
    \A r \in Runners :
      r \in offered <=>
        \/ r \in Core
        \/ \E i \in DOMAIN messages :
             /\ IsResult(messages[i])
             /\ messages[i].call = [name |-> LoadTool, arg |-> r]
             /\ messages[i].out \notin {"error", "blocked"}

(* The conversation log: a reply follows the user message it answers, the   *)
(* counter of replies agrees with the log, and a step that returned its     *)
(* reply has it at the end of the log (brain.go:286-300).                   *)
LogAnswersUser ==
  /\ \A i \in DOMAIN store :
       store[i] = "assistant" => i > 1 /\ store[i - 1] = "user"
  /\ replies = Cardinality({i \in DOMAIN store : store[i] = "assistant"})
  /\ (pc = "idle" /\ store # <<>>) =>
       (outcome = "reply" => store[Len(store)] = "assistant")

(* A step that fails, wherever it stands, adds nothing more to the log: the *)
(* user's message, unless it could not even be persisted, stays there as    *)
(* the last, and no reply is written (brain.go:232-234).                    *)
FailureLeavesQuestion ==
  (pc # "idle" /\ pc' = "idle" /\ outcome' = "error") =>
    /\ store' = store
    /\ pc # "persist" => store # <<>> /\ store[Len(store)] = "user"
FailedStepsLeaveQuestions == [][FailureLeavesQuestion]_vars

(* Between steps the curator has been nudged exactly once for every full    *)
(* cadence of persisted replies (brain.go:295-300 and 570-592).             *)
NudgedOnCadence ==
  (pc = "idle" /\ NudgeEvery > 0) => nudges = replies \div NudgeEvery

(* What a conversation and the curator see of each step, however it ended:  *)
(* log, counter and nudges agree, and a step that failed leaves its         *)
(* question to the next one (brain.go:232-234, 286-300, 570-592).           *)
StepsLeaveOrder ==
  [](LogAnswersUser /\ NudgedOnCadence) /\ FailedStepsLeaveQuestions

(* A cancelled step returns. *)
CancelledStepEnds == ctxDone ~> (pc = "idle")

=============================================================================
