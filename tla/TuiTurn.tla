------------------------------ MODULE TuiTurn ------------------------------
(***************************************************************************)
(* The terminal front end of internal/adapters/tui/app.go around Brain.Step *)
(* (wired in cmd/agis/main.go): the update loop, the goroutine that runs a  *)
(* step, the commands that wait for a token or for an approval request, and *)
(* the channels between them.                                              *)
(*                                                                         *)
(* A command runs in a goroutine of its own and hands its message to the    *)
(* update loop when the loop takes it, so messages of different commands    *)
(* arrive in any order.  The step is reduced to what reaches the channels:  *)
(* it writes tokens, asks for approvals and returns.                        *)
(***************************************************************************)
EXTENDS Integers, FiniteSets

CONSTANTS
  StreamCap,   (* capacity of the token channel, 64 in main.go               *)
  MayCancel,   (* bound: the user may press CtrlC during a turn              *)
  MaxTurns,    (* bound: turns submitted                                     *)
  MaxTokens,   (* bound: tokens a step writes                                *)
  MaxAsks      (* bound: approvals asked for, over all turns                 *)

ASSUME TuiAssumption ==
  /\ StreamCap \in Nat \ {0}
  /\ MayCancel \in BOOLEAN
  /\ {MaxTurns, MaxTokens, MaxAsks} \subseteq Nat

NoAsk == 0
AskIds == 0 .. MaxAsks

VARIABLES
  ui,        (* the update loop: ready, blocked in resolveApproval, or quit  *)
  streaming, cancelled, closing,       (* the flags of Model                 *)
  pending,   (* the ask the prompt shows                                     *)
  answerFor, (* the ask the blocked resolveApproval answers                  *)
  step,      (* the goroutine that runs Brain.Step                           *)
  ctxDone,   (* its context is cancelled                                     *)
  asked,     (* the asks made so far; the last is the one it waits for       *)
  queued, closed,                      (* the token channel                  *)
  errCh,     (* results held by errCh                                        *)
  readers,   (* waitToken commands waiting on the channel                    *)
  watchers,  (* waitApproval commands waiting for a request                  *)
  tokens, dones, prompts, farewell,    (* messages on their way to Update    *)
  emitted, painted,                    (* tokens of this turn                *)
  settled,   (* the last ask settled by an answer, and the ask it was for    *)
  abandoned, (* history: the asks over before their prompt was answered, by  *)
             (* the step's cancellation or by the answer to such a prompt    *)
  crashed,   (* the process died of a panic                                  *)
  turns

screen  == <<ui, streaming, cancelled, closing, pending, answerFor>>
channel == <<queued, closed, errCh>>
mail    == <<tokens, dones, prompts, farewell>>
tuiVars == <<screen, step, ctxDone, asked, channel, readers, watchers, mail,
          emitted, painted, settled, abandoned, crashed, turns>>

Running == ~crashed /\ ui # "quit"
Ready   == ~crashed /\ ui = "ready"

TuiTypeOK ==
  /\ ui \in {"ready", "answering", "quit"}
  /\ {streaming, cancelled, closing, ctxDone, closed, farewell, crashed}
       \subseteq BOOLEAN
  /\ {pending, answerFor, asked} \subseteq AskIds
  /\ step \in {"none", "brain", "asking", "awaiting", "closing"}
  /\ queued \in 0 .. StreamCap
  /\ errCh \in 0 .. 1
  /\ {readers, watchers, tokens, dones, emitted, painted, turns} \subseteq Nat
  /\ prompts \subseteq AskIds
  /\ settled \in AskIds \X AskIds
  /\ abandoned \subseteq AskIds

TuiInit ==
  /\ ui = "ready"
  /\ streaming = FALSE /\ cancelled = FALSE /\ closing = FALSE
  /\ pending = NoAsk /\ answerFor = NoAsk
  /\ step = "none" /\ ctxDone = FALSE /\ asked = 0
  /\ queued = 0 /\ closed = FALSE /\ errCh = 0
  /\ readers = 0 /\ watchers = 0
  /\ tokens = 0 /\ dones = 0 /\ prompts = {} /\ farewell = FALSE
  /\ emitted = 0 /\ painted = 0 /\ settled = <<NoAsk, NoAsk>>
  /\ abandoned = {}
  /\ crashed = FALSE /\ turns = 0

-----------------------------------------------------------------------------
(* The update loop.                                                         *)

(* Enter with a message: submit starts the step and both waiting commands.  *)
(* (From the second turn on the channel is closed already, so the goroutine *)
(* that has still to close it again can be counted out: see NoPanic.)       *)
Submit ==
  /\ Ready /\ pending = NoAsk
  /\ ~streaming /\ ~closing
  /\ turns < MaxTurns
  /\ turns' = turns + 1
  /\ streaming' = TRUE /\ cancelled' = FALSE
  /\ step' = "brain" /\ ctxDone' = FALSE
  /\ readers' = readers + 1 /\ watchers' = watchers + 1
  /\ emitted' = 0 /\ painted' = 0
  /\ UNCHANGED <<ui, closing, pending, answerFor, asked, channel, mail,
                 settled, abandoned, crashed>>

UpdateToken ==
  /\ Ready /\ tokens > 0
  /\ tokens' = tokens - 1
  /\ painted' = painted + 1
  /\ readers' = readers + 1
  /\ UNCHANGED <<screen, step, ctxDone, asked, channel, watchers, dones,
                 prompts, farewell, emitted, settled, abandoned, crashed,
                 turns>>

UpdateDone ==
  /\ Ready /\ dones > 0
  /\ dones' = dones - 1
  /\ streaming' = FALSE /\ cancelled' = FALSE
  /\ UNCHANGED <<ui, closing, pending, answerFor, step, ctxDone, asked,
                 channel, readers, watchers, tokens, prompts, farewell,
                 emitted, painted, settled, abandoned, crashed, turns>>

ShowPrompt ==
  /\ Ready
  /\ \E a \in prompts : pending' = a /\ prompts' = prompts \ {a}

UpdatePromptNotRearmed ==
  /\ ShowPrompt
  /\ UNCHANGED <<ui, streaming, cancelled, closing, answerFor, step, ctxDone,
                 asked, channel, readers, watchers, tokens, dones, farewell,
                 emitted, painted, settled, abandoned, crashed, turns>>

UpdatePromptRearmingBoth ==
  /\ ShowPrompt
  /\ watchers' = watchers + 1
  /\ readers' = readers + 1
  /\ UNCHANGED <<ui, streaming, cancelled, closing, answerFor, step, ctxDone,
                 asked, channel, tokens, dones, farewell, emitted, painted,
                 settled, abandoned, crashed, turns>>

(* An approval request is shown and the next waiter armed. *)
UpdatePrompt ==
  /\ ShowPrompt
  /\ watchers' = watchers + 1
  /\ UNCHANGED <<ui, streaming, cancelled, closing, answerFor, step, ctxDone,
                 asked, channel, readers, tokens, dones, farewell, emitted,
                 painted, settled, abandoned, crashed, turns>>

ResolveApprovalKeepingPrompt ==
  /\ Ready /\ pending # NoAsk
  /\ ui' = "answering"
  /\ answerFor' = pending
  /\ UNCHANGED <<streaming, cancelled, closing, pending, step, ctxDone,
                 asked, channel, readers, watchers, mail, emitted, painted,
                 settled, abandoned, crashed, turns>>

(* A key answers the prompt: resolveApproval clears it and blocks in the    *)
(* send on approvalResp.                                                    *)
ResolveApproval ==
  /\ Ready /\ pending # NoAsk
  /\ ui' = "answering"
  /\ answerFor' = pending
  /\ pending' = NoAsk
  /\ UNCHANGED <<streaming, cancelled, closing, step, ctxDone, asked,
                 channel, readers, watchers, mail, emitted, painted, settled,
                 abandoned, crashed, turns>>

(* CtrlC or Esc without a prompt: handleQuit. *)
Interrupt ==
  /\ Ready /\ pending = NoAsk
  /\ \/ /\ streaming /\ ~cancelled /\ MayCancel
        /\ cancelled' = TRUE /\ ctxDone' = TRUE
        /\ UNCHANGED <<ui, closing>>
     \/ /\ \/ streaming /\ cancelled
           \/ ~streaming /\ closing
        /\ ui' = "quit"
        /\ UNCHANGED <<cancelled, ctxDone, closing>>
     \/ /\ ~streaming /\ ~closing
        /\ closing' = TRUE
        /\ UNCHANGED <<ui, cancelled, ctxDone>>
  /\ UNCHANGED <<streaming, pending, answerFor, step, asked, channel,
                 readers, watchers, mail, emitted, painted, settled,
                 abandoned, crashed, turns>>

(* closeSession is bounded by its timeout and always answers. *)
SessionClosed ==
  /\ Running /\ closing /\ ~farewell
  /\ farewell' = TRUE
  /\ UNCHANGED <<screen, step, ctxDone, asked, channel, readers, watchers,
                 tokens, dones, prompts, emitted, painted, settled,
                 abandoned, crashed, turns>>

UpdateClosed ==
  /\ Ready /\ farewell
  /\ ui' = "quit"
  /\ UNCHANGED <<streaming, cancelled, closing, pending, answerFor, step,
                 ctxDone, asked, channel, readers, watchers, mail, emitted,
                 painted, settled, abandoned, crashed, turns>>

-----------------------------------------------------------------------------
(* The commands.                                                            *)

ReadDoneWhenClosed ==
  /\ Running /\ readers > 0
  /\ errCh > 0
  /\ readers' = readers - 1 /\ errCh' = errCh - 1 /\ dones' = dones + 1
  /\ UNCHANGED <<queued, tokens>>

(* A closed and empty channel makes waitToken read the step's result. *)
ReadDone ==
  /\ Running /\ readers > 0
  /\ queued = 0 /\ closed /\ errCh > 0
  /\ readers' = readers - 1 /\ errCh' = errCh - 1 /\ dones' = dones + 1
  /\ UNCHANGED <<queued, tokens>>

ReadToken ==
  /\ Running /\ readers > 0
  /\ queued > 0
  /\ readers' = readers - 1 /\ queued' = queued - 1 /\ tokens' = tokens + 1
  /\ UNCHANGED <<errCh, dones>>

WaitToken ==
  /\ ReadToken \/ ReadDone
  /\ UNCHANGED <<screen, step, ctxDone, asked, closed, watchers, prompts,
                 farewell, emitted, painted, settled, abandoned, crashed,
                 turns>>

-----------------------------------------------------------------------------
(* The step and its sink.                                                   *)

EmitTokenUnbounded ==
  /\ Running /\ step = "brain"
  /\ emitted < MaxTokens
  /\ queued' = queued + 1 /\ emitted' = emitted + 1
  /\ UNCHANGED <<screen, step, ctxDone, asked, closed, errCh, readers,
                 watchers, mail, painted, settled, abandoned, crashed,
                 turns>>

(* The sink sends on the channel, which blocks while it is full, whatever   *)
(* the context says, and panics once it has been closed.                    *)
EmitToken ==
  /\ Running /\ step = "brain"
  /\ emitted < MaxTokens
  /\ \/ /\ closed
        /\ crashed' = TRUE
        /\ UNCHANGED <<queued, emitted>>
     \/ /\ ~closed /\ queued < StreamCap
        /\ queued' = queued + 1 /\ emitted' = emitted + 1
        /\ UNCHANGED crashed
  /\ UNCHANGED <<screen, step, ctxDone, asked, closed, errCh, readers,
                 watchers, mail, painted, settled, abandoned, turns>>

(* The guard says ask: the approver offers the request. *)
Ask ==
  /\ Running /\ step = "brain"
  /\ asked < MaxAsks
  /\ asked' = asked + 1
  /\ step' = "asking"
  /\ UNCHANGED <<screen, ctxDone, channel, readers, watchers, mail, emitted,
                 painted, settled, abandoned, crashed, turns>>

(* A waitApproval command takes the request. *)
OfferTaken ==
  /\ Running /\ step = "asking"
  /\ watchers > 0
  /\ watchers' = watchers - 1
  /\ prompts' = prompts \union {asked}
  /\ step' = "awaiting"
  /\ UNCHANGED <<screen, ctxDone, asked, channel, readers, tokens, dones,
                 farewell, emitted, painted, settled, abandoned, crashed,
                 turns>>

(* The second select of the approver takes whatever the update loop sends.  *)
AnswerTaken ==
  /\ Running /\ step = "awaiting"
  /\ ui = "answering"
  /\ ui' = "ready" /\ answerFor' = NoAsk
  /\ settled' = <<asked, answerFor>>
  /\ abandoned' = IF asked = answerFor THEN abandoned
                  ELSE abandoned \union {asked}
  /\ step' = "brain"
  /\ UNCHANGED <<streaming, cancelled, closing, pending, ctxDone, asked,
                 channel, readers, watchers, mail, emitted, painted, crashed,
                 turns>>

(* Either select may see the cancelled context and deny. *)
DenyCancelled ==
  /\ Running /\ step \in {"asking", "awaiting"}
  /\ ctxDone
  /\ step' = "brain"
  /\ abandoned' = abandoned \union {asked}
  /\ UNCHANGED <<screen, ctxDone, asked, channel, readers, watchers, mail,
                 emitted, painted, settled, crashed, turns>>

(* Step returns and its result goes into errCh. *)
StepReturns ==
  /\ Running /\ step = "brain"
  /\ errCh = 0
  /\ errCh' = 1
  /\ step' = "closing"
  /\ UNCHANGED <<screen, ctxDone, asked, queued, closed, readers, watchers,
                 mail, emitted, painted, settled, abandoned, crashed, turns>>

CloseStream ==
  /\ Running /\ step = "closing"
  /\ step' = "none"
  /\ IF closed THEN crashed' = TRUE /\ UNCHANGED closed
               ELSE closed' = TRUE /\ UNCHANGED crashed
  /\ UNCHANGED <<screen, ctxDone, asked, queued, errCh, readers, watchers,
                 mail, emitted, painted, settled, abandoned, turns>>

Update   == UpdateToken \/ UpdateDone \/ UpdatePrompt \/ UpdateClosed
User     == Submit \/ ResolveApproval \/ Interrupt
Approver == Ask \/ OfferTaken \/ AnswerTaken \/ DenyCancelled
Goroutine == EmitToken \/ Approver \/ StepReturns \/ CloseStream
TuiNext == User \/ Update \/ SessionClosed \/ WaitToken \/ Goroutine

TuiSpec == TuiInit /\ [][TuiNext]_tuiVars

(* Commands run, the loop takes every message, the approver's selects are   *)
(* taken, the step ends by itself and the user answers what he is asked.    *)
TuiFairness ==
  /\ WF_tuiVars(UpdateToken) /\ WF_tuiVars(UpdateDone)
  /\ WF_tuiVars(UpdatePrompt) /\ WF_tuiVars(WaitToken)
  /\ WF_tuiVars(OfferTaken) /\ WF_tuiVars(AnswerTaken)
  /\ WF_tuiVars(DenyCancelled)
  /\ WF_tuiVars(StepReturns) /\ WF_tuiVars(CloseStream)
  /\ WF_tuiVars(ResolveApproval)

-----------------------------------------------------------------------------
(* The tokens of a turn reach the screen in the order they were written:    *)
(* there is never more than one reader of the channel, counting the message *)
(* it turned into (waitToken is re-armed only by the message it produced).  *)
OneTokenReader == readers + tokens + dones <= 1

(* When a turn is declared finished everything the step wrote has been      *)
(* painted: the result is read only from a closed, empty channel            *)
(* (app.go:566-576).                                                        *)
FinishedTurnIsPainted ==
  (turns > 0 /\ ~streaming) => painted = emitted /\ queued = 0

(* minimal-tui/spec.md:10: tokens are painted as they arrive, in the order  *)
(* the model wrote them, and all of them.                                   *)
TokensInOrder == OneTokenReader /\ FinishedTurnIsPainted

(* While a step waits for its first request to be taken there is a command  *)
(* to take it, so asking never blocks the step (app.go:385-389 and 549).    *)
SomebodyTakesTheAsk == step = "asking" => watchers + Cardinality(prompts) > 0

(* minimal-tui/spec.md:51: the prompt shows the exact action the choice is  *)
(* about, so an answer settles the ask whose prompt was shown; only the     *)
(* prompt a cancelled step left behind can settle another.                  *)
AnswerSettlesItsAsk == settled[1] = settled[2] \/ settled[2] \in abandoned

(* tasks.md:49 of the m4 change: asking blocks the step's goroutine without *)
(* freezing the update loop; the loop's send has somebody to receive it,    *)
(* unless the prompt it answers outlived its step.                          *)
LoopNotFrozen ==
  ui = "answering" => step = "awaiting" \/ answerFor \in abandoned

(* The question and its answer find each other across the two channels      *)
(* between the step's goroutine and the update loop (main.go:202-221).      *)
ApprovalsReachTheirAsk ==
  SomebodyTakesTheAsk /\ AnswerSettlesItsAsk /\ LoopNotFrozen

(* What the user sees of a turn and answers in it is the turn's own.        *)
TurnReachesUser == TokensInOrder /\ ApprovalsReachTheirAsk

(* app.go:153-159: the submit goroutine closes the channel when Step        *)
(* returns, the signal that streaming finished; nobody writes to it or      *)
(* closes it again.                                                         *)
NoPanic == ~crashed

(* A submitted turn ends, however often it asks and whenever it is          *)
(* cancelled, unless the user leaves or answers a prompt that outlived its  *)
(* step.                                                                    *)
TurnFinishes ==
  streaming ~> (~streaming \/ ~Running \/ answerFor \in abandoned)
=============================================================================
