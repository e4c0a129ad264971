--------------------------- MODULE FallbackStream ---------------------------
(***************************************************************************)
(* FallbackProvider (internal/adapters/llm/fallback.go): one request over   *)
(* an ordered chain of providers, streamed or not.  A streamed one runs a   *)
(* goroutine between the stream of the provider being tried and its own     *)
(* consumer, the loop of Brain.runTurns, which reads until the close.       *)
(* Each provider's adapter (Client.Stream, Anthropic.Stream) is a goroutine *)
(* that sends on an unbuffered channel whatever its context says.           *)
(***************************************************************************)
EXTENDS Integers, Sequences

CONSTANTS
  ChainLength,  (* the providers, in the order they are tried                *)
  MaxText       (* bound: tokens a provider streams                          *)

ASSUME ChainAssumption == ChainLength \in Nat /\ MaxText \in Nat

Chain  == 1 .. ChainLength
Errors == {"transient", "fatal"}

VARIABLES
  mode,       (* "off", or the request is "chat" or "stream"                 *)
  at,         (* where Chat, or Stream's goroutine, stands                   *)
  trying,     (* the provider being tried                                    *)
  adapter,    (* each adapter: "unused", "reading", "sending",               *)
              (* "closing" or "ended"                                        *)
  sends,      (* the event it sends: "token" or an error                     *)
  streamed,   (* history: tokens an adapter has sent                         *)
  fate,       (* history: how a provider's answer ended                      *)
  spoken,     (* tokensEmitted                                               *)
  delivered,  (* the providers of the tokens, or of the answer, handed over  *)
  failed,     (* the consumer was given an error                             *)
  cancelled,  (* the request's context is done                               *)
  abandoned   (* history: the goroutine left an adapter that was not done    *)

adapters == <<adapter, sends, streamed, fate>>
outcome  == <<delivered, failed>>
streamVars == <<mode, at, trying, adapters, spoken, outcome, cancelled,
                abandoned>>

StreamTypeOK ==
  /\ mode \in {"off", "chat", "stream"}
  /\ at \in {"choosing", "reading", "holding", "draining", "failing", "done"}
  /\ trying \in 1 .. ChainLength + 1
  /\ adapter \in [Chain -> {"unused", "reading", "sending", "closing", "ended"}]
  /\ sends \in [Chain -> {"token"} \union Errors]
  /\ streamed \in [Chain -> 0 .. MaxText]
  /\ fate \in [Chain -> {"open", "complete"} \union Errors]
  /\ delivered \in Seq(Chain)
  /\ {spoken, failed, cancelled, abandoned} \subseteq BOOLEAN

StreamInit ==
  /\ mode \in {"off", "chat", "stream"}
  /\ at = "choosing" /\ trying = 1
  /\ adapter = [p \in Chain |-> "unused"]
  /\ sends = [p \in Chain |-> "token"]
  /\ streamed = [p \in Chain |-> 0]
  /\ fate = [p \in Chain |-> "open"]
  /\ spoken = FALSE /\ delivered = <<>> /\ failed = FALSE
  /\ cancelled = FALSE /\ abandoned = FALSE

CancelStream ==
  /\ mode # "off"
  /\ ~cancelled
  /\ cancelled' = TRUE
  /\ UNCHANGED <<mode, at, trying, adapters, spoken, outcome, abandoned>>

-----------------------------------------------------------------------------
(* The adapter's goroutine. *)

AdapterReads(p) ==
  /\ adapter[p] = "reading"
  /\ \/ /\ streamed[p] < MaxText
        /\ streamed' = [streamed EXCEPT ![p] = @ + 1]
        /\ sends' = [sends EXCEPT ![p] = "token"]
        /\ UNCHANGED fate
     \/ \E e \in Errors : /\ sends' = [sends EXCEPT ![p] = e]
                          /\ fate' = [fate EXCEPT ![p] = e]
                          /\ UNCHANGED streamed
  /\ adapter' = [adapter EXCEPT ![p] = "sending"]
  /\ UNCHANGED <<mode, at, trying, spoken, outcome, cancelled, abandoned>>

(* The end of the answer, or an error event handed over, closes it.         *)
AdapterEnds(p) ==
  /\ adapter[p] \in {"reading", "closing"}
  /\ adapter' = [adapter EXCEPT ![p] = "ended"]
  /\ fate' = IF adapter[p] = "reading" THEN [fate EXCEPT ![p] = "complete"]
             ELSE fate
  /\ UNCHANGED <<mode, at, trying, sends, streamed, spoken, outcome,
                 cancelled, abandoned>>

(* A mutant: the adapter reads on after an error.                           *)
TakenGoesOn(p) == adapter' = [adapter EXCEPT ![p] = "reading"]
(* Its event is taken; after an error it returns, which closes the channel. *)
Taken(p) ==
  adapter' = [adapter EXCEPT ![p] = IF sends[p] = "token" THEN "reading"
                                    ELSE "closing"]

-----------------------------------------------------------------------------
(* Chat and Stream, from provider to provider.                              *)

(* The chain is exhausted, or the context is done before the next try.      *)
GiveUpChain ==
  /\ mode # "off" /\ at = "choosing"
  /\ cancelled \/ trying > ChainLength
  /\ at' = "failing"
  /\ UNCHANGED <<mode, trying, adapters, spoken, outcome, cancelled, abandoned>>

(* The provider refuses the request: a transient error moves on to the next *)
(* one, any other is the request's.                                         *)
ProviderRefuses ==
  /\ mode # "off" /\ at = "choosing"
  /\ ~cancelled /\ trying \in Chain
  /\ \E e \in Errors :
       /\ fate' = [fate EXCEPT ![trying] = e]
       /\ \/ e = "transient" /\ trying' = trying + 1 /\ UNCHANGED at
          \/ e = "fatal" /\ at' = "failing" /\ UNCHANGED trying
  /\ UNCHANGED <<mode, adapter, sends, streamed, spoken, outcome, cancelled,
                 abandoned>>

ChatAnswers ==
  /\ mode = "chat" /\ at = "choosing"
  /\ ~cancelled /\ trying \in Chain
  /\ fate' = [fate EXCEPT ![trying] = "complete"]
  /\ delivered' = <<trying>>
  /\ at' = "done"
  /\ UNCHANGED <<mode, trying, adapter, sends, streamed, spoken, failed,
                 cancelled, abandoned>>

StreamOpens ==
  /\ mode = "stream" /\ at = "choosing"
  /\ ~cancelled /\ trying \in Chain
  /\ adapter' = [adapter EXCEPT ![trying] = "reading"]
  /\ at' = "reading"
  /\ UNCHANGED <<mode, trying, sends, streamed, fate, spoken, outcome,
                 cancelled, abandoned>>

(* A mutant: a transient error starts the next provider at any time.        *)
FailsOverOn(e) == e = "transient"
(* Only before the first token. *)
FailsOver(e) == ~spoken /\ e = "transient"

ReadEvent ==
  /\ at = "reading" /\ adapter[trying] = "sending"
  /\ Taken(trying)
  /\ LET e == sends[trying] IN
       \/ e = "token" /\ at' = "holding" /\ spoken' = TRUE
       \/ e # "token" /\ FailsOver(e) /\ at' = "draining" /\ UNCHANGED spoken
       \/ e # "token" /\ ~FailsOver(e) /\ at' = "failing" /\ UNCHANGED spoken
  /\ UNCHANGED <<mode, trying, sends, streamed, fate, outcome, cancelled,
                 abandoned>>

ReadClose ==
  /\ at = "reading" /\ adapter[trying] = "ended"
  /\ at' = "done"
  /\ UNCHANGED <<mode, trying, adapters, spoken, outcome, cancelled, abandoned>>

(* The failed stream is read to its close before the next one is opened.    *)
Drain ==
  /\ at = "draining"
  /\ adapter[trying] = "ended"
  /\ at' = "choosing" /\ trying' = trying + 1
  /\ UNCHANGED <<mode, adapters, spoken, outcome, cancelled, abandoned>>

(* The consumer takes the token. *)
HandOn ==
  /\ at = "holding"
  /\ delivered' = Append(delivered, trying)
  /\ at' = "reading"
  /\ UNCHANGED <<mode, trying, adapters, spoken, failed, cancelled, abandoned>>

(* The select sees the context instead: the goroutine returns, nobody reads *)
(* the adapter's channel any more.                                          *)
LeaveHeld ==
  /\ at = "holding" /\ cancelled
  /\ abandoned' = TRUE
  /\ at' = "done"
  /\ UNCHANGED <<mode, trying, adapters, spoken, outcome, cancelled>>

(* A mutant: the stream ends without its error.                             *)
EndSilently ==
  /\ at = "failing"
  /\ at' = "done"
  /\ UNCHANGED <<mode, trying, adapters, spoken, outcome, cancelled, abandoned>>

(* The error is the last event, or Chat's result. *)
HandOnError ==
  /\ at = "failing"
  /\ failed' = TRUE
  /\ at' = "done"
  /\ UNCHANGED <<mode, trying, adapters, spoken, delivered, cancelled,
                 abandoned>>

Between == GiveUpChain \/ ProviderRefuses \/ ChatAnswers \/ StreamOpens
Within  == ReadEvent \/ ReadClose \/ Drain \/ HandOn \/ LeaveHeld \/ HandOnError
Adapter(p) == AdapterReads(p) \/ AdapterEnds(p)

StreamNext ==
  \/ CancelStream \/ Between \/ Within
  \/ \E p \in Chain : Adapter(p)

(* The goroutine goes on, and the consumer reads until the close.  What the *)
(* provider does is up to it, until the context closes its response body    *)
(* and a blocked read returns.                                              *)
StreamFairness ==
  /\ WF_streamVars(Between)
  /\ WF_streamVars(Within)
  /\ \A p \in Chain :
       WF_streamVars((cancelled \/ adapter[p] = "closing") /\ Adapter(p))

-----------------------------------------------------------------------------
(* Tokens of a provider between its adapter and the consumer. *)
Underway(p) ==
  (IF at = "holding" THEN 1 ELSE 0)
    + (IF adapter[p] = "sending" /\ sends[p] = "token" THEN 1 ELSE 0)

(* RES-FALL-004: the consumer hears one provider only, all before it failed *)
(* transiently and said nothing, and what it hears is all that provider     *)
(* sent, less the token on its way.                                         *)
OneProviderSpeaks ==
  /\ \A i \in DOMAIN delivered : delivered[i] = trying
  /\ \A p \in Chain : p < trying =>
       /\ fate[p] = "transient" /\ streamed[p] = 0
       /\ adapter[p] \in {"unused", "ended"}
  /\ \A p \in Chain : p > trying => adapter[p] = "unused" /\ fate[p] = "open"
  /\ (mode = "stream" /\ trying \in Chain /\ ~abandoned) =>
       streamed[trying] = Len(delivered) + Underway(trying)

(* A stream that closes without an error is the whole answer of a provider  *)
(* that ended it, unless the request was cancelled, which Step checks next. *)
ClosedMeansComplete ==
  (at = "done" /\ ~failed /\ ~abandoned) => fate[trying] = "complete"

FailoverIsSeamless == OneProviderSpeaks /\ ClosedMeansComplete

(* To who listens to a streamed request the chain is one stream of the      *)
(* provider that speaks; of another it hears the end.                       *)
AnswerSent ==
  IF mode = "stream" /\ trying \in Chain
  THEN [i \in 1 .. streamed[trying] |-> trying] ELSE <<>>
AnswerHeard == IF mode = "stream" THEN delivered ELSE <<>>
AnswerEnd ==
  CASE at # "done" -> "open"
    [] at = "done" /\ failed -> "broken"
    [] at = "done" /\ ~failed /\ abandoned -> "cut"
    [] at = "done" /\ ~failed /\ ~abandoned -> "whole"
Answer == INSTANCE OrderedStream
  WITH Items <- Chain, sent <- AnswerSent,
       heard <- AnswerHeard, end <- AnswerEnd, stopped <- cancelled

(* A cancelled request ends, and leaves no adapter behind that still wants  *)
(* to send, unless it ended while it held a token (fallback.go:154-156).    *)
CancelledStreamEnds ==
  (cancelled /\ mode # "off") ~>
    (at = "done" /\ (abandoned \/ \A p \in Chain : adapter[p] \in {"unused", "ended"}))
=============================================================================
