--------------------------- MODULE RequestReply ----------------------------
(***************************************************************************)
(* What several callers are promised who share one connection to a server: *)
(* each has one request under way at a time and gets an answer only to that *)
(* one and only if the server received it.  While it asks it may be told of *)
(* a failure although the server did receive it; once it has asked, only    *)
(* for a reason: it gave up, the connection was lost, or it was closed.     *)
(* Nobody asks over a connection that is closed.  A server that speaks      *)
(* unasked may have that taken for the answer to a request that was asked.  *)
(***************************************************************************)
EXTENDS Naturals

CONSTANT Callers

VARIABLES stage,    (* "idle", "asking", "asked" or "done"               *)
          turn,     (* the number of each caller's present request     *)
          served,   (* the requests the server has received            *)
          answered, (* the last request each caller has an answer to,   *)
                    (* 0 if there is none or it was misled              *)
          spoke,    (* the server has spoken unasked                   *)
          gaveUp,   (* the callers that do not want to wait any longer *)
          lost,     (* the connection is gone                          *)
          closed    (* it was closed                                   *)

Init ==
  /\ stage = [c \in Callers |-> "idle"]
  /\ turn = [c \in Callers |-> 0] /\ answered = [c \in Callers |-> 0]
  /\ served = {} /\ spoke = FALSE /\ gaveUp = [c \in Callers |-> FALSE]
  /\ lost = FALSE /\ closed = FALSE

Ask(c) ==
  /\ stage[c] = "idle" /\ ~closed
  /\ stage' = [stage EXCEPT ![c] = "asking"]
  /\ turn' = [turn EXCEPT ![c] = @ + 1]
  /\ UNCHANGED <<served, answered, spoke, gaveUp, lost, closed>>

Refuse(c) ==
  /\ stage[c] = "idle" /\ closed
  /\ stage' = [stage EXCEPT ![c] = "done"]
  /\ UNCHANGED <<turn, served, answered, spoke, gaveUp, lost, closed>>

Serve(c) ==
  /\ stage[c] = "asking"
  /\ served' = served \union {<<c, turn[c]>>}
  /\ UNCHANGED <<stage, turn, answered, spoke, gaveUp, lost, closed>>

Confirm(c) ==
  /\ stage[c] = "asking" /\ <<c, turn[c]>> \in served
  /\ stage' = [stage EXCEPT ![c] = "asked"]
  /\ UNCHANGED <<turn, served, answered, spoke, gaveUp, lost, closed>>

Answer(c) ==
  /\ stage[c] = "asked" /\ <<c, turn[c]>> \in served
  /\ answered' = [answered EXCEPT ![c] = turn[c]]
  /\ \E s \in {"idle", "done"} : stage' = [stage EXCEPT ![c] = s]
  /\ UNCHANGED <<turn, served, spoke, gaveUp, lost, closed>>

Mislead(c) ==
  /\ stage[c] = "asked" /\ spoke
  /\ answered' = [answered EXCEPT ![c] = 0]
  /\ \E s \in {"idle", "done"} : stage' = [stage EXCEPT ![c] = s]
  /\ UNCHANGED <<turn, served, spoke, gaveUp, lost, closed>>

Fail(c) ==
  /\ \/ stage[c] = "asking"
     \/ stage[c] = "asked" /\ (gaveUp[c] \/ lost \/ closed)
  /\ stage' = [stage EXCEPT ![c] = "done"]
  /\ UNCHANGED <<turn, served, answered, spoke, gaveUp, lost, closed>>

GiveUp(c) ==
  /\ gaveUp' = [gaveUp EXCEPT ![c] = TRUE]
  /\ UNCHANGED <<stage, turn, served, answered, spoke, lost, closed>>

SpeakUnasked ==
  /\ spoke' = TRUE
  /\ UNCHANGED <<stage, turn, served, answered, gaveUp, lost, closed>>

Lose ==
  /\ lost' = TRUE
  /\ UNCHANGED <<stage, turn, served, answered, spoke, gaveUp, closed>>

Close ==
  /\ closed' = TRUE
  /\ UNCHANGED <<stage, turn, served, answered, spoke, gaveUp, lost>>

Next ==
  \/ \E c \in Callers : Ask(c) \/ Refuse(c) \/ Serve(c) \/ Confirm(c)
                        \/ Answer(c) \/ Mislead(c) \/ Fail(c) \/ GiveUp(c)
  \/ SpeakUnasked \/ Lose \/ Close

Spec ==
  Init /\ [][Next]_<<stage, turn, served, answered, spoke, gaveUp, lost, closed>>
=============================================================================
