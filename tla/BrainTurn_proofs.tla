-------------------------- MODULE BrainTurn_proofs --------------------------
(***************************************************************************)
(* The bounded tool loop of a step and the log it leaves (BrainTurn, after  *)
(* internal/core/brain.go), for any tools, limits and conversations.        *)
(***************************************************************************)
EXTENDS BrainTurn, SequenceLemmas

Executing == pc \in {"guard", "asking", "running"}

(* The results of the first n calls of the request at i stand behind it.   *)
AnsweredTo(i, n) ==
  \A k \in 1 .. n : /\ IsResult(messages[i + k])
                    /\ messages[i + k].call = messages[i].calls[k]
AnsweredFully(i) ==
  /\ i + Len(messages[i].calls) <= Len(messages)
  /\ AnsweredTo(i, Len(messages[i].calls))

(* Every request is answered, but the one whose calls are being executed,   *)
(* which is answered up to the call at hand.                                *)
Open == Len(messages) - (next - 1)
ExecutesTheLast ==
  Executing =>
    /\ next \in 1 .. Len(calls)
    /\ Open \in 1 .. Len(messages)
    /\ messages[Open] = [kind |-> "request", calls |-> calls]
    /\ AnsweredTo(Open, next - 1)
RequestsAnswered ==
  \A i \in DOMAIN messages :
    IsRequest(messages[i]) => AnsweredFully(i) \/ (Executing /\ i = Open)
ResultsAsked ==
  \A j \in DOMAIN messages : IsResult(messages[j]) =>
    \E i \in 1 .. j - 1 : /\ IsRequest(messages[i])
                          /\ j - i <= Len(messages[i].calls)

(* The tools of loadedTools are those a result in the messages brought; a   *)
(* step begins with neither, and calls only come where tools are on.        *)
Brings(e, r) ==
  /\ IsResult(e)
  /\ e.call = [name |-> LoadTool, arg |-> r]
  /\ e.out \notin {"error", "blocked"}
LoadedWasBrought ==
  \A r \in Names : r \in loaded <=> \E i \in DOMAIN messages : Brings(messages[i], r)
StartsEmpty ==
  pc \in {"idle", "persist", "assemble"} => messages = << >> /\ loaded = {}
CallsNeedTools  == calls # << >> => ToolsEnabled
OffersAdvertised == pc = "drain" => offered = Advertised

(* The user's message is last in the log while it is being answered, then   *)
(* the reply is.                                                            *)
LastRole(r) == store # << >> /\ store[Len(store)] = r
LogInStep ==
  /\ pc \notin {"idle", "persist", "nudge"} => LastRole("user")
  /\ pc = "nudge" => LastRole("assistant") /\ replies > 0
Replied == IF pc = "nudge" THEN replies - 1 ELSE replies
NudgedSoFar == NudgeEvery > 0 => nudges = Replied \div NudgeEvery

RequestInv ==
  /\ ExecutesTheLast /\ RequestsAnswered /\ ResultsAsked
RoundInv ==
  /\ StartsEmpty /\ LoadedWasBrought
  /\ CallsNeedTools /\ OffersAdvertised /\ NothingRunsPastLimit
LogInv == LogAnswersUser /\ LogInStep /\ NudgedSoFar

BrainInv ==
  TypeOK /\ RequestInv /\ RoundInv /\ LogInv /\ NoProviderLeftSending

LEMMA NextMultiple ==
  ASSUME NEW n \in Nat, NEW d \in Nat \ {0}
  PROVE  /\ n \div d \in Nat
         /\ (n + 1) \div d = IF (n + 1) % d = 0 THEN (n \div d) + 1 ELSE n \div d
<1>1. n \div d \in Nat
  OBVIOUS
<1>2. CASE (n + 1) % d = 0
  <2>1. (n + 1) \div d = (n \div d) + 1
    BY <1>2
  <2> QED
    BY <1>1, <1>2, <2>1
<1>3. CASE (n + 1) % d # 0
  <2>1. (n + 1) \div d = n \div d
    BY <1>3
  <2> QED
    BY <1>1, <1>3, <2>1
<1> QED
  BY <1>1, <1>2, <1>3

(* The entries a step appends, and what tells them apart.                   *)
LEMMA EntryKinds ==
  /\ \A e \in Entries : e.kind = "request" => e.calls \in Seq(Calls)
  /\ \A e \in Entries : e.kind = "result" => e.call \in Calls /\ e.out \in Outputs
  /\ \A q \in Seq(Calls) : [kind |-> "request", calls |-> q] \in Entries
  /\ \A c \in Calls, o \in Outputs :
       [kind |-> "result", call |-> c, out |-> o] \in Entries
  /\ \A k \in {"user", "assistant", "policy"} : [kind |-> k] \in Entries
<1>1. ASSUME NEW e \in Entries, e.kind = "request" PROVE e.calls \in Seq(Calls)
  <2>1. e \in [kind : {"request"}, calls : Seq(Calls)]
    BY <1>1 DEF Entries
  <2> QED
    BY <2>1
<1>2. ASSUME NEW e \in Entries, e.kind = "result"
      PROVE  e.call \in Calls /\ e.out \in Outputs
  <2>1. e \in [kind : {"result"}, call : Calls, out : Outputs]
    BY <1>2 DEF Entries
  <2> QED
    BY <2>1
<1>3. \A q \in Seq(Calls) : [kind |-> "request", calls |-> q] \in Entries
  BY DEF Entries
<1>4. \A c \in Calls, o \in Outputs :
        [kind |-> "result", call |-> c, out |-> o] \in Entries
  BY DEF Entries
<1>5. \A k \in {"user", "assistant", "policy"} : [kind |-> k] \in Entries
  BY DEF Entries
<1> QED
  BY <1>1, <1>2, <1>3, <1>4, <1>5

(* While calls are executed the one at hand is there. *)
LEMMA AtHand ==
  ASSUME TypeOK, ExecutesTheLast, Executing
  PROVE  /\ calls[next] \in Calls /\ next \in 1 .. Len(calls)
         /\ Len(calls) \in Nat /\ Len(messages) \in Nat
  BY DEF TypeOK, ExecutesTheLast

(* The tail of the log as messages. *)
LEMMA TailTyped ==
  ASSUME NEW s \in Seq({"user", "assistant"})
  PROVE  /\ RecentMessages(s) \in Seq(Entries)
         /\ \A i \in DOMAIN RecentMessages(s) :
              RecentMessages(s)[i].kind \in {"user", "assistant"}
<1> DEFINE from == IF Len(s) > TailLimit THEN Len(s) - TailLimit + 1 ELSE 1
           n == Len(s) - from + 1
<1>1. TailLimit \in Nat \ {0} /\ Len(s) \in Nat
  BY BrainAssumption DEF BrainAssumption
<1>2. from \in Nat \ {0} /\ n \in Nat /\ n <= Len(s)
  BY <1>1
<1>3. \A i \in 1 .. n : s[from + i - 1] \in {"user", "assistant"}
  <2>1. \A i \in 1 .. n : from + i - 1 \in 1 .. Len(s)
    BY <1>1, <1>2
  <2> QED
    BY <2>1
<1>4. RecentMessages(s) = [i \in 1 .. n |-> [kind |-> s[from + i - 1]]]
  BY DEF RecentMessages
<1> HIDE DEF from, n
<1>5. \A i \in 1 .. n : [kind |-> s[from + i - 1]] \in Entries
  BY <1>3, EntryKinds
<1>6. RecentMessages(s) \in [1 .. n -> Entries]
  BY <1>4, <1>5
<1>7. RecentMessages(s) \in Seq(Entries)
  BY <1>2, <1>6
<1>8. \A i \in DOMAIN RecentMessages(s) :
        RecentMessages(s)[i].kind \in {"user", "assistant"}
  BY <1>3, <1>4
<1> QED
  BY <1>7, <1>8

LEMMA AdvertisedTyped == Advertised \subseteq Runners
  BY BrainAssumption DEF BrainAssumption, Advertised

-----------------------------------------------------------------------------
(* Types. *)

LEMMA ReturnTyped ==
  ASSUME TypeOK, NEW o \in {"reply", "error"}, Return(o), sending' \in BOOLEAN,
         store' \in Seq({"user", "assistant"}), replies' \in Nat, nudges' \in Nat,
         steps' \in Nat
  PROVE  TypeOK'
<1>1. messages' \in Seq(Entries) /\ calls' \in Seq(Calls)
  <2>1. messages' = << >> /\ calls' = << >>
    BY DEF Return
  <2> QED
    BY <2>1, EmptySeq
<1>2. /\ pc' \in Places /\ round' \in Nat /\ next' \in Nat /\ ctxDone' \in BOOLEAN
      /\ offered' \subseteq Runners /\ loaded' \subseteq Names
      /\ outcome' \in {"none", "reply", "error"}
  BY DEF Return, Places
<1> QED
  BY <1>1, <1>2 DEF TypeOK

LEMMA FailTyped ==
  ASSUME TypeOK, Fail, sending' \in BOOLEAN PROVE TypeOK'
<1>1. Return("error") /\ UNCHANGED <<store, replies, nudges, steps>>
  BY DEF Fail, log
<1> QED
  BY <1>1, ReturnTyped DEF TypeOK

LEMMA FeedBackTyped ==
  ASSUME TypeOK, ExecutesTheLast, Executing, NEW out \in Outputs, FeedBack(out)
  PROVE  TypeOK'
<1>1. /\ calls[next] \in Calls /\ next \in 1 .. Len(calls)
      /\ Len(calls) \in Nat /\ Len(messages) \in Nat
  BY AtHand
<1>2. messages' \in Seq(Entries)
  <2>1. [kind |-> "result", call |-> calls[next], out |-> out] \in Entries
    BY <1>1, EntryKinds
  <2> QED
    BY <2>1, OneMore DEF TypeOK, FeedBack
<1>3. loaded' \subseteq Names
  <2>1. calls[next].name = LoadTool => calls[next].arg \in Names
    BY <1>1, BrainAssumption DEF Calls, BrainAssumption
  <2> QED
    BY <2>1 DEF FeedBack, Loads, TypeOK
<1>4. next' \in Nat /\ round' \in Nat /\ pc' \in Places
  BY <1>1 DEF FeedBack, TypeOK, Places
<1>5. UNCHANGED <<offered, sending, calls, ctxDone, store, replies, nudges,
                  outcome, steps>>
  BY DEF FeedBack, log
<1> QED
  BY <1>2, <1>3, <1>4, <1>5 DEF TypeOK

LEMMA TypeStays == BrainInv /\ [Next]_vars => TypeOK'
<1> SUFFICES ASSUME BrainInv, [Next]_vars PROVE TypeOK'
  OBVIOUS
<1>0. TypeOK /\ ExecutesTheLast
  BY DEF BrainInv, RequestInv
<1>1. CASE StartStep
  BY <1>0, <1>1 DEF StartStep, TypeOK, turn, log, Places
<1>2. CASE PersistUser
  <2>1. CASE Fail /\ UNCHANGED sending
    BY <1>0, <2>1, FailTyped DEF TypeOK
  <2>2. CASE store' = Append(store, "user") /\ pc' = "assemble"
             /\ UNCHANGED <<turn, ctxDone, replies, nudges, outcome, steps>>
    <3>1. store' \in Seq({"user", "assistant"})
      BY <1>0, <2>2, OneMore DEF TypeOK
    <3> QED
      BY <1>0, <2>2, <3>1 DEF TypeOK, turn, Places
  <2> QED
    BY <1>2, <2>1, <2>2 DEF PersistUser
<1>3. CASE Assemble
  <2>1. CASE Fail /\ UNCHANGED sending
    BY <1>0, <2>1, FailTyped DEF TypeOK
  <2>2. CASE messages' = RecentMessages(store) /\ pc' = "request"
             /\ UNCHANGED <<round, offered, sending, calls, next, loaded,
                            ctxDone, log, outcome, steps>>
    <3>1. messages' \in Seq(Entries)
      BY <1>0, <2>2, TailTyped DEF TypeOK
    <3> QED
      BY <1>0, <2>2, <3>1 DEF TypeOK, log, Places
  <2> QED
    BY <1>3, <2>1, <2>2 DEF Assemble
<1>4. CASE Request
  <2>1. CASE Fail /\ UNCHANGED sending
    BY <1>0, <2>1, FailTyped DEF TypeOK
  <2>2. CASE offered' = Advertised /\ sending' = TRUE /\ calls' = << >>
             /\ next' = 0 /\ pc' = "drain"
             /\ UNCHANGED <<round, messages, loaded, ctxDone, log, outcome, steps>>
    BY <1>0, <2>2, AdvertisedTyped DEF TypeOK, log, Places
  <2> QED
    BY <1>4, <2>1, <2>2 DEF Request
<1>5. CASE EmitCall
  <2>1. calls' \in Seq(Calls)
    <3>1. PICK c \in Calls :
            calls' = IF ToolsEnabled THEN Append(calls, c) ELSE calls
      BY <1>5 DEF EmitCall
    <3> QED
      BY <1>0, <3>1, OneMore DEF TypeOK
  <2> QED
    BY <1>0, <1>5, <2>1 DEF EmitCall, TypeOK, log
<1>6. CASE EmitError
  BY <1>0, <1>6 DEF EmitError, TypeOK, turn, log, Places
<1>7. CASE StreamFailed
  BY <1>0, <1>7, FailTyped DEF StreamFailed
<1>8. CASE StreamEnds
  <2>1. CASE StreamCancelled
    BY <1>0, <1>8, <2>1, FailTyped DEF StreamEnds, StreamCancelled
  <2>2. CASE ~StreamCancelled
    <3>1. sending' = FALSE /\ pc' \in Places /\ round' \in Nat /\ next' \in Nat
      BY <1>0, <1>8, <2>2 DEF StreamEnds, TypeOK, Places
    <3>2. messages' \in Seq(Entries)
      <4>1. /\ [kind |-> "policy"] \in Entries
            /\ [kind |-> "request", calls |-> calls] \in Entries
        BY <1>0, EntryKinds DEF TypeOK
      <4>2. \A e \in Entries : Append(messages, e) \in Seq(Entries)
        BY <1>0, OneMore DEF TypeOK
      <4>3. \/ messages' = messages
            \/ messages' = Append(messages, [kind |-> "policy"])
            \/ messages' = Append(messages, [kind |-> "request", calls |-> calls])
        BY <1>8, <2>2 DEF StreamEnds, RecordRequest
      <4> QED
        BY <1>0, <4>1, <4>2, <4>3 DEF TypeOK
    <3>3. UNCHANGED <<offered, calls, loaded, ctxDone, store, replies, nudges,
                      outcome, steps>>
      BY <1>8, <2>2 DEF StreamEnds, log
    <3> QED
      BY <1>0, <3>1, <3>2, <3>3 DEF TypeOK
  <2> QED
    BY <2>1, <2>2
<1>9. CASE Refuse
  <2>1. Executing /\ \E out \in Outputs : FeedBack(out)
    BY <1>9 DEF Refuse, Executing, Outputs
  <2> QED
    BY <1>0, <2>1, FeedBackTyped
<1>10. CASE Allow \/ Ask
  BY <1>0, <1>10 DEF Allow, Ask, TypeOK, turn, log, Places
<1>11. CASE Answer
  <2>1. CASE FeedBack("blocked")
    <3>1. Executing /\ \E out \in Outputs : FeedBack(out)
      BY <1>11, <2>1 DEF Answer, Executing, Outputs
    <3> QED
      BY <1>0, <3>1, FeedBackTyped
  <2>2. CASE pc' = "running" /\ UNCHANGED <<turn, ctxDone, log, outcome, steps>>
    BY <1>0, <2>2 DEF TypeOK, turn, log, Places
  <2> QED
    BY <1>11, <2>1, <2>2 DEF Answer
<1>12. CASE RunTool
  <2>1. Executing /\ \E out \in Outputs : FeedBack(out)
    BY <1>12 DEF RunTool, Executing, Outputs, RunOutputs
  <2> QED
    BY <1>0, <2>1, FeedBackTyped
<1>13. CASE SaveReply
  <2>1. CASE Fail /\ UNCHANGED sending
    BY <1>0, <2>1, FailTyped DEF TypeOK
  <2>2. CASE store' = Append(store, "assistant") /\ replies' = replies + 1
             /\ pc' = "nudge"
             /\ UNCHANGED <<turn, ctxDone, nudges, outcome, steps>>
    <3>1. store' \in Seq({"user", "assistant"})
      BY <1>0, <2>2, OneMore DEF TypeOK
    <3> QED
      BY <1>0, <2>2, <3>1 DEF TypeOK, turn, Places
  <2> QED
    BY <1>13, <2>1, <2>2 DEF SaveReply
<1>14. CASE Nudge
  <2>1. /\ Return("reply") /\ UNCHANGED <<store, replies, steps, sending>>
        /\ nudges' \in Nat
    BY <1>0, <1>14 DEF Nudge, TypeOK
  <2> QED
    BY <1>0, <2>1, ReturnTyped DEF TypeOK
<1>15. CASE Cancel
  BY <1>0, <1>15 DEF Cancel, TypeOK, turn, log
<1>16. CASE UNCHANGED vars
  BY <1>0, <1>16 DEF vars, turn, log, TypeOK
<1> QED
  BY <1>1, <1>2, <1>3, <1>4, <1>5, <1>6, <1>7, <1>8, <1>9, <1>10, <1>11,
     <1>12, <1>13, <1>14, <1>15, <1>16 DEF Next, Provider, Tool

-----------------------------------------------------------------------------
(* Requests and results. *)

(* The invariant of the messages holds if none are left,                    *)
LEMMA RequestsEmpty ==
  ASSUME messages' = << >>, pc' \notin {"guard", "asking", "running"}
  PROVE  RequestInv'
  BY DEF RequestInv, ExecutesTheLast, RequestsAnswered, ResultsAsked, Executing

(* stays while the messages do and no call is executed,                     *)
LEMMA RequestsRest ==
  ASSUME RequestInv, messages' = messages, ~Executing, ~Executing'
  PROVE  RequestInv'
<1>1. ExecutesTheLast'
  BY DEF ExecutesTheLast
<1>2. ResultsAsked'
  BY DEF RequestInv, ResultsAsked
<1>3. RequestsAnswered'
  BY DEF RequestInv, RequestsAnswered, AnsweredFully, AnsweredTo
<1> QED
  BY <1>1, <1>2, <1>3 DEF RequestInv

(* or while the execution of a call goes on.                                *)
LEMMA RequestsGoOn ==
  ASSUME RequestInv, UNCHANGED <<messages, calls, next>>, Executing, Executing'
  PROVE  RequestInv'
<1>1. ExecutesTheLast'
  BY DEF RequestInv, ExecutesTheLast, AnsweredTo, Open
<1>2. ResultsAsked'
  BY DEF RequestInv, ResultsAsked
<1>3. RequestsAnswered'
  BY DEF RequestInv, RequestsAnswered, AnsweredFully, AnsweredTo, Open
<1> QED
  BY <1>1, <1>2, <1>3 DEF RequestInv

(* An entry is appended: who was answered fully stays so, and a result has  *)
(* its request.                                                             *)
LEMMA AnswersStay ==
  ASSUME TypeOK, NEW e \in Entries, messages' = Append(messages, e),
         NEW i \in DOMAIN messages, IsRequest(messages[i]), AnsweredFully(i)
  PROVE  i \in DOMAIN messages' /\ messages'[i] = messages[i] /\ AnsweredFully(i)'
<1>1. /\ Len(messages) \in Nat /\ Len(messages') = Len(messages) + 1
      /\ DOMAIN messages = 1 .. Len(messages)
      /\ DOMAIN messages' = 1 .. Len(messages) + 1
      /\ \A j \in 1 .. Len(messages) : messages'[j] = messages[j]
  BY OneMore DEF TypeOK
<1>2. messages[i].calls \in Seq(Calls)
  <2>1. messages[i] \in Entries
    BY DEF TypeOK
  <2> QED
    BY <2>1, EntryKinds DEF IsRequest
<1>3. /\ i \in 1 .. Len(messages) /\ messages'[i] = messages[i]
      /\ Len(messages[i].calls) \in Nat
      /\ i + Len(messages[i].calls) <= Len(messages)
  BY <1>1, <1>2 DEF AnsweredFully
<1>4. \A k \in 1 .. Len(messages[i].calls) : messages'[i + k] = messages[i + k]
  <2>1. \A k \in 1 .. Len(messages[i].calls) : i + k \in 1 .. Len(messages)
    BY <1>1, <1>3
  <2> QED
    BY <1>1, <2>1
<1>5. i + Len(messages'[i].calls) <= Len(messages')
  BY <1>1, <1>3
<1>6. AnsweredTo(i, Len(messages[i].calls))'
  BY <1>3, <1>4 DEF AnsweredFully, AnsweredTo
<1> QED
  BY <1>1, <1>3, <1>5, <1>6 DEF AnsweredFully, AnsweredTo

LEMMA ResultsStay ==
  ASSUME TypeOK, ResultsAsked, NEW e \in Entries, messages' = Append(messages, e),
         IsResult(e) =>
           \E i \in 1 .. Len(messages) :
             /\ IsRequest(messages[i])
             /\ Len(messages) + 1 - i <= Len(messages[i].calls)
  PROVE  ResultsAsked'
<1>1. /\ Len(messages) \in Nat
      /\ DOMAIN messages = 1 .. Len(messages)
      /\ DOMAIN messages' = 1 .. Len(messages) + 1
      /\ \A j \in 1 .. Len(messages) : messages'[j] = messages[j]
      /\ messages'[Len(messages) + 1] = e
  BY OneMore DEF TypeOK
<1>2. ASSUME NEW j \in 1 .. Len(messages), IsResult(messages'[j])
      PROVE  \E i \in 1 .. j - 1 : /\ IsRequest(messages'[i])
                                   /\ j - i <= Len(messages'[i].calls)
  <2>1. PICK i \in 1 .. j - 1 : /\ IsRequest(messages[i])
                                /\ j - i <= Len(messages[i].calls)
    BY <1>1, <1>2 DEF ResultsAsked
  <2>2. i \in 1 .. Len(messages)
    BY <1>1
  <2> QED
    BY <1>1, <2>1, <2>2
<1>3. ASSUME IsResult(e)
      PROVE  \E i \in 1 .. (Len(messages) + 1) - 1 :
               /\ IsRequest(messages'[i])
               /\ Len(messages) + 1 - i <= Len(messages'[i].calls)
  BY <1>1, <1>3
<1>4. ASSUME NEW j \in DOMAIN messages', IsResult(messages'[j])
      PROVE  \E i \in 1 .. j - 1 : /\ IsRequest(messages'[i])
                                   /\ j - i <= Len(messages'[i].calls)
  <2>1. j \in 1 .. Len(messages) \/ j = Len(messages) + 1
    BY <1>1, <1>4
  <2>2. CASE j \in 1 .. Len(messages)
    BY <1>2, <1>4, <2>2
  <2>3. CASE j = Len(messages) + 1
    BY <1>1, <1>3, <1>4, <2>3
  <2> QED
    BY <2>1, <2>2, <2>3
<1> QED
  BY <1>4 DEF ResultsAsked, IsResult, IsRequest

(* The result of the call at hand is appended. *)
LEMMA RequestsFedBack ==
  ASSUME TypeOK, RequestInv, Executing, NEW out \in Outputs, FeedBack(out)
  PROVE  RequestInv'
<1> DEFINE e == [kind |-> "result", call |-> calls[next], out |-> out]
           m == Len(messages)
<1>1. /\ calls[next] \in Calls /\ next \in 1 .. Len(calls)
      /\ Len(calls) \in Nat /\ m \in Nat
  BY AtHand DEF RequestInv
<1>2. e \in Entries /\ IsResult(e) /\ ~IsRequest(e) /\ e.call = calls[next]
  BY <1>1, EntryKinds DEF IsResult, IsRequest
<1>3. messages' = Append(messages, e) /\ calls' = calls
  BY DEF FeedBack
<1> HIDE DEF e
<1>4. /\ Len(messages') = m + 1 /\ DOMAIN messages = 1 .. m
      /\ DOMAIN messages' = 1 .. m + 1
      /\ \A j \in 1 .. m : messages'[j] = messages[j]
      /\ messages'[m + 1] = e
  BY <1>2, <1>3, OneMore DEF TypeOK
<1>5. /\ Open \in 1 .. m /\ messages[Open] = [kind |-> "request", calls |-> calls]
      /\ AnsweredTo(Open, next - 1) /\ Open = m - (next - 1)
  BY DEF RequestInv, ExecutesTheLast, Open
<1> PICK q : q = Open
  OBVIOUS
<1>6. IsRequest(messages[q]) /\ messages[q].calls = calls
  BY <1>5 DEF IsRequest
<1>7. q + next = m + 1
  BY <1>1, <1>5
<1>8. \A k \in 1 .. next : /\ IsResult(messages'[q + k])
                           /\ messages'[q + k].call = calls[k]
  <2>1. \A k \in 1 .. next - 1 : q + k \in 1 .. m
    BY <1>1, <1>5, <1>7, SMTT(30)
  <2>2. \A k \in 1 .. next - 1 : /\ IsResult(messages'[q + k])
                                 /\ messages'[q + k].call = calls[k]
    BY <1>4, <1>5, <1>6, <2>1 DEF AnsweredTo
  <2>3. \A k \in 1 .. next : k = next \/ k \in 1 .. next - 1
    BY <1>1
  <2> QED
    BY <1>2, <1>4, <1>7, <2>2, <2>3
<1>9. ResultsAsked'
  <2>1. m + 1 - q <= Len(messages[q].calls)
    BY <1>1, <1>5, <1>6, <1>7
  <2> QED
    BY <1>2, <1>3, <1>5, <1>6, <2>1, ResultsStay DEF RequestInv
<1>10. ASSUME NEW i \in DOMAIN messages', IsRequest(messages'[i])
       PROVE  AnsweredFully(i)' \/ i = q
  <2>1. i \in DOMAIN messages /\ IsRequest(messages[i])
    BY <1>2, <1>4, <1>10
  <2>2. AnsweredFully(i) \/ i = q
    BY <2>1 DEF RequestInv, RequestsAnswered
  <2> QED
    BY <1>2, <1>3, <2>1, <2>2, AnswersStay
<1>11. messages'[q] = messages[q]
  BY <1>4, <1>5
<1>12. CASE next < Len(calls)
  <2>1. next' = next + 1 /\ pc' = "guard"
    BY <1>12, <1>1 DEF FeedBack
  <2>2. Open' = q /\ next' \in 1 .. Len(calls')
    <3>1. Open' = (m + 1) - ((next + 1) - 1)
      BY <1>4, <2>1 DEF Open
    <3> QED
      BY <1>1, <1>3, <1>5, <1>12, <2>1, <3>1
  <2>3. ExecutesTheLast'
    <3>1. AnsweredTo(Open, next - 1)'
      <4>1. next' - 1 = next
        BY <1>1, <2>1
      <4>2. \A k \in 1 .. next : /\ IsResult(messages'[Open' + k])
                                 /\ messages'[Open' + k].call = messages'[Open'].calls[k]
        BY <1>6, <1>8, <1>11, <2>2
      <4>3. \A k \in 1 .. next' - 1 : /\ IsResult(messages'[Open' + k])
                                 /\ messages'[Open' + k].call = messages'[Open'].calls[k]
        BY <4>1, <4>2
      <4> QED
        BY <4>3 DEF AnsweredTo
    <3> QED
      BY <1>3, <1>4, <1>5, <1>11, <2>2, <3>1 DEF ExecutesTheLast
  <2>4. RequestsAnswered'
    BY <1>10, <2>1, <2>2 DEF RequestsAnswered, Executing
  <2> QED
    BY <1>9, <2>3, <2>4 DEF RequestInv
<1>13. CASE next = Len(calls)
  <2>1. pc' = "request"
    BY <1>13, <1>1 DEF FeedBack
  <2>2. ExecutesTheLast'
    BY <2>1 DEF ExecutesTheLast, Executing
  <2>3. AnsweredFully(q)'
    BY <1>1, <1>4, <1>6, <1>7, <1>8, <1>11, <1>13 DEF AnsweredFully, AnsweredTo
  <2>4. RequestsAnswered'
    BY <1>10, <2>3 DEF RequestsAnswered
  <2> QED
    BY <1>9, <2>2, <2>4 DEF RequestInv
<1> QED
  BY <1>1, <1>12, <1>13

(* The calls of a stream are recorded as a request, which is not answered   *)
(* yet, or refused with a remark.                                           *)
LEMMA RequestsRecorded ==
  ASSUME TypeOK, RequestInv, ~Executing, calls # << >>, RecordRequest,
         next' = 1, pc' = "guard", calls' = calls
  PROVE  RequestInv'
<1> DEFINE e == [kind |-> "request", calls |-> calls]
           m == Len(messages)
<1>1. e \in Entries /\ IsRequest(e) /\ ~IsResult(e) /\ Len(calls) \in Nat \ {0}
  BY EntryKinds DEF TypeOK, IsResult, IsRequest
<1>2. messages' = Append(messages, e)
  BY DEF RecordRequest
<1>3. e = [kind |-> "request", calls |-> calls]
  OBVIOUS
<1> HIDE DEF e
<1>4. /\ m \in Nat /\ Len(messages') = m + 1 /\ DOMAIN messages = 1 .. m
      /\ DOMAIN messages' = 1 .. m + 1
      /\ \A j \in 1 .. m : messages'[j] = messages[j]
      /\ messages'[m + 1] = e
  BY <1>1, <1>2, OneMore DEF TypeOK
<1>5. Open' = m + 1
  BY <1>4 DEF Open
<1>6. ExecutesTheLast'
  <2>1. next' \in 1 .. Len(calls')
    BY <1>1
  <2>2. AnsweredTo(Open, next - 1)'
    BY DEF AnsweredTo
  <2>3. Open' \in 1 .. Len(messages')
    BY <1>4, <1>5
  <2> QED
    BY <1>3, <1>4, <1>5, <2>1, <2>2, <2>3 DEF ExecutesTheLast
<1>7. ResultsAsked'
  BY <1>1, <1>2, ResultsStay DEF RequestInv
<1>8. RequestsAnswered'
  <2>1. ASSUME NEW i \in DOMAIN messages', IsRequest(messages'[i]), i # m + 1
        PROVE  AnsweredFully(i)'
    <3>1. i \in DOMAIN messages /\ IsRequest(messages[i])
      BY <1>4, <2>1
    <3>2. AnsweredFully(i)
      BY <3>1 DEF RequestInv, RequestsAnswered
    <3> QED
      BY <1>1, <1>2, <3>1, <3>2, AnswersStay
  <2> QED
    BY <1>5, <2>1 DEF RequestsAnswered, Executing
<1> QED
  BY <1>6, <1>7, <1>8 DEF RequestInv

LEMMA RequestsRefused ==
  ASSUME TypeOK, RequestInv, ~Executing, ~Executing',
         messages' = Append(messages, [kind |-> "policy"])
  PROVE  RequestInv'
<1> DEFINE e == [kind |-> "policy"]
           m == Len(messages)
<1>1. e \in Entries /\ ~IsRequest(e) /\ ~IsResult(e)
  BY EntryKinds DEF IsResult, IsRequest
<1>2. messages' = Append(messages, e)
  OBVIOUS
<1> HIDE DEF e
<1>3. /\ DOMAIN messages = 1 .. m /\ DOMAIN messages' = 1 .. m + 1 /\ m \in Nat
      /\ \A j \in 1 .. m : messages'[j] = messages[j]
      /\ messages'[m + 1] = e
  BY <1>1, <1>2, OneMore DEF TypeOK
<1>4. ResultsAsked'
  BY <1>1, <1>2, ResultsStay DEF RequestInv
<1>5. RequestsAnswered'
  <2>1. ASSUME NEW i \in DOMAIN messages', IsRequest(messages'[i])
        PROVE  AnsweredFully(i)'
    <3>1. i \in DOMAIN messages /\ IsRequest(messages[i])
      BY <1>1, <1>3, <2>1
    <3>2. AnsweredFully(i)
      BY <3>1 DEF RequestInv, RequestsAnswered
    <3> QED
      BY <1>1, <1>2, <3>1, <3>2, AnswersStay
  <2> QED
    BY <2>1 DEF RequestsAnswered
<1>6. ExecutesTheLast'
  BY DEF ExecutesTheLast
<1> QED
  BY <1>4, <1>5, <1>6 DEF RequestInv

(* The tail of the log has neither requests nor results.                    *)
LEMMA RequestsNone ==
  ASSUME TypeOK, messages' = RecentMessages(store), ~Executing'
  PROVE  RequestInv'
<1>1. \A i \in DOMAIN messages' :
        ~IsRequest(messages'[i]) /\ ~IsResult(messages'[i])
  BY TailTyped DEF TypeOK, IsRequest, IsResult
<1> QED
  BY <1>1 DEF RequestInv, ExecutesTheLast, RequestsAnswered, ResultsAsked

LEMMA RequestsStay == BrainInv /\ [Next]_vars => RequestInv'
<1> SUFFICES ASSUME BrainInv, [Next]_vars PROVE RequestInv'
  OBVIOUS
<1>0. TypeOK /\ RequestInv
  BY DEF BrainInv
<1>1. ASSUME NEW o, Return(o) PROVE RequestInv'
  BY <1>1, RequestsEmpty DEF Return
<1>2. CASE Fail
  BY <1>1, <1>2 DEF Fail
<1>3. CASE StartStep \/ (PersistUser /\ ~Fail) \/ EmitError
  BY <1>0, <1>3, RequestsRest
     DEF StartStep, PersistUser, EmitError, turn, Executing
<1>4. CASE Assemble /\ ~Fail
  BY <1>0, <1>4, RequestsNone DEF Assemble, Executing
<1>5. CASE (Request /\ ~Fail) \/ EmitCall
  BY <1>0, <1>5, RequestsRest DEF Request, EmitCall, Executing
<1>6. CASE StreamFailed
  BY <1>2, <1>6 DEF StreamFailed
<1>7. CASE StreamEnds
  <2>1. CASE StreamCancelled
    BY <1>2, <2>1 DEF StreamCancelled
  <2>2. CASE calls = << >> /\ pc' = "save" /\ messages' = messages
    BY <1>0, <1>7, <2>2, RequestsRest DEF StreamEnds, Executing
  <2>3. CASE messages' = Append(messages, [kind |-> "policy"]) /\ pc' = "request"
    BY <1>0, <1>7, <2>3, RequestsRefused DEF StreamEnds, Executing
  <2>4. CASE calls # << >> /\ RecordRequest /\ next' = 1 /\ pc' = "guard"
             /\ calls' = calls
    BY <1>0, <1>7, <2>4, RequestsRecorded DEF StreamEnds, Executing
  <2> QED
    BY <1>7, <2>1, <2>2, <2>3, <2>4 DEF StreamEnds
<1>8. ASSUME Executing, NEW out \in Outputs, FeedBack(out) PROVE RequestInv'
  BY <1>0, <1>8, RequestsFedBack
<1>9. CASE Refuse
  BY <1>8, <1>9 DEF Refuse, Executing, Outputs
<1>10. CASE Allow \/ Ask
  BY <1>0, <1>10, RequestsGoOn DEF Allow, Ask, Executing, turn
<1>11. CASE Answer
  <2>1. CASE FeedBack("blocked")
    BY <1>8, <1>11, <2>1 DEF Answer, Executing, Outputs
  <2>2. CASE pc' = "running" /\ UNCHANGED turn
    BY <1>0, <1>11, <2>2, RequestsGoOn DEF Answer, Executing, turn
  <2> QED
    BY <1>11, <2>1, <2>2 DEF Answer
<1>12. CASE RunTool
  <2>1. Executing /\ \E out \in Outputs : FeedBack(out)
    BY <1>12 DEF RunTool, Executing, Outputs, RunOutputs
  <2> QED
    BY <1>8, <2>1
<1>13. CASE SaveReply /\ ~Fail
  BY <1>0, <1>13, RequestsRest DEF SaveReply, turn, Executing
<1>14. CASE Nudge
  BY <1>1, <1>14 DEF Nudge
<1>15. CASE Cancel \/ UNCHANGED vars
  <2>1. UNCHANGED <<pc, messages, calls, next>>
    BY <1>15 DEF Cancel, vars, turn
  <2>2. Executing' <=> Executing
    BY <2>1 DEF Executing
  <2> QED
    BY <1>0, <2>1, <2>2, RequestsRest, RequestsGoOn
<1> QED
  BY <1>2, <1>3, <1>4, <1>5, <1>6, <1>7, <1>9, <1>10, <1>11, <1>12, <1>13,
     <1>14, <1>15 DEF Next, Provider, Tool

-----------------------------------------------------------------------------
(* Rounds. *)

(* A step that returns has nothing left. *)
LEMMA RoundsEmpty ==
  ASSUME NEW o, Return(o) PROVE RoundInv'
<1>1. messages' = << >> /\ loaded' = {} /\ calls' = << >> /\ pc' = "idle"
  BY DEF Return
<1> QED
  BY <1>1 DEF RoundInv, StartsEmpty, LoadedWasBrought, CallsNeedTools,
              OffersAdvertised, NothingRunsPastLimit

(* loadedTools goes on matching the messages if neither changes, or an      *)
(* entry is appended that brings what is added.                             *)
LEMMA LoadedMatches ==
  ASSUME TypeOK, LoadedWasBrought, NEW e \in Entries,
         messages' = Append(messages, e),
         \A r \in Names : r \in loaded' <=> r \in loaded \/ Brings(e, r)
  PROVE  LoadedWasBrought'
<1>1. /\ Len(messages) \in Nat
      /\ DOMAIN messages = 1 .. Len(messages)
      /\ DOMAIN messages' = 1 .. Len(messages) + 1
      /\ \A j \in 1 .. Len(messages) : messages'[j] = messages[j]
      /\ messages'[Len(messages) + 1] = e
  BY OneMore DEF TypeOK
<1>2. ASSUME NEW r \in Names
      PROVE  (\E i \in DOMAIN messages' : Brings(messages'[i], r))
               <=> (\E i \in DOMAIN messages : Brings(messages[i], r)) \/ Brings(e, r)
  <2>1. ASSUME NEW i \in DOMAIN messages', Brings(messages'[i], r)
        PROVE  (\E k \in DOMAIN messages : Brings(messages[k], r)) \/ Brings(e, r)
    <3>1. i \in DOMAIN messages \/ i = Len(messages) + 1
      BY <1>1
    <3>2. i \in DOMAIN messages => messages'[i] = messages[i]
      BY <1>1
    <3>3. i = Len(messages) + 1 => messages'[i] = e
      BY <1>1
    <3> QED
      BY <2>1, <3>1, <3>2, <3>3
  <2>2. ASSUME NEW i \in DOMAIN messages, Brings(messages[i], r)
        PROVE  \E k \in DOMAIN messages' : Brings(messages'[k], r)
    <3>1. i \in DOMAIN messages' /\ messages'[i] = messages[i]
      BY <1>1
    <3> QED
      BY <2>2, <3>1
  <2>3. ASSUME Brings(e, r)
        PROVE  \E k \in DOMAIN messages' : Brings(messages'[k], r)
    <3>1. Len(messages) + 1 \in DOMAIN messages'
      BY <1>1
    <3> QED
      BY <1>1, <2>3, <3>1
  <2> QED
    BY <2>1, <2>2, <2>3
<1>3. ASSUME NEW r \in Names
      PROVE  r \in loaded' <=> \E i \in DOMAIN messages' : Brings(messages'[i], r)
  BY <1>2 DEF LoadedWasBrought
<1> QED
  BY <1>3 DEF LoadedWasBrought, Brings, IsResult

LEMMA RoundsFedBack ==
  ASSUME TypeOK, RequestInv, RoundInv, Executing, NEW out \in Outputs, FeedBack(out)
  PROVE  RoundInv'
<1> DEFINE e == [kind |-> "result", call |-> calls[next], out |-> out]
<1>1. calls[next] \in Calls
  BY AtHand DEF RequestInv
<1>2. e \in Entries
  BY <1>1, EntryKinds
<1>3. LoadedWasBrought'
  <2>1. \A r \in Names :
          calls[next] = [name |-> LoadTool, arg |-> r]
            <=> calls[next].name = LoadTool /\ calls[next].arg = r
    BY <1>1 DEF Calls
  <2>2. \A r \in Names :
          Brings(e, r) <=> /\ calls[next] = [name |-> LoadTool, arg |-> r]
                           /\ out \notin {"error", "blocked"}
    BY DEF Brings, IsResult
  <2>3. \A r \in Names : Brings(e, r) <=> Loads(out) /\ calls[next].arg = r
    BY <2>1, <2>2 DEF Loads
  <2>4. \A r \in Names :
          r \in loaded' <=> r \in loaded \/ (Loads(out) /\ calls[next].arg = r)
    BY DEF FeedBack
  <2>5. \A r \in Names : r \in loaded' <=> r \in loaded \/ Brings(e, r)
    BY <2>3, <2>4
  <2>6. messages' = Append(messages, e)
    BY DEF FeedBack
  <2> QED
    BY <1>2, <2>5, <2>6, LoadedMatches DEF RoundInv
<1>4. pc' \in {"guard", "request"} /\ (pc' = "guard" => round' = round)
  BY DEF FeedBack
<1>5. calls' = calls
  BY DEF FeedBack
<1>6. round < TurnLimit
  BY DEF RoundInv, NothingRunsPastLimit, Executing
<1>7. CallsNeedTools'
  BY <1>5 DEF RoundInv, CallsNeedTools
<1>8. NothingRunsPastLimit'
  BY <1>4, <1>6 DEF NothingRunsPastLimit
<1> QED
  BY <1>3, <1>4, <1>7, <1>8 DEF RoundInv, StartsEmpty, OffersAdvertised

(* A step that leaves messages, tools and calls alone and does not get to   *)
(* where more is asked of it.                                               *)
LEMMA RoundsRest ==
  ASSUME RoundInv, UNCHANGED <<messages, loaded, calls>>,
         pc' \in {"idle", "persist", "assemble"}
           => pc \in {"idle", "persist", "assemble"},
         pc' = "drain" => pc = "drain" /\ UNCHANGED <<offered, round>>,
         Executing' => Executing /\ round' = round
  PROVE  RoundInv'
<1>1. StartsEmpty'
  BY DEF RoundInv, StartsEmpty
<1>2. LoadedWasBrought'
  BY DEF RoundInv, LoadedWasBrought, Brings, IsResult
<1>3. CallsNeedTools'
  BY DEF RoundInv, CallsNeedTools
<1>4. OffersAdvertised'
  BY DEF RoundInv, OffersAdvertised, Advertised, CapReached
<1>5. NothingRunsPastLimit'
  BY DEF RoundInv, NothingRunsPastLimit, Executing
<1> QED
  BY <1>1, <1>2, <1>3, <1>4, <1>5 DEF RoundInv

LEMMA RoundsStay == BrainInv /\ [Next]_vars => RoundInv'
<1> SUFFICES ASSUME BrainInv, [Next]_vars PROVE RoundInv'
  OBVIOUS
<1>0. TypeOK /\ RequestInv /\ RoundInv
  BY DEF BrainInv
<1>1. ASSUME NEW o, Return(o) PROVE RoundInv'
  BY <1>1, RoundsEmpty
<1>2. CASE Fail
  BY <1>1, <1>2 DEF Fail
<1>3. CASE StartStep \/ (PersistUser /\ ~Fail) \/ EmitError
             \/ (SaveReply /\ ~Fail)
  BY <1>0, <1>3, RoundsRest
     DEF StartStep, PersistUser, EmitError, SaveReply, turn, Executing
<1>4. CASE Assemble /\ ~Fail
  <2>1. /\ messages' = RecentMessages(store) /\ pc' = "request"
        /\ UNCHANGED <<loaded, calls>>
    BY <1>4 DEF Assemble
  <2>2. loaded = {}
    BY <1>0, <1>4 DEF Assemble, RoundInv, StartsEmpty
  <2>3. \A i \in DOMAIN messages', r \in Names : ~Brings(messages'[i], r)
    BY <1>0, <2>1, TailTyped DEF TypeOK, Brings, IsResult
  <2>4. LoadedWasBrought'
    BY <2>1, <2>2, <2>3 DEF LoadedWasBrought
  <2> QED
    BY <1>0, <2>1, <2>4 DEF RoundInv, StartsEmpty, CallsNeedTools,
       OffersAdvertised, NothingRunsPastLimit
<1>5. CASE Request /\ ~Fail
  <2>1. /\ offered' = Advertised /\ calls' = << >> /\ pc' = "drain"
        /\ UNCHANGED <<round, messages, loaded>>
    BY <1>5 DEF Request
  <2>2. Advertised' = Advertised
    BY <2>1 DEF Advertised, CapReached
  <2>3. LoadedWasBrought'
    BY <1>0, <2>1 DEF RoundInv, LoadedWasBrought, Brings, IsResult
  <2> QED
    BY <2>1, <2>2, <2>3 DEF RoundInv, StartsEmpty, CallsNeedTools,
       OffersAdvertised, NothingRunsPastLimit
<1>6. CASE EmitCall
  <2>1. /\ pc = "drain" /\ UNCHANGED <<pc, round, messages, offered, loaded>>
        /\ calls' # calls => ToolsEnabled
    BY <1>6 DEF EmitCall
  <2>2. Advertised' = Advertised
    BY <2>1 DEF Advertised, CapReached
  <2>3. LoadedWasBrought'
    BY <1>0, <2>1 DEF RoundInv, LoadedWasBrought, Brings, IsResult
  <2>4. CallsNeedTools'
    BY <1>0, <2>1 DEF RoundInv, CallsNeedTools
  <2>5. OffersAdvertised'
    BY <1>0, <2>1, <2>2 DEF RoundInv, OffersAdvertised
  <2> QED
    BY <2>1, <2>3, <2>4, <2>5 DEF RoundInv, StartsEmpty, NothingRunsPastLimit
<1>7. CASE StreamFailed
  BY <1>2, <1>7 DEF StreamFailed
<1>8. CASE StreamEnds
  <2>1. CASE StreamCancelled
    BY <1>2, <2>1 DEF StreamCancelled
  <2>2. CASE calls = << >> /\ pc' = "save" /\ UNCHANGED <<messages, loaded, calls>>
    BY <1>0, <2>2, RoundsRest DEF Executing
  <2>3. CASE pc' = "request" /\ messages' = Append(messages, [kind |-> "policy"])
             /\ UNCHANGED <<loaded, calls>>
    <3>1. LoadedWasBrought'
      <4>1. \A r : ~Brings([kind |-> "policy"], r)
        BY DEF Brings, IsResult
      <4>2. [kind |-> "policy"] \in Entries
        BY EntryKinds
      <4> QED
        BY <1>0, <2>3, <4>1, <4>2, LoadedMatches DEF RoundInv
    <3> QED
      BY <1>0, <2>3, <3>1 DEF RoundInv, StartsEmpty, CallsNeedTools,
         OffersAdvertised, NothingRunsPastLimit
  <2>4. CASE calls # << >> /\ ~CapReached /\ RecordRequest /\ pc' = "guard"
             /\ UNCHANGED <<round, loaded, calls>>
    <3>1. LoadedWasBrought'
      <4>1. \A r : ~Brings([kind |-> "request", calls |-> calls], r)
        BY DEF Brings, IsResult
      <4>2. [kind |-> "request", calls |-> calls] \in Entries
        BY <1>0, EntryKinds DEF TypeOK
      <4> QED
        BY <1>0, <2>4, <4>1, <4>2, LoadedMatches DEF RoundInv, RecordRequest
    <3>2. round < TurnLimit
      <4>1. ToolsEnabled
        BY <1>0, <2>4 DEF RoundInv, CallsNeedTools
      <4>2. TurnLimit \in Int /\ round \in Int
        BY <1>0, BrainAssumption DEF TypeOK, BrainAssumption, TurnLimit
      <4> QED
        BY <2>4, <4>1, <4>2 DEF CapReached
    <3> QED
      BY <1>0, <2>4, <3>1, <3>2 DEF RoundInv, StartsEmpty, CallsNeedTools,
         OffersAdvertised, NothingRunsPastLimit
  <2> QED
    BY <1>8, <2>1, <2>2, <2>3, <2>4 DEF StreamEnds
<1>9. ASSUME Executing, NEW out \in Outputs, FeedBack(out) PROVE RoundInv'
  BY <1>0, <1>9, RoundsFedBack
<1>10. CASE Refuse
  BY <1>9, <1>10 DEF Refuse, Executing, Outputs
<1>11. CASE Allow \/ Ask \/ (Answer /\ ~FeedBack("blocked"))
  BY <1>0, <1>11, RoundsRest DEF Allow, Ask, Answer, Executing, turn
<1>12. CASE Answer /\ FeedBack("blocked")
  BY <1>9, <1>12 DEF Answer, Executing, Outputs
<1>13. CASE RunTool
  <2>1. Executing /\ \E out \in Outputs : FeedBack(out)
    BY <1>13 DEF RunTool, Executing, Outputs, RunOutputs
  <2> QED
    BY <1>9, <2>1
<1>14. CASE Nudge
  BY <1>1, <1>14 DEF Nudge
<1>15. CASE Cancel \/ UNCHANGED vars
  BY <1>0, <1>15, RoundsRest DEF Cancel, vars, turn, Executing
<1> QED
  BY <1>2, <1>3, <1>4, <1>5, <1>6, <1>7, <1>8, <1>10, <1>11, <1>12, <1>13,
     <1>14, <1>15 DEF Next, Provider, Tool

-----------------------------------------------------------------------------
(* The log. *)

Answering == pc \notin {"idle", "persist", "nudge"}

(* A step that leaves the log alone. *)
LEMMA LogRests ==
  ASSUME LogInv, UNCHANGED <<store, replies, nudges>>,
         (pc' = "nudge") <=> (pc = "nudge"),
         Answering' => Answering,
         pc' = "idle" => outcome' = "error" \/ (pc = "idle" /\ outcome' = outcome)
  PROVE  LogInv'
<1>1. LogAnswersUser'
  BY DEF LogInv, LogAnswersUser
<1>2. LogInStep'
  BY DEF LogInv, LogInStep, Answering, LastRole
<1>3. NudgedSoFar'
  BY DEF LogInv, NudgedSoFar, Replied
<1> QED
  BY <1>1, <1>2, <1>3 DEF LogInv

(* The replies in a log. *)
RepliesIn(s) == {i \in DOMAIN s : s[i] = "assistant"}

LEMMA RepliesCounted ==
  ASSUME NEW s \in Seq({"user", "assistant"})
  PROVE  /\ Cardinality(RepliesIn(s)) \in Nat
         /\ Cardinality(RepliesIn(Append(s, "user"))) = Cardinality(RepliesIn(s))
         /\ Cardinality(RepliesIn(Append(s, "assistant")))
              = Cardinality(RepliesIn(s)) + 1
<1>1. /\ Len(s) \in Nat /\ DOMAIN s = 1 .. Len(s)
      /\ \A e \in {"user", "assistant"} :
           /\ DOMAIN Append(s, e) = 1 .. Len(s) + 1
           /\ \A i \in 1 .. Len(s) : Append(s, e)[i] = s[i]
           /\ Append(s, e)[Len(s) + 1] = e
  BY OneMore
<1>2. IsFiniteSet(RepliesIn(s)) /\ Len(s) + 1 \notin RepliesIn(s)
  <2>1. IsFiniteSet(1 .. Len(s)) /\ RepliesIn(s) \subseteq 1 .. Len(s)
    BY <1>1, FS_Interval DEF RepliesIn
  <2> QED
    BY <1>1, <2>1, FS_Subset
<1>3. RepliesIn(Append(s, "user")) = RepliesIn(s)
  BY <1>1 DEF RepliesIn
<1>4. RepliesIn(Append(s, "assistant")) = RepliesIn(s) \union {Len(s) + 1}
  BY <1>1 DEF RepliesIn
<1> QED
  BY <1>2, <1>3, <1>4, FS_CardinalityType, FS_AddElement

(* The user's message is persisted. *)
LEMMA LogGetsMessage ==
  ASSUME TypeOK, LogInv, pc = "persist", pc' = "assemble",
         store' = Append(store, "user"), UNCHANGED <<replies, nudges>>
  PROVE  LogInv'
<1>1. /\ Len(store) \in Nat /\ Len(store') = Len(store) + 1
      /\ DOMAIN store = 1 .. Len(store) /\ DOMAIN store' = 1 .. Len(store) + 1
      /\ \A i \in 1 .. Len(store) : store'[i] = store[i]
      /\ store'[Len(store) + 1] = "user" /\ store' # << >>
  BY OneMore DEF TypeOK
<1>2. \A i \in DOMAIN store' :
        store'[i] = "assistant" => i > 1 /\ store'[i - 1] = "user"
  BY <1>1 DEF LogInv, LogAnswersUser
<1>3. replies' = Cardinality({i \in DOMAIN store' : store'[i] = "assistant"})
  <2>1. replies = Cardinality(RepliesIn(store))
    BY DEF LogInv, LogAnswersUser, RepliesIn
  <2>2. Cardinality(RepliesIn(store')) = Cardinality(RepliesIn(store))
    BY RepliesCounted DEF TypeOK
  <2> QED
    BY <2>1, <2>2 DEF RepliesIn
<1>4. LogAnswersUser'
  BY <1>2, <1>3 DEF LogAnswersUser
<1>5. LogInStep'
  BY <1>1 DEF LogInStep, LastRole
<1>6. NudgedSoFar'
  BY DEF LogInv, NudgedSoFar, Replied
<1> QED
  BY <1>4, <1>5, <1>6 DEF LogInv

(* The reply is persisted and counted. *)
LEMMA LogGetsReply ==
  ASSUME TypeOK, LogInv, pc = "save", pc' = "nudge",
         store' = Append(store, "assistant"), replies' = replies + 1,
         nudges' = nudges
  PROVE  LogInv'
<1>1. /\ Len(store) \in Nat /\ Len(store') = Len(store) + 1
      /\ DOMAIN store = 1 .. Len(store) /\ DOMAIN store' = 1 .. Len(store) + 1
      /\ \A i \in 1 .. Len(store) : store'[i] = store[i]
      /\ store'[Len(store) + 1] = "assistant" /\ store' # << >>
  BY OneMore, SMTT(30) DEF TypeOK
<1>2. Len(store) >= 1 /\ store[Len(store)] = "user"
  <2>1. store # << >> /\ store[Len(store)] = "user"
    BY DEF LogInv, LogInStep, LastRole
  <2> QED
    BY <1>1, <2>1, EmptySeq DEF TypeOK
<1>3. ASSUME NEW i \in DOMAIN store', store'[i] = "assistant"
      PROVE  i > 1 /\ store'[i - 1] = "user"
  <2>1. CASE i = Len(store) + 1
    BY <1>1, <1>2, <2>1
  <2>2. CASE i \in 1 .. Len(store)
    <3>1. i > 1 /\ store[i - 1] = "user"
      BY <1>1, <1>3, <2>2 DEF LogInv, LogAnswersUser
    <3> QED
      BY <1>1, <2>2, <3>1
  <2> QED
    BY <1>1, <2>1, <2>2
<1>4. replies' = Cardinality({i \in DOMAIN store' : store'[i] = "assistant"})
  <2>1. replies = Cardinality(RepliesIn(store))
    BY DEF LogInv, LogAnswersUser, RepliesIn
  <2>2. Cardinality(RepliesIn(store')) = Cardinality(RepliesIn(store)) + 1
    BY RepliesCounted DEF TypeOK
  <2> QED
    BY <2>1, <2>2 DEF RepliesIn
<1>5. LogAnswersUser'
  BY <1>3, <1>4 DEF LogAnswersUser
<1>6. LogInStep'
  <2>1. replies' > 0
    BY DEF TypeOK
  <2> QED
    BY <1>1, <2>1 DEF LogInStep, LastRole
<1>7. NudgedSoFar'
  <2>1. Replied' = replies /\ Replied = replies
    BY DEF Replied, TypeOK
  <2> QED
    BY <2>1 DEF LogInv, NudgedSoFar
<1> QED
  BY <1>5, <1>6, <1>7 DEF LogInv

(* The cadence is looked at, and the step returns. *)
LEMMA LogGetsNudge ==
  ASSUME TypeOK, LogInv, Nudge PROVE LogInv'
<1>1. /\ pc = "nudge" /\ pc' = "idle" /\ UNCHANGED <<store, replies>>
      /\ nudges' = IF NudgeDue THEN nudges + 1 ELSE nudges
  BY DEF Nudge, Return
<1>2. LastRole("assistant") /\ replies \in Nat /\ replies > 0 /\ nudges \in Nat
  BY <1>1 DEF LogInv, LogInStep, TypeOK
<1>3. LogAnswersUser'
  BY <1>1, <1>2 DEF LogInv, LogAnswersUser, LastRole
<1>4. LogInStep'
  BY <1>1 DEF LogInStep
<1>5. NudgedSoFar'
  <2>1. SUFFICES ASSUME NudgeEvery > 0 PROVE nudges' = replies \div NudgeEvery
    BY <1>1 DEF NudgedSoFar, Replied
  <2>2. NudgeEvery \in Nat \ {0} /\ replies - 1 \in Nat
    BY <1>2, <2>1, BrainAssumption DEF BrainAssumption
  <2>3. nudges = (replies - 1) \div NudgeEvery
    BY <1>1, <2>1 DEF LogInv, NudgedSoFar, Replied
  <2>4. (replies - 1) + 1 = replies
    BY <1>2
  <2>5. replies \div NudgeEvery
          = IF replies % NudgeEvery = 0 THEN nudges + 1 ELSE nudges
    BY <2>2, <2>3, <2>4, NextMultiple
  <2>6. NudgeDue <=> replies % NudgeEvery = 0
    BY <2>1 DEF NudgeDue
  <2> QED
    BY <1>1, <2>5, <2>6
<1> QED
  BY <1>3, <1>4, <1>5 DEF LogInv

LEMMA LogStays == BrainInv /\ [Next]_vars => LogInv'
<1> SUFFICES ASSUME BrainInv, [Next]_vars PROVE LogInv'
  OBVIOUS
<1>0. TypeOK /\ LogInv
  BY DEF BrainInv
<1>1. ASSUME Fail, pc # "nudge" PROVE LogInv'
  BY <1>0, <1>1, LogRests DEF Fail, Return, log, Answering
<1>2. ASSUME Executing, NEW out, FeedBack(out) PROVE LogInv'
  <2>1. UNCHANGED log /\ pc' \in {"guard", "request"}
    BY <1>2 DEF FeedBack
  <2> QED
    BY <1>0, <1>2, <2>1, LogRests DEF log, Answering, Executing
<1>3. CASE StartStep
  BY <1>0, <1>3, LogRests DEF StartStep, log, Answering
<1>4. CASE PersistUser
  BY <1>0, <1>1, <1>4, LogGetsMessage DEF PersistUser
<1>5. CASE Assemble
  BY <1>0, <1>1, <1>5, LogRests DEF Assemble, log, Answering
<1>6. CASE Request
  BY <1>0, <1>1, <1>6, LogRests DEF Request, log, Answering
<1>7. CASE EmitCall \/ EmitError
  BY <1>0, <1>7, LogRests DEF EmitCall, EmitError, log, Answering
<1>8. CASE StreamFailed
  BY <1>1, <1>8 DEF StreamFailed
<1>9. CASE StreamEnds
  <2>1. CASE StreamCancelled
    BY <1>1, <1>9, <2>1 DEF StreamEnds, StreamCancelled
  <2>2. CASE UNCHANGED log /\ pc' \in {"save", "request", "guard"}
    BY <1>0, <1>9, <2>2, LogRests DEF StreamEnds, log, Answering
  <2> QED
    BY <1>9, <2>1, <2>2 DEF StreamEnds
<1>10. CASE Refuse
  BY <1>2, <1>10 DEF Refuse, Executing
<1>11. CASE Allow \/ Ask
  BY <1>0, <1>11, LogRests DEF Allow, Ask, log, Answering
<1>12. CASE Answer
  <2>1. CASE FeedBack("blocked")
    BY <1>2, <1>12, <2>1 DEF Answer, Executing
  <2>2. CASE UNCHANGED log /\ pc' = "running"
    BY <1>0, <1>12, <2>2, LogRests DEF Answer, log, Answering
  <2> QED
    BY <1>12, <2>1, <2>2 DEF Answer
<1>13. CASE RunTool
  BY <1>2, <1>13 DEF RunTool, Executing
<1>14. CASE SaveReply
  BY <1>0, <1>1, <1>14, LogGetsReply DEF SaveReply
<1>15. CASE Nudge
  BY <1>0, <1>15, LogGetsNudge
<1>16. CASE Cancel \/ UNCHANGED vars
  BY <1>0, <1>16, LogRests DEF Cancel, vars, log, Answering
<1> QED
  BY <1>3, <1>4, <1>5, <1>6, <1>7, <1>8, <1>9, <1>10, <1>11, <1>12, <1>13,
     <1>14, <1>15, <1>16 DEF Next, Provider, Tool

-----------------------------------------------------------------------------
(* A provider goroutine sends only while the step reads its stream. *)
LEMMA ProvidersEnd == BrainInv /\ [Next]_vars => NoProviderLeftSending'
<1> SUFFICES ASSUME BrainInv, [Next]_vars PROVE NoProviderLeftSending'
  OBVIOUS
<1>0. TypeOK /\ (sending => pc \in {"drain", "errdrain"})
  BY DEF BrainInv, NoProviderLeftSending
<1>1. ASSUME pc \notin {"drain", "errdrain"}, sending' = sending
      PROVE  NoProviderLeftSending'
  BY <1>0, <1>1 DEF NoProviderLeftSending
<1>2. ASSUME NEW out, FeedBack(out), pc \notin {"drain", "errdrain"}
      PROVE  NoProviderLeftSending'
  <2>1. sending' = sending
    BY <1>2 DEF FeedBack
  <2> QED
    BY <1>1, <1>2, <2>1
<1>3. CASE StartStep \/ PersistUser \/ Assemble \/ SaveReply \/ Nudge \/ Allow \/ Ask
  <2>1. pc \notin {"drain", "errdrain"}
    BY <1>3 DEF StartStep, PersistUser, Assemble, SaveReply, Nudge, Allow, Ask
  <2>2. sending' = sending
    BY <1>3 DEF StartStep, PersistUser, Assemble, SaveReply, Nudge, Allow, Ask,
                turn
  <2> QED
    BY <1>1, <2>1, <2>2
<1>4. CASE Request
  <2>1. CASE pc' = "drain"
    BY <2>1 DEF NoProviderLeftSending
  <2>2. CASE Fail /\ UNCHANGED sending
    BY <1>1, <1>4, <2>2 DEF Request
  <2> QED
    BY <1>4, <2>1, <2>2 DEF Request
<1>5. CASE EmitCall \/ EmitError
  BY <1>5 DEF EmitCall, EmitError, NoProviderLeftSending
<1>6. CASE StreamFailed \/ StreamEnds
  BY <1>6 DEF StreamFailed, StreamEnds, NoProviderLeftSending
<1>7. CASE Refuse
  BY <1>2, <1>7 DEF Refuse
<1>8. CASE Answer
  BY <1>1, <1>2, <1>8 DEF Answer, turn
<1>9. CASE RunTool
  BY <1>2, <1>9 DEF RunTool
<1>10. CASE Cancel \/ UNCHANGED vars
  <2>1. pc' = pc /\ sending' = sending
    BY <1>10 DEF Cancel, vars, turn
  <2> QED
    BY <1>0, <2>1 DEF NoProviderLeftSending
<1> QED
  BY <1>3, <1>4, <1>5, <1>6, <1>7, <1>8, <1>9, <1>10 DEF Next, Provider, Tool

LEMMA BrainGoesOn == BrainInv /\ [Next]_vars => BrainInv'
  BY TypeStays, RequestsStay, RoundsStay, LogStays, ProvidersEnd DEF BrainInv

LEMMA BrainStarts == Init => BrainInv
<1> SUFFICES ASSUME Init PROVE BrainInv
  OBVIOUS
<1>1. TypeOK
  <2>1. /\ messages \in Seq(Entries) /\ calls \in Seq(Calls)
        /\ store \in Seq({"user", "assistant"})
    BY EmptySeq DEF Init
  <2> QED
    BY <2>1 DEF Init, TypeOK, Places
<1>2. RequestInv
  BY DEF Init, RequestInv, ExecutesTheLast, RequestsAnswered, ResultsAsked,
         Executing
<1>3. RoundInv
  BY DEF Init, RoundInv, StartsEmpty, LoadedWasBrought, CallsNeedTools,
         OffersAdvertised, NothingRunsPastLimit
<1>4. LogInv
  <2>1. {i \in DOMAIN store : store[i] = "assistant"} = {}
    BY DEF Init
  <2>2. LogAnswersUser
    BY <2>1, FS_EmptySet DEF Init, LogAnswersUser
  <2>3. NudgedSoFar
    <3>1. NudgeEvery > 0 => 0 \div NudgeEvery = 0
      BY BrainAssumption DEF BrainAssumption
    <3> QED
      BY <3>1 DEF Init, NudgedSoFar, Replied
  <2> QED
    BY <2>2, <2>3 DEF Init, LogInv, LogInStep
<1>5. NoProviderLeftSending
  BY DEF Init, NoProviderLeftSending
<1> QED
  BY <1>1, <1>2, <1>3, <1>4, <1>5 DEF BrainInv

(* What the invariant says of the states at which the provider is called,   *)
(* of the tools a request offers, and of the log between steps.             *)
LEMMA BrainInvTells ==
  BrainInv => /\ RequestsFullyAnswered /\ LogAnswersUser /\ NudgedOnCadence
              /\ NothingRunsPastLimit /\ AdvertisedWasLoaded
<1> SUFFICES ASSUME BrainInv
             PROVE  /\ RequestsFullyAnswered /\ LogAnswersUser /\ NudgedOnCadence
                    /\ NothingRunsPastLimit /\ AdvertisedWasLoaded
  OBVIOUS
<1>0. TypeOK /\ RequestInv /\ RoundInv /\ LogInv
  BY DEF BrainInv
<1>1. RequestsFullyAnswered
  <2> SUFFICES ASSUME pc \in {"request", "drain"} PROVE RequestsFullyAnswered
    BY DEF RequestsFullyAnswered
  <2>1. \A i \in DOMAIN messages : IsRequest(messages[i]) => AnsweredFully(i)
    BY <1>0 DEF RequestInv, RequestsAnswered, Executing
  <2>2. ASSUME NEW i \in DOMAIN messages, IsRequest(messages[i])
        PROVE  DOMAIN messages[i].calls = 1 .. Len(messages[i].calls)
    <3>1. messages[i] \in Entries
      BY <1>0 DEF TypeOK
    <3>2. messages[i].calls \in Seq(Calls)
      BY <2>2, <3>1, EntryKinds DEF IsRequest
    <3> QED
      BY <3>2
  <2>3. ASSUME NEW i \in DOMAIN messages, IsRequest(messages[i])
        PROVE  /\ i + Len(messages[i].calls) <= Len(messages)
               /\ \A k \in DOMAIN messages[i].calls :
                    /\ IsResult(messages[i + k])
                    /\ messages[i + k].call = messages[i].calls[k]
    BY <2>1, <2>2, <2>3 DEF AnsweredFully, AnsweredTo
  <2>4. ResultsAsked
    BY <1>0 DEF RequestInv
  <2> QED
    BY <2>3, <2>4 DEF RequestsFullyAnswered, ResultsAsked
<1>2. LogAnswersUser /\ NudgedOnCadence
  BY <1>0 DEF LogInv, NudgedOnCadence, NudgedSoFar, Replied
<1>3. NothingRunsPastLimit
  BY <1>0 DEF RoundInv
<1>4. AdvertisedWasLoaded
  <2> SUFFICES ASSUME pc = "drain", PruningActive, round < TurnLimit
               PROVE  AdvertisedWasLoaded
    BY DEF AdvertisedWasLoaded
  <2>1. ToolsEnabled /\ ~CapReached
    <3>1. TurnLimit \in Int /\ round \in Int
      BY <1>0, BrainAssumption DEF TypeOK, BrainAssumption, TurnLimit
    <3> QED
      BY <3>1 DEF PruningActive, CapReached
  <2>2. offered = Core \union (loaded \intersect Runners)
    BY <1>0, <2>1 DEF RoundInv, OffersAdvertised, Advertised
  <2>3. ASSUME NEW r \in Runners
        PROVE  r \in loaded <=> \E i \in DOMAIN messages : Brings(messages[i], r)
    BY <1>0, BrainAssumption DEF BrainAssumption, RoundInv, LoadedWasBrought
  <2> QED
    BY <2>2, <2>3 DEF AdvertisedWasLoaded, Brings
<1> QED
  BY <1>1, <1>2, <1>3, <1>4

(* The invariant of one brain. *)
LEMMA BrainKeepsInvariant == Spec => []BrainInv
  BY BrainStarts, BrainGoesOn, PTL DEF Spec

(* Whenever the provider is called each recorded request is followed by the *)
(* results of its calls, in order, and no result stands without its request *)
(* (brain.go:400-424), for any tools, limits and streams.                   *)
THEOREM RequestsAreAnswered == Spec => []RequestsFullyAnswered
  BY BrainKeepsInvariant, BrainInvTells, PTL

(* However a step leaves the loop over a stream, no provider goroutine      *)
(* stays blocked on its channel (brain.go:357-363).                         *)
THEOREM ProvidersAreDrained == Spec => []NoProviderLeftSending
<1>1. BrainInv => NoProviderLeftSending
  BY DEF BrainInv
<1> QED
  BY <1>1, BrainKeepsInvariant, PTL

(* A step that fails writes no reply and leaves the user's message, if it   *)
(* was persisted, as the last of the log (brain.go:232-234), wherever the   *)
(* step stands and for any number of steps.                                 *)
LEMMA FailuresLeaveQuestions ==
  BrainInv /\ [Next]_vars => FailureLeavesQuestion
<1> SUFFICES ASSUME BrainInv, [Next]_vars, pc # "idle", pc' = "idle",
                    outcome' = "error"
             PROVE  /\ store' = store
                    /\ pc # "persist" => store # <<>> /\ store[Len(store)] = "user"
  BY DEF FailureLeavesQuestion
<1>1. store' = store /\ pc # "nudge"
  BY DEF Next, Provider, Tool, StartStep, PersistUser, Assemble, Request,
         EmitCall, EmitError, StreamFailed, StreamEnds, StreamCancelled, Refuse,
         Allow, Ask, Answer, RunTool, FeedBack, SaveReply, Nudge, Cancel, Fail,
         Return, log, vars
<1>2. pc # "persist" => store # <<>> /\ store[Len(store)] = "user"
  BY <1>1 DEF BrainInv, LogInv, LogInStep, LastRole
<1> QED
  BY <1>1, <1>2

(* A reply follows its message, the counter of replies agrees with the log, *)
(* the curator was nudged once for each full cadence, and a step that fails *)
(* leaves its question last in the log (brain.go:232-234, 286-300, 570-592),*)
(* for any number of steps and failures.                                    *)
THEOREM LogsStayInOrder == Spec => StepsLeaveOrder
<1>1. Spec => [](LogAnswersUser /\ NudgedOnCadence)
  BY BrainKeepsInvariant, BrainInvTells, PTL
<1>2. Spec => FailedStepsLeaveQuestions
  BY BrainKeepsInvariant, FailuresLeaveQuestions, PTL
     DEF Spec, FailedStepsLeaveQuestions
<1> QED
  BY <1>1, <1>2, PTL DEF StepsLeaveOrder

(* What a brain counts stays within its bounds, and a stream's tokens are   *)
(* those it was given.                                                      *)
THEOREM BrainsKeepTypes == Spec => []TypeOK
<1>1. BrainInv => TypeOK
  BY DEF BrainInv
<1> QED
  BY <1>1, BrainKeepsInvariant, PTL
=============================================================================
