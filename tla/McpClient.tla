----------------------------- MODULE McpClient -----------------------------
(***************************************************************************)
(* One JSON-RPC client of internal/mcp/client.go over a transport that is  *)
(* a child process (transport/stdio.go) or an event stream (sse.go).       *)
(* Callers register a request under a fresh id, send it and wait on a       *)
(* channel of their own; one goroutine receives messages, matches them by  *)
(* id and, when the stream is lost, fails whatever is pending.  Close may  *)
(* come at any time.                                                       *)
(*                                                                         *)
(* A message is the request it answers, a request of the server's own, or  *)
(* Noise (a notification, an unknown id, a line that does not parse).  The  *)
(* server counts its requests by itself, so one may bear an id the client   *)
(* has given out, and ParseResponse looks at nothing but the id.            *)
(* A caller runs one operation: Initialize and CallTool are one request,   *)
(* ListTools one for each page.                                            *)
(***************************************************************************)
EXTENDS Integers, Sequences, FiniteSets

CONSTANTS
  Callers,    (* goroutines that run an operation on the client              *)
  Listers,    (* those whose operation is ListTools                          *)
  Server,     (* who sends the server's own requests                         *)
  ServerIds,  (* the ids they may bear, of those the client gives out        *)
  Noise,      (* a message that answers no request                           *)
  Eof,        (* the error a lost stream leaves in the transport's channel   *)
  Gone,       (* what a closed channel yields                                *)
  MaxPages,   (* bound: pages of one ListTools                               *)
  MaxMessages (* bound: messages the server sends                            *)

ASSUME ClientAssumption ==
  /\ IsFiniteSet(Callers) /\ MaxPages \in Nat \ {0} /\ MaxMessages \in Nat
  /\ {Noise, Eof, Gone} \intersect
       [id : Nat, by : Callers \union {Server}, page : Nat] = {}
  /\ Noise # Eof /\ Server \notin Callers
  /\ ServerIds \subseteq 1 .. Cardinality(Callers) * MaxPages

Ids == 1 .. Cardinality(Callers) * MaxPages
Requests == [id : Ids, by : Callers, page : 1 .. MaxPages]
Own == [id : ServerIds, by : {Server}, page : {0}]
Letters == Requests \union Own

VARIABLES
  link,     (* "none" before NewClient, "up", "ended" or "closed" by Close   *)
  incoming, (* the transport's channel of received messages                  *)
  asked,    (* the requests the server has received                          *)
  spoke,    (* the server has sent a request of its own, for the properties  *)
  said,     (* messages the server has sent, for the bound                   *)
  reader,   (* receiveLoop: "receiving", "dispatching", "failing", "gone"    *)
  holding,  (* the response receiveLoop has matched, or Noise                *)
  reqID,    (* the last id given out                                         *)
  pending,  (* the ids in the pending map                                    *)
  mailbox,  (* the channel of each id                                        *)
  closer,   (* Close: "open", "marked", "waiting" or "closed"                *)
  pc,       (* where each caller stands                                      *)
  myID,     (* the id of its present request                                 *)
  page,     (* how many pages it has asked for                               *)
  got,      (* the response it read last                                     *)
  callDone   (* its context is done                                           *)

wire    == <<link, incoming, asked, spoke, said>>
receiver == <<reader, holding>>
table   == <<reqID, pending, mailbox>>
callers == <<pc, myID, page, got, callDone>>
clientVars == <<wire, receiver, table, closer, callers>>

ClientTypeOK ==
  /\ link \in {"none", "up", "ended", "closed"}
  /\ incoming \in Seq(Letters \union {Noise, Eof})
  /\ asked \subseteq Requests /\ spoke \in BOOLEAN /\ said \in 0 .. MaxMessages
  /\ reader \in {"receiving", "dispatching", "failing", "gone"}
  /\ holding \in Letters \union {Noise}
  /\ reqID \in Ids \union {0} /\ pending \subseteq Ids
  /\ mailbox \in [Ids -> {<<>>} \union {<<m>> : m \in Letters \union {Gone}}]
  /\ closer \in {"open", "marked", "waiting", "closed"}
  /\ pc \in [Callers -> {"idle", "sending", "waiting", "done"}]
  /\ myID \in [Callers -> Ids \union {0}]
  /\ page \in [Callers -> 0 .. MaxPages]
  /\ got \in [Callers -> Letters \union {Noise}]
  /\ callDone \in [Callers -> BOOLEAN]

ClientInit ==
  /\ link \in {"none", "up"}
  /\ incoming = <<>> /\ asked = {} /\ spoke = FALSE /\ said = 0
  /\ reader = "receiving" /\ holding = Noise
  /\ reqID = 0 /\ pending = {} /\ mailbox = [i \in Ids |-> <<>>]
  /\ closer = "open"
  /\ pc = [c \in Callers |-> "idle"]
  /\ myID = [c \in Callers |-> 0] /\ page = [c \in Callers |-> 0]
  /\ got = [c \in Callers |-> Noise] /\ callDone = [c \in Callers |-> FALSE]

-----------------------------------------------------------------------------
(* The callers.                                                             *)

PageLimit(c) == IF c \in Listers THEN MaxPages ELSE 1

(* A mutant: an id that is out of the map is given out again.               *)
NextIdReused == Cardinality(pending) + 1
NextId == reqID + 1

Finished(c) == pc' = [pc EXCEPT ![c] = "done"]

(* A mutant: the head does not look whether the client is closed.           *)
RegisterAfterClose(c) ==
  /\ link # "none" /\ pc[c] = "idle" /\ page[c] < PageLimit(c)
  /\ reqID' = reqID + 1
  /\ myID' = [myID EXCEPT ![c] = NextId]
  /\ pending' = pending \union {NextId}
  /\ mailbox' = [mailbox EXCEPT ![NextId] = <<>>]
  /\ page' = [page EXCEPT ![c] = @ + 1]
  /\ pc' = [pc EXCEPT ![c] = "sending"]
  /\ UNCHANGED <<wire, receiver, closer, got, callDone>>

(* The head of sendRequest, under mu: a fresh id and an empty channel.      *)
Register(c) ==
  /\ link # "none" /\ pc[c] = "idle"
  /\ \/ /\ closer = "open" /\ page[c] < PageLimit(c)
        /\ reqID' = reqID + 1
        /\ myID' = [myID EXCEPT ![c] = NextId]
        /\ pending' = pending \union {NextId}
        /\ mailbox' = [mailbox EXCEPT ![NextId] = <<>>]
        /\ page' = [page EXCEPT ![c] = @ + 1]
        /\ pc' = [pc EXCEPT ![c] = "sending"]
     \/ /\ closer # "open"
        /\ Finished(c)
        /\ UNCHANGED <<table, myID, page>>
  /\ UNCHANGED <<wire, receiver, closer, got, callDone>>

Request(c) == [id |-> myID[c], by |-> c, page |-> page[c]]

(* The request reaches the server while Send is under way: whether Send     *)
(* then succeeds is another matter, as the answer to the post may be an     *)
(* error, or never come.                                                    *)
Deliver(c) ==
  /\ pc[c] = "sending"
  /\ asked' = asked \union {Request(c)}
  /\ UNCHANGED <<link, incoming, spoke, said, receiver, table, closer, callers>>

(* Send returns without an error. *)
Sent(c) ==
  /\ pc[c] = "sending"
  /\ Request(c) \in asked
  /\ pc' = [pc EXCEPT ![c] = "waiting"]
  /\ UNCHANGED <<wire, receiver, table, closer, myID, page, got, callDone>>

(* A mutant: the entry stays.                                               *)
GiveUpKeepingEntry(c) == pending' = pending
(* removePending. *)
GiveUp(c) == pending' = pending \ {myID[c]}

(* Send fails, or the select sees the context or Close.                     *)
Abort(c) ==
  /\ \/ pc[c] = "sending"
     \/ pc[c] = "waiting" /\ (callDone[c] \/ closer # "open")
  /\ GiveUp(c)
  /\ Finished(c)
  /\ UNCHANGED <<wire, receiver, reqID, mailbox, closer, myID, page, got,
                 callDone>>

(* The select sees the caller's channel: a response, after which ListTools  *)
(* may ask for another page, or the channel closed by failAllPending.       *)
Read(c) ==
  /\ pc[c] = "waiting"
  /\ \/ \E m \in Letters :
          /\ mailbox[myID[c]] = <<m>>
          /\ got' = [got EXCEPT ![c] = m]
          /\ pc' \in {[pc EXCEPT ![c] = p] : p \in {"idle", "done"}}
          /\ pc'[c] = "idle" => page[c] < PageLimit(c)
     \/ /\ mailbox[myID[c]] = <<Gone>>
        /\ Finished(c)
        /\ UNCHANGED got
  /\ UNCHANGED <<wire, receiver, table, closer, myID, page, callDone>>

(* The caller's context ends.  While it sends, that shows as an error of    *)
(* Send, or only in the select after it.                                    *)
CancelRequest(c) ==
  /\ pc[c] = "waiting"
  /\ ~callDone[c]
  /\ callDone' = [callDone EXCEPT ![c] = TRUE]
  /\ UNCHANGED <<wire, receiver, table, closer, pc, myID, page, got>>

-----------------------------------------------------------------------------
(* The server: it answers what it was asked, late, twice, out of order or   *)
(* not at all, and has requests of its own.                                 *)
ServerSays ==
  /\ link = "up"
  /\ said < MaxMessages
  /\ said' = said + 1
  /\ \E m \in asked \union Own \union {Noise} :
       /\ incoming' = Append(incoming, m)
       /\ spoke' = (spoke \/ m \in Own)
  /\ UNCHANGED <<link, asked, receiver, table, closer, callers>>

StreamLost ==
  /\ link = "up"
  /\ link' = "ended"
  /\ incoming' = Append(incoming, Eof)
  /\ UNCHANGED <<asked, spoke, said, receiver, table, closer, callers>>

-----------------------------------------------------------------------------
(* receiveLoop.                                                             *)

Expected(m) == m # Noise /\ m.id \in pending

(* The entry goes out of the map. *)
TakeOut(m) == pending' = pending \ {m.id}

(* The transport hands over a message, or an error once the stream ended    *)
(* or was closed: the select of Receive may see either first.               *)
Receive ==
  /\ reader = "receiving"
  /\ link # "none"
  /\ \/ /\ incoming # <<>>
        /\ incoming' = Tail(incoming)
        /\ LET m == Head(incoming) IN
             \/ /\ m = Eof
                /\ reader' = "failing"
                /\ UNCHANGED <<holding, pending>>
             \/ /\ m # Eof /\ Expected(m)
                /\ TakeOut(m)
                /\ holding' = m
                /\ reader' = "dispatching"
             \/ /\ m # Eof /\ ~Expected(m)
                /\ UNCHANGED <<reader, holding, pending>>
     \/ /\ link = "closed"
        /\ reader' = "failing"
        /\ UNCHANGED <<incoming, holding, pending>>
  /\ UNCHANGED <<link, asked, spoke, said, reqID, mailbox, closer, callers>>

(* The response is put into its channel, which has room for one.            *)
Dispatch ==
  /\ reader = "dispatching"
  /\ mailbox' = [mailbox EXCEPT ![holding.id] =
                   IF @ = <<>> THEN <<holding>> ELSE @]
  /\ holding' = Noise
  /\ reader' = "receiving"
  /\ UNCHANGED <<wire, reqID, pending, closer, callers>>

(* A mutant: the map is emptied, nobody is told.                            *)
FailAllForgetting ==
  /\ reader = "failing"
  /\ pending' = {}
  /\ reader' = "gone"
  /\ UNCHANGED <<wire, holding, reqID, mailbox, closer, callers>>

(* failAllPending closes every registered channel and empties the map.      *)
FailAll ==
  /\ reader = "failing"
  /\ mailbox' = [i \in Ids |-> IF i \in pending THEN <<Gone>> ELSE mailbox[i]]
  /\ pending' = {}
  /\ reader' = "gone"
  /\ UNCHANGED <<wire, holding, reqID, closer, callers>>

-----------------------------------------------------------------------------
(* Close.                                                                   *)
MarkClosed ==
  /\ link # "none"
  /\ closer = "open"
  /\ closer' = "marked"
  /\ UNCHANGED <<wire, receiver, table, callers>>

(* A mutant: the transport is left as it is.                                *)
CloseNothing ==
  /\ closer = "marked"
  /\ closer' = "waiting"
  /\ UNCHANGED <<wire, receiver, table, callers>>

CloseTransport ==
  /\ closer = "marked"
  /\ closer' = "waiting"
  /\ link' = "closed"
  /\ UNCHANGED <<incoming, asked, spoke, said, receiver, table, callers>>

CloseReturns ==
  /\ closer = "waiting"
  /\ reader = "gone"
  /\ closer' = "closed"
  /\ UNCHANGED <<wire, receiver, table, callers>>

Loop == Receive \/ Dispatch \/ FailAll
Caller(c) ==
  \/ Register(c) \/ Deliver(c) \/ Sent(c) \/ Abort(c) \/ Read(c)
  \/ CancelRequest(c)
ClientNext ==
  \/ \E c \in Callers : Caller(c)
  \/ ServerSays \/ StreamLost
  \/ Loop
  \/ MarkClosed \/ CloseTransport \/ CloseReturns

ClientSpec == ClientInit /\ [][ClientNext]_clientVars

(* The client's own goroutines go on.  The server owes nothing, and a write *)
(* to a server that does not read ends only when the transport is closed.   *)
Returns(c) == Read(c) \/ ((pc[c] = "waiting" \/ link = "closed") /\ Abort(c))
ClientFairness ==
  /\ WF_clientVars(Loop)
  /\ WF_clientVars(CloseTransport \/ CloseReturns)
  /\ WF_clientVars(\E c \in Callers : Returns(c))

-----------------------------------------------------------------------------
(* A caller never reads the answer to a request of somebody else, nor the   *)
(* late answer to a request it gave up or to an earlier page; what is no    *)
(* answer at all it reads only as a request of the server's own under the   *)
(* very id it waits for, which the client takes for the answer              *)
(* (client.go:122-131).                                                     *)
AnswerIsOwn ==
  \A c \in Callers : got[c] # Noise =>
    /\ \/ got[c].by = Server
       \/ got[c].by = c /\ got[c].page \in {page[c] - 1, page[c]}
    /\ pc[c] = "idle" => got[c].id = myID[c]

(* The pending map holds nothing but requests somebody still waits for: a   *)
(* cancelled or failed call leaves no entry behind (client.go:180-197).     *)
PendingIsAwaited ==
  \A i \in pending :
    \E c \in Callers : myID[c] = i /\ pc[c] \in {"sending", "waiting"}

(* A waiting request that is no longer in the map has its answer, or is     *)
(* about to: taking an entry out and waking its caller go together.         *)
NobodyForgotten ==
  \A c \in Callers :
    (pc[c] = "waiting" /\ myID[c] \notin pending) =>
       \/ mailbox[myID[c]] # <<>>
       \/ reader = "dispatching" /\ holding.id = myID[c]

(* Every caller gets its own answer, and the map of pending requests and    *)
(* the callers that wait agree.                                             *)
ClientAnswers == AnswerIsOwn /\ PendingIsAwaited /\ NobodyForgotten

(* To its callers the client is one connection over which each asks and is  *)
(* answered; a page of a list is a request of its own.                      *)
Exchange == INSTANCE RequestReply
  WITH stage <- [c \in Callers |-> IF pc[c] = "sending" THEN "asking"
                                   ELSE IF pc[c] = "waiting" THEN "asked"
                                   ELSE pc[c]],
       turn <- page,
       served <- {<<m.by, m.page>> : m \in asked},
       answered <- [c \in Callers |-> IF got[c] = Noise THEN 0 ELSE got[c].page],
       gaveUp <- callDone,
       lost <- link \in {"ended", "closed"},
       closed <- closer # "open"

(* Whatever the server sends, in whatever order, and whenever the stream is *)
(* lost or the client closed, an operation ends with its own answer, or     *)
(* with an error: as long as the request is being sent for any cause, once  *)
(* it was only because its caller gave up, the stream was lost or the       *)
(* client closed.  Only a request of the server's own may be taken for the  *)
(* answer (client.go:114-233).                                              *)
ImplementsExchange == Exchange!Spec

(* No caller is left waiting.  When the stream is lost, every request       *)
(* registered before the receive loop noticed is answered with an error     *)
(* (client.go:144-154): who waits in the end is in the map, hence           *)
(* registered later, and waits for its context or for Close.  Close comes   *)
(* back, and every operation in flight with it (client.go:338-351).         *)
Settled ==
  /\ reader = "gone"
  /\ \A c \in Callers : pc[c] = "waiting" => myID[c] \in pending
  /\ closer # "open" =>
       closer = "closed" /\ \A c \in Callers : pc[c] \in {"idle", "done"}
NobodyLeftWaiting == (reader = "failing" \/ closer = "marked") ~> Settled
=============================================================================
