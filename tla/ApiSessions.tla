----------------------------- MODULE ApiSessions ----------------------------
(***************************************************************************)
(* The REST server of `agis serve` (internal/server/chat.go): every request *)
(* is a goroutine that runs one step of the one brain, on a conversation it *)
(* finds by the session the request names (Brain.StepWithSession...), and   *)
(* answers at once or as a stream.  Other processes, a gateway or the       *)
(* terminal, work on the same database.                                     *)
(*                                                                         *)
(* A conversation is a number, its id; a title is a session's name, or that *)
(* of nobody's session.  Parsing, authentication and CORS are left out.     *)
(***************************************************************************)
EXTENDS Integers, Sequences, FiniteSets, SequencesExt

CONSTANTS
  ApiRequests,
  ApiAsks,       (* what the requests may ask for: [by : "name", "id" or     *)
                 (* "nothing", name : a session, stream : BOOLEAN]           *)
  Untitled,
  MaxElsewhere   (* bound: what other processes do, and restarts, together   *)

Names == {q.name : q \in ApiAsks} \ {Untitled}
ASSUME ApiAssumption ==
  /\ \A q \in ApiAsks : q.by \in {"name", "id", "nothing"} /\ q.stream \in BOOLEAN
  /\ Untitled \notin ApiRequests /\ MaxElsewhere \in Nat

VARIABLES
  asking,     (* what each request asks for                                  *)
  place,      (* where its handler stands                                    *)
  landing,    (* the conversation of its step, 0 while it has none           *)
  received,   (* what the client has: nothing, a part of a stream, an error, *)
              (* or the whole answer                                         *)
  store,      (* the conversations: title, still there, messages             *)
  latest,     (* those still there, in the order of their last update        *)
  begunAfter, (* history: the requests over when this one began              *)
  elsewhere

handler == <<place, landing, received>>
database == <<store, latest>>
apiVars == <<asking, handler, database, begunAfter, elsewhere>>

Stored == ToSet(latest)
Entries == [role : {"user", "assistant"}, of : ApiRequests \union {Untitled}]

ApiTypeOK ==
  /\ asking \in [ApiRequests -> ApiAsks]
  /\ place \in [ApiRequests -> {"new", "resolve", "persist", "think", "save",
                                "answer", "over"}]
  /\ landing \in [ApiRequests -> 0 .. Len(store)]
  /\ received \in [ApiRequests -> {"nothing", "part", "error", "whole"}]
  /\ store \in Seq([title : Names \union {Untitled}, log : Seq(Entries)])
  /\ latest \in Seq(DOMAIN store) /\ IsInjective(latest)
  /\ begunAfter \in [ApiRequests -> SUBSET ApiRequests]
  /\ elsewhere \in 0 .. MaxElsewhere

ApiInit ==
  /\ asking \in [ApiRequests -> ApiAsks]
  /\ place = [r \in ApiRequests |-> "new"]
  /\ landing = [r \in ApiRequests |-> 0]
  /\ received = [r \in ApiRequests |-> "nothing"]
  /\ store = <<>> /\ latest = <<>>
  /\ begunAfter = [r \in ApiRequests |-> {}]
  /\ elsewhere = 0

Enter(r, p) == place' = [place EXCEPT ![r] = p]

Arrive(r) ==
  /\ place[r] = "new"
  /\ Enter(r, "resolve")
  /\ begunAfter' = [begunAfter EXCEPT ![r] =
                      {q \in ApiRequests : place[q] = "over"}]
  /\ UNCHANGED <<asking, landing, received, database, elsewhere>>

Lands(r, c) ==
  /\ landing' = [landing EXCEPT ![r] = c]
  /\ Enter(r, "persist")

Opened(r, title) ==
  /\ store' = Append(store, [title |-> title, log |-> <<>>])
  /\ latest' = Append(latest, Len(store) + 1)
  /\ Lands(r, Len(store) + 1)

OpenByTitle(r) ==
  /\ place[r] = "resolve"
  /\ \/ /\ asking[r].by = "name" /\ latest = <<>> /\ Opened(r, asking[r].name)
     \/ latest # <<>> /\ Lands(r, Last(latest)) /\ UNCHANGED database
  /\ UNCHANGED <<asking, received, begunAfter, elsewhere>>

(* GetConversation looks the session up as an id; a name is nobody's id, so *)
(* a conversation is made with the name for its title and an id of its own. *)
(* Without a session it is the latest conversation, or a new one.           *)
Open(r) ==
  /\ place[r] = "resolve"
  /\ \/ asking[r].by = "name" /\ Opened(r, asking[r].name)
     \/ /\ asking[r].by = "id"
        /\ \E c \in Stored : Lands(r, c)
        /\ UNCHANGED database
     \/ /\ asking[r].by = "nothing" /\ latest # <<>>
        /\ Lands(r, Last(latest))
        /\ UNCHANGED database
     \/ asking[r].by = "nothing" /\ latest = <<>> /\ Opened(r, Untitled)
  /\ UNCHANGED <<asking, received, begunAfter, elsewhere>>

(* AppendMessage: the message and the time of update in one transaction.    *)
Log(c, role, who) ==
  /\ c \in Stored
  /\ store' = [store EXCEPT ![c].log = Append(@, [role |-> role, of |-> who])]
  /\ latest' = Append(RemoveFirst(latest, c), c)

LogUser(r) ==
  /\ place[r] = "persist"
  /\ Log(landing[r], "user", r)
  /\ Enter(r, "think")
  /\ UNCHANGED <<asking, landing, received, begunAfter, elsewhere>>

(* The turn: a streaming request passes tokens on as they come.             *)
Think(r) ==
  /\ place[r] = "think"
  /\ \/ /\ received' = [received EXCEPT ![r] =
                          IF asking[r].stream THEN "part" ELSE @]
        /\ UNCHANGED place
     \/ Enter(r, "save") /\ UNCHANGED received
  /\ UNCHANGED <<asking, landing, database, begunAfter, elsewhere>>

AnswerUnsaved(r) ==
  /\ place[r] = "save"
  /\ Enter(r, "answer")
  /\ UNCHANGED <<asking, landing, received, database, begunAfter, elsewhere>>

LogReplyRetried(r) ==
  /\ place[r] = "save"
  /\ Log(landing[r], "assistant", r)
  /\ UNCHANGED place \/ Enter(r, "answer")
  /\ UNCHANGED <<asking, landing, received, begunAfter, elsewhere>>

LogReply(r) ==
  /\ place[r] = "save"
  /\ Log(landing[r], "assistant", r)
  /\ Enter(r, "answer")
  /\ UNCHANGED <<asking, landing, received, begunAfter, elsewhere>>

(* The step returned: the answer, or the stream's last chunk and [DONE];    *)
(* writing may be too late for the client.                                  *)
Answered(r) ==
  /\ place[r] = "answer"
  /\ Enter(r, "over")
  /\ \/ received' = [received EXCEPT ![r] = "whole"]
     \/ UNCHANGED received
  /\ UNCHANGED <<asking, landing, database, begunAfter, elsewhere>>

(* The step fails, for the conversation is gone, the provider failed or the *)
(* client hung up: an error, unless the client left or the stream began.    *)
StepFailed(r) ==
  /\ place[r] \in {"resolve", "persist", "think", "save"}
  /\ Enter(r, "over")
  /\ \/ received' = [received EXCEPT ![r] =
                       IF asking[r].stream THEN @ ELSE "error"]
     \/ UNCHANGED received
  /\ UNCHANGED <<asking, landing, database, begunAfter, elsewhere>>

Elsewhere == elsewhere < MaxElsewhere /\ elsewhere' = elsewhere + 1

(* Another process has a conversation of its own, or deletes one.           *)
OthersTalk ==
  /\ Elsewhere
  /\ \/ /\ store' = Append(store, [title |-> Untitled, log |-> <<>>])
        /\ latest' = Append(latest, Len(store) + 1)
     \/ \E c \in Stored : store[c].title = Untitled /\ Log(c, "user", Untitled)
  /\ UNCHANGED <<asking, handler, begunAfter>>
OthersDelete ==
  /\ Elsewhere
  /\ \E c \in Stored : latest' = RemoveFirst(latest, c)
  /\ UNCHANGED <<asking, handler, store, begunAfter>>

(* The server goes down, after ten seconds of Shutdown or at once, and the  *)
(* requests in hand with it.                                                *)
ServerRestarts ==
  /\ Elsewhere
  /\ place' = [r \in ApiRequests |-> IF place[r] = "new" THEN "new" ELSE "over"]
  /\ UNCHANGED <<asking, landing, received, database, begunAfter>>

ApiNext ==
  \/ \E r \in ApiRequests :
       \/ Arrive(r) \/ Open(r) \/ LogUser(r) \/ Think(r) \/ LogReply(r)
       \/ Answered(r) \/ StepFailed(r)
  \/ OthersTalk \/ OthersDelete \/ ServerRestarts

ApiSpec == ApiInit /\ [][ApiNext]_apiVars

-----------------------------------------------------------------------------
(* A client that has a whole answer, down to [DONE], has one that is in the *)
(* conversation behind its question, and neither is there, or in any other  *)
(* conversation, a second time, whatever crashed, was deleted or hung up    *)
(* (chat.go:105-131, brain.go:272-289).                                     *)
WholeMeansSaved ==
  \A r \in ApiRequests : received[r] = "whole" =>
    \E u, a \in DOMAIN store[landing[r]].log :
      /\ u < a
      /\ store[landing[r]].log[u] = [role |-> "user", of |-> r]
      /\ store[landing[r]].log[a] = [role |-> "assistant", of |-> r]
      /\ \A c \in DOMAIN store : \A i \in DOMAIN store[c].log :
           store[c].log[i].of = r => c = landing[r] /\ i \in {u, a}

(* A request that names a session never sees, or adds to, the conversation  *)
(* of another one, nor to one another process began; only requests without  *)
(* a session do.                                                            *)
SessionsStayApart ==
  \A c \in DOMAIN store : \A i \in DOMAIN store[c].log :
    LET r == store[c].log[i].of
    IN  (r \in ApiRequests /\ asking[r].by = "name")
          => store[c].title = asking[r].name

ApiKeepsItsWord == WholeMeansSaved /\ SessionsStayApart

(* api-server/spec.md:7 and 105: the name of a session connects a client to *)
(* one conversation, so a request that follows an answered one of the same  *)
(* name goes on with it.                                                    *)
SessionContinues ==
  \A q, r \in ApiRequests :
    (/\ asking[q].by = "name" /\ asking[r].by = "name"
     /\ asking[q].name = asking[r].name
     /\ received[q] = "whole" /\ q \in begunAfter[r]
     /\ landing[q] \in Stored /\ landing[r] # 0)
      => landing[r] = landing[q]
=============================================================================
