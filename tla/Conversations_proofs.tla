------------------------ MODULE Conversations_proofs -------------------------
(***************************************************************************)
(* What is kept of conversations, whoever works on them at the same time:  *)
(* the answers of the REST server (ApiSessions), and the sessions'         *)
(* summaries, snapshots and what is learned from them (SessionBook).       *)
(*                                                                         *)
(* For the server, how far a request has come shows in the logs: no        *)
(* message of it, its question, or its question and one answer behind it;  *)
(* and a message is in the log at the latest when the client hears of it.  *)
(* For the sessions, what a terminal has read of one is no more than what  *)
(* is there as long as it is there, for exchanges are only added and the   *)
(* number of a deleted session is not given again; and what a close is     *)
(* about to write to the user model is what it has written to the memory.  *)
(***************************************************************************)
EXTENDS ApiSessions, SessionBook, SequenceLemmas

-----------------------------------------------------------------------------
(* The REST server (internal/server/chat.go).  *)

Conversation == [title : Names \union {Untitled}, log : Seq(Entries)]
Of(log, r) == {i \in DOMAIN log : log[i].of = r}

(* How far a request has come shows in the logs: nothing of it before its   *)
(* message is stored, then the one message, then its answer behind it.      *)
NotYetLogged(r) == \A c \in DOMAIN store : Of(store[c].log, r) = {}
HasAsked(r) ==
  \E u \in DOMAIN store[landing[r]].log :
    /\ Of(store[landing[r]].log, r) = {u}
    /\ store[landing[r]].log[u].role = "user"
HasItsAnswer(r) ==
  \E u, a \in DOMAIN store[landing[r]].log :
    /\ u < a /\ Of(store[landing[r]].log, r) = {u, a}
    /\ store[landing[r]].log[u].role = "user"
    /\ store[landing[r]].log[a].role = "assistant"
LogsTell ==
  \A r \in ApiRequests :
    /\ place[r] \in {"new", "resolve", "persist"} => NotYetLogged(r)
    /\ place[r] \in {"think", "save"} => HasAsked(r)
    /\ place[r] = "answer" \/ received[r] = "whole" => HasItsAnswer(r)
    /\ received[r] = "whole" => place[r] = "over"

(* A step works on a conversation, which is its session's if it names one.  *)
Landed ==
  \A r \in ApiRequests :
    /\ place[r] \in {"persist", "think", "save", "answer"} \/ received[r] = "whole"
         => landing[r] \in DOMAIN store
    /\ place[r] \in {"persist", "think", "save"} /\ asking[r].by = "name"
         => store[landing[r]].title = asking[r].name

(* A request's messages lie in the conversation its step landed on.         *)
WhereItLanded ==
  \A r \in ApiRequests : \A c \in DOMAIN store :
    c # landing[r] => Of(store[c].log, r) = {}

ApiInv == /\ ApiTypeOK /\ Landed /\ LogsTell /\ WhereItLanded
          /\ SessionsStayApart

-----------------------------------------------------------------------------
(* What the types say of the conversations and their order. *)
LEMMA StoreTyped ==
  ASSUME ApiTypeOK
  PROVE  /\ store \in Seq(Conversation) /\ Len(store) \in Nat
         /\ DOMAIN store = 1 .. Len(store)
         /\ Stored \subseteq DOMAIN store
         /\ latest # <<>> => Last(latest) \in Stored
         /\ \A c \in DOMAIN store : store[c].log \in Seq(Entries)
<1>1. store \in Seq(Conversation) /\ latest \in Seq(DOMAIN store)
  BY DEF ApiTypeOK, Conversation
<1>2. \A c \in DOMAIN store : store[c] \in Conversation
  BY <1>1
<1>3. Stored \subseteq DOMAIN store
  BY <1>1 DEF Stored, ToSet
<1>4. latest # <<>> => Last(latest) \in Stored
  <2>1. latest # <<>> => Len(latest) \in DOMAIN latest
    BY <1>1
  <2> QED
    BY <2>1 DEF Stored, ToSet, Last
<1> QED
  BY <1>1, <1>2, <1>3, <1>4 DEF Conversation

(* Opening a conversation and writing to one are all that happens to them.  *)
Begun(title) == store' = Append(store, [title |-> title, log |-> <<>>])
                /\ latest' = Append(latest, Len(store) + 1)

(* A new conversation is empty, comes last, and leaves the others alone. *)
LEMMA RequestBegins ==
  ASSUME ApiTypeOK, NEW title \in Names \union {Untitled}, Begun(title)
  PROVE  /\ store' \in Seq(Conversation) /\ Len(store') = Len(store) + 1
         /\ DOMAIN store' = 1 .. Len(store) + 1
         /\ \A c \in DOMAIN store : store'[c] = store[c]
         /\ store'[Len(store) + 1] = [title |-> title, log |-> <<>>]
         /\ latest' \in Seq(DOMAIN store') /\ IsInjective(latest')
<1> DEFINE new == [title |-> title, log |-> <<>>]
           n == Len(store) + 1
<1>1. store \in Seq(Conversation) /\ new \in Conversation
  BY StoreTyped DEF Conversation
<1>2. /\ store' \in Seq(Conversation) /\ Len(store') = n
      /\ \A c \in 1 .. Len(store) : store'[c] = store[c]
      /\ store'[n] = new /\ Len(store) \in Nat /\ DOMAIN store = 1 .. Len(store)
  <2> HIDE DEF new
  <2> QED
    BY <1>1, AppendProperties DEF Begun, new
<1>3. DOMAIN store' = 1 .. n
  BY <1>2
<1>4. DOMAIN store \subseteq DOMAIN store' /\ n \in DOMAIN store' /\ n \notin DOMAIN store
  BY <1>2, <1>3
<1>5. latest \in Seq(DOMAIN store) /\ IsInjective(latest)
  BY DEF ApiTypeOK
<1> HIDE DEF n
<1>6. latest \in Seq(DOMAIN store') /\ n \notin ToSet(latest)
  <2>1. \A i \in DOMAIN latest : latest[i] \in DOMAIN store
    BY <1>5
  <2> QED
    BY <1>4, <1>5, <2>1 DEF ToSet
<1> DEFINE D == DOMAIN store'
<1>7. n \in D /\ latest \in Seq(D)
  BY <1>4, <1>6
<1> HIDE DEF D
<1>8. Append(latest, n) \in Seq(D) /\ IsInjective(Append(latest, n))
  BY <1>5, <1>6, <1>7, PutBehind
<1> QED
  BY <1>2, <1>3, <1>8 DEF Begun, n, D

(* A message is put behind the others of its conversation, which becomes    *)
(* the latest; the other conversations are left alone.                      *)
LEMMA Logs ==
  ASSUME ApiTypeOK, NEW c, NEW role \in {"user", "assistant"},
         NEW who \in ApiRequests \union {Untitled}, Log(c, role, who)
  PROVE  /\ c \in DOMAIN store
         /\ store' \in Seq(Conversation) /\ Len(store') = Len(store)
         /\ DOMAIN store' = DOMAIN store
         /\ \A d \in DOMAIN store : /\ store'[d].title = store[d].title
                                    /\ d # c => store'[d] = store[d]
         /\ Len(store[c].log) \in Nat
         /\ DOMAIN store[c].log = 1 .. Len(store[c].log)
         /\ DOMAIN store'[c].log = 1 .. Len(store[c].log) + 1
         /\ \A i \in DOMAIN store[c].log : store'[c].log[i] = store[c].log[i]
         /\ store'[c].log[Len(store[c].log) + 1] = [role |-> role, of |-> who]
         /\ latest' \in Seq(DOMAIN store) /\ IsInjective(latest')
<1> DEFINE entry == [role |-> role, of |-> who]
           new == [store[c] EXCEPT !.log = Append(@, entry)]
<1>1. c \in DOMAIN store /\ store' = [store EXCEPT ![c] = new]
      /\ latest' = Append(RemoveFirst(latest, c), c)
  BY StoreTyped DEF Log
<1>2. /\ store \in Seq(Conversation) /\ store[c] \in Conversation
      /\ store[c].log \in Seq(Entries) /\ entry \in Entries
  <2>1. store \in Seq(Conversation) /\ store[c].log \in Seq(Entries)
    BY <1>1, StoreTyped
  <2>2. store[c] \in Conversation
    BY <1>1, <2>1
  <2> QED
    BY <2>1, <2>2 DEF Entries
<1> DEFINE old == store[c].log
           now == Append(old, entry)
<1>3. /\ now \in Seq(Entries) /\ Len(now) = Len(old) + 1 /\ Len(old) \in Nat
      /\ \A i \in 1 .. Len(old) : now[i] = old[i]
      /\ now[Len(old) + 1] = entry
  <2> HIDE DEF entry, old
  <2>1. old \in Seq(Entries) /\ entry \in Entries
    BY <1>2 DEF old
  <2> QED
    BY <2>1, AppendProperties
<1>4. new \in Conversation /\ new.title = store[c].title /\ new.log = now
  <2> HIDE DEF entry
  <2> QED
    BY <1>2, <1>3 DEF Conversation
<1>5. DOMAIN old = 1 .. Len(old) /\ DOMAIN now = 1 .. Len(now)
  <2> HIDE DEF now, old
  <2>1. old \in Seq(Entries)
    BY <1>2 DEF old
  <2> QED
    BY <1>3, <2>1
<1> HIDE DEF new
<1>6. /\ store' \in Seq(Conversation) /\ Len(store') = Len(store)
      /\ DOMAIN store' = DOMAIN store
      /\ \A d \in DOMAIN store : store'[d] = IF d = c THEN new ELSE store[d]
  BY <1>1, <1>2, <1>4
<1>7. latest' \in Seq(DOMAIN store) /\ IsInjective(latest')
  <2>1. latest \in Seq(DOMAIN store) /\ IsInjective(latest)
    BY DEF ApiTypeOK
  <2> QED
    BY <1>1, <2>1, MovedBehind
<1>8. store'[c].log = now
  BY <1>1, <1>4, <1>6
<1> HIDE DEF now, old, entry
<1>9. \A d \in DOMAIN store : /\ store'[d].title = store[d].title
                              /\ d # c => store'[d] = store[d]
  BY <1>1, <1>4, <1>6
<1>10. /\ Len(store[c].log) \in Nat
       /\ DOMAIN store[c].log = 1 .. Len(store[c].log)
       /\ DOMAIN store'[c].log = 1 .. Len(store[c].log) + 1
       /\ \A i \in DOMAIN store[c].log : store'[c].log[i] = store[c].log[i]
       /\ store'[c].log[Len(store[c].log) + 1] = [role |-> role, of |-> who]
  <2>1. store[c].log = old /\ entry = [role |-> role, of |-> who]
    BY DEF old, entry
  <2> QED
    BY <1>3, <1>5, <1>8, <2>1
<1> QED
  BY <1>1, <1>6, <1>7, <1>9, <1>10

(* A request's own messages, in the logs after a step.  *)
LEMMA OfOthers ==
  ASSUME ApiTypeOK, NEW r \in ApiRequests,
         \/ store' = store
         \/ \E title \in Names \union {Untitled} : Begun(title)
         \/ \E role \in {"user", "assistant"},
               who \in (ApiRequests \union {Untitled}) \ {r} :
              \E c \in Stored : Log(c, role, who)
  PROVE  /\ DOMAIN store \subseteq DOMAIN store'
         /\ \A c \in DOMAIN store :
              /\ store'[c].title = store[c].title
              /\ Of(store'[c].log, r) = Of(store[c].log, r)
              /\ DOMAIN store[c].log \subseteq DOMAIN store'[c].log
              /\ \A i \in Of(store[c].log, r) : store'[c].log[i] = store[c].log[i]
         /\ \A c \in DOMAIN store' \ DOMAIN store : Of(store'[c].log, r) = {}
<1>1. CASE store' = store
  BY <1>1
<1>2. ASSUME NEW title \in Names \union {Untitled}, Begun(title)
      PROVE  /\ DOMAIN store' = DOMAIN store \union {Len(store) + 1}
             /\ \A c \in DOMAIN store : store'[c] = store[c]
             /\ Of(store'[Len(store) + 1].log, r) = {}
  <2>1. DOMAIN store' = DOMAIN store \union {Len(store) + 1}
    <3>1. DOMAIN store' = 1 .. Len(store) + 1
      BY <1>2, RequestBegins
    <3>2. DOMAIN store = 1 .. Len(store) /\ Len(store) \in Nat
      BY StoreTyped
    <3> QED
      BY <3>1, <3>2
  <2>2. \A c \in DOMAIN store : store'[c] = store[c]
    BY <1>2, RequestBegins
  <2>3. Of(store'[Len(store) + 1].log, r) = {}
    <3>1. store'[Len(store) + 1] = [title |-> title, log |-> <<>>]
      BY <1>2, RequestBegins
    <3> QED
      BY <3>1 DEF Of
  <2> QED
    BY <2>1, <2>2, <2>3
<1>3. ASSUME NEW c, NEW role \in {"user", "assistant"},
             NEW who \in (ApiRequests \union {Untitled}) \ {r}, Log(c, role, who)
      PROVE  /\ DOMAIN store' = DOMAIN store
             /\ \A d \in DOMAIN store :
                  /\ store'[d].title = store[d].title
                  /\ Of(store'[d].log, r) = Of(store[d].log, r)
                  /\ DOMAIN store[d].log \subseteq DOMAIN store'[d].log
                  /\ \A i \in Of(store[d].log, r) :
                       store'[d].log[i] = store[d].log[i]
  <2>0. PICK n : n = Len(store[c].log)
    OBVIOUS
  <2>1. who \in ApiRequests \union {Untitled}
    OBVIOUS
  <2>2. /\ DOMAIN store' = DOMAIN store
        /\ \A d \in DOMAIN store : /\ store'[d].title = store[d].title
                                   /\ d # c => store'[d] = store[d]
        /\ n \in Nat /\ DOMAIN store[c].log = 1 .. n
        /\ DOMAIN store'[c].log = 1 .. n + 1
        /\ \A i \in DOMAIN store[c].log : store'[c].log[i] = store[c].log[i]
        /\ store'[c].log[n + 1] = [role |-> role, of |-> who]
    <3>1. /\ DOMAIN store' = DOMAIN store
          /\ \A d \in DOMAIN store : /\ store'[d].title = store[d].title
                                     /\ d # c => store'[d] = store[d]
          /\ Len(store[c].log) \in Nat
          /\ DOMAIN store[c].log = 1 .. Len(store[c].log)
          /\ DOMAIN store'[c].log = 1 .. Len(store[c].log) + 1
          /\ \A i \in DOMAIN store[c].log : store'[c].log[i] = store[c].log[i]
          /\ store'[c].log[Len(store[c].log) + 1] = [role |-> role, of |-> who]
      BY <1>3, <2>1, Logs
    <3> QED
      BY <2>0, <3>1
  <2>3. DOMAIN store'[c].log = DOMAIN store[c].log \union {n + 1}
    BY <2>2
  <2>4. /\ Of(store'[c].log, r) = Of(store[c].log, r)
        /\ \A i \in Of(store[c].log, r) : store'[c].log[i] = store[c].log[i]
    BY <1>3, <2>2, <2>3 DEF Of
  <2> QED
    BY <2>2, <2>3, <2>4
<1> QED
  BY <1>1, <1>2, <1>3

(* The step that writes a message of its own.  *)
LEMMA OfItself ==
  ASSUME ApiTypeOK, NEW r \in ApiRequests, NEW role \in {"user", "assistant"},
         NEW c, Log(c, role, r)
  PROVE  LET n == Len(store[c].log) + 1
         IN  /\ c \in DOMAIN store /\ n \in DOMAIN store'[c].log
             /\ \A i \in DOMAIN store[c].log :
                  i \in DOMAIN store'[c].log /\ i < n
             /\ Of(store'[c].log, r) = Of(store[c].log, r) \union {n}
             /\ \A i \in DOMAIN store[c].log : store'[c].log[i] = store[c].log[i]
             /\ store'[c].log[n].role = role
<1> DEFINE n == Len(store[c].log) + 1
<1>1. /\ Len(store[c].log) \in Nat
      /\ DOMAIN store[c].log = 1 .. Len(store[c].log)
      /\ DOMAIN store'[c].log = 1 .. n /\ c \in DOMAIN store
      /\ \A i \in DOMAIN store[c].log : store'[c].log[i] = store[c].log[i]
      /\ store'[c].log[n] = [role |-> role, of |-> r]
  BY Logs
<1>2. /\ n \in DOMAIN store'[c].log
      /\ DOMAIN store'[c].log = DOMAIN store[c].log \union {n}
      /\ \A i \in DOMAIN store[c].log : i \in DOMAIN store'[c].log /\ i < n
  BY <1>1
<1> HIDE DEF n
<1>3. Of(store'[c].log, r) = Of(store[c].log, r) \union {n}
  BY <1>1, <1>2 DEF Of
<1> QED
  BY <1>1, <1>2, <1>3 DEF n

-----------------------------------------------------------------------------
RequestSteps(r) == \/ Arrive(r) \/ Open(r) \/ LogUser(r) \/ Think(r) \/ LogReply(r)
                   \/ Answered(r) \/ StepFailed(r)

(* A request's handler writes only what is its own.  *)
LEMMA ByTitle ==
  ASSUME ApiTypeOK, NEW r \in ApiRequests
  PROVE  /\ asking[r].name \in Names \union {Untitled}
         /\ asking[r].by \in {"name", "id", "nothing"}
         /\ asking[r].stream \in BOOLEAN
<1>1. asking[r] \in ApiAsks
  BY DEF ApiTypeOK
<1> QED
  BY <1>1, ApiAssumption DEF Names

(* A step leaves the database, takes one conversation out of the order,     *)
(* begins one or writes one message.                                        *)
LEMMA StoreSteps ==
  ASSUME ApiTypeOK, [ApiNext]_apiVars
  PROVE  \/ /\ store' = store
            /\ latest' = latest \/ \E c \in Stored : latest' = RemoveFirst(latest, c)
         \/ \E title \in Names \union {Untitled} : Begun(title)
         \/ \E role \in {"user", "assistant"}, who \in ApiRequests \union {Untitled} :
              \E c \in Stored : Log(c, role, who)
<1>1. ASSUME NEW r \in ApiRequests, RequestSteps(r)
      PROVE  \/ UNCHANGED database
             \/ \E title \in Names \union {Untitled} : Begun(title)
             \/ \E role \in {"user", "assistant"} : \E c \in Stored : Log(c, role, r)
  <2>1. asking[r].name \in Names \union {Untitled}
    BY ByTitle
  <2>2. CASE Open(r)
    BY <2>1, <2>2 DEF Open, Opened, Begun, database
  <2>3. CASE LogUser(r)
    <3>1. Log(landing[r], "user", r) /\ landing[r] \in Stored
      BY <2>3 DEF LogUser, Log
    <3> QED
      BY <3>1
  <2>4. CASE LogReply(r)
    <3>1. Log(landing[r], "assistant", r) /\ landing[r] \in Stored
      BY <2>4 DEF LogReply, Log
    <3> QED
      BY <3>1
  <2>5. CASE Arrive(r) \/ Think(r) \/ Answered(r) \/ StepFailed(r)
    BY <2>5 DEF Arrive, Think, Answered, StepFailed, database
  <2> QED
    BY <1>1, <2>2, <2>3, <2>4, <2>5 DEF RequestSteps
<1>2. CASE OthersTalk
  <2>1. Begun(Untitled) \/ \E c \in Stored : Log(c, "user", Untitled)
    BY <1>2 DEF OthersTalk, Begun
  <2> QED
    BY <2>1
<1>3. CASE OthersDelete
  BY <1>3 DEF OthersDelete
<1>4. CASE ServerRestarts \/ UNCHANGED apiVars
  BY <1>4 DEF ServerRestarts, apiVars, database
<1> QED
  BY <1>1, <1>2, <1>3, <1>4 DEF ApiNext, RequestSteps, database

(* The steps of the server and of other processes keep the types. *)
LEMMA ApiTypesStay ==
  ASSUME ApiTypeOK, Landed, [ApiNext]_apiVars
  PROVE  ApiTypeOK'
<1> USE ApiAssumption
<1>1. /\ asking \in [ApiRequests -> ApiAsks]
      /\ place \in [ApiRequests -> {"new", "resolve", "persist", "think", "save",
                                    "answer", "over"}]
      /\ landing \in [ApiRequests -> 0 .. Len(store)]
      /\ received \in [ApiRequests -> {"nothing", "part", "error", "whole"}]
      /\ begunAfter \in [ApiRequests -> SUBSET ApiRequests]
      /\ elsewhere \in 0 .. MaxElsewhere
      /\ latest \in Seq(DOMAIN store) /\ IsInjective(latest)
  BY DEF ApiTypeOK
<1>2. /\ store' \in Seq(Conversation) /\ Len(store') \in {Len(store), Len(store) + 1}
      /\ latest' \in Seq(DOMAIN store') /\ IsInjective(latest')
      /\ Len(store) \in Nat /\ DOMAIN store = 1 .. Len(store)
  <2>1. /\ store \in Seq(Conversation) /\ Len(store) \in Nat
        /\ DOMAIN store = 1 .. Len(store)
    BY StoreTyped
  <2>2. ASSUME store' = store, NEW c, latest' = RemoveFirst(latest, c)
        PROVE  latest' \in Seq(DOMAIN store) /\ IsInjective(latest')
    BY <1>1, <2>2, TakenOut
  <2>3. ASSUME NEW title \in Names \union {Untitled}, Begun(title)
        PROVE  /\ store' \in Seq(Conversation) /\ Len(store') = Len(store) + 1
               /\ latest' \in Seq(DOMAIN store') /\ IsInjective(latest')
    BY <2>3, RequestBegins
  <2>4. ASSUME NEW role \in {"user", "assistant"},
               NEW who \in ApiRequests \union {Untitled},
               NEW c \in Stored, Log(c, role, who)
        PROVE  /\ store' \in Seq(Conversation) /\ Len(store') = Len(store)
               /\ latest' \in Seq(DOMAIN store') /\ IsInjective(latest')
    <3>1. /\ store' \in Seq(Conversation) /\ Len(store') = Len(store)
          /\ DOMAIN store' = DOMAIN store
          /\ latest' \in Seq(DOMAIN store) /\ IsInjective(latest')
      BY <2>4, Logs
    <3> QED
      BY <3>1
  <2> QED
    BY <1>1, <2>1, <2>2, <2>3, <2>4, StoreSteps
<1> DEFINE L == 0 .. Len(store')
<1>4. landing \in [ApiRequests -> L]
  BY <1>1, <1>2
<1>5. \A r \in ApiRequests : Open(r) => landing' \in [ApiRequests -> L]
  <2> SUFFICES ASSUME NEW r \in ApiRequests, Open(r)
               PROVE  landing' \in [ApiRequests -> L]
    OBVIOUS
  <2>1. CASE store' = store
    <3>1. ASSUME NEW c \in Stored, Lands(r, c)
          PROVE  landing' \in [ApiRequests -> L]
      <4>1. c \in L
        BY <1>2, <2>1, <3>1, StoreTyped
      <4> HIDE DEF L
      <4> QED
        BY <1>4, <3>1, <4>1 DEF Lands
    <3>2. latest # <<>> => Last(latest) \in Stored
      BY StoreTyped
    <3>3. \A title : ~Opened(r, title)
      <4> SUFFICES ASSUME NEW title, Opened(r, title)
                   PROVE  FALSE
        OBVIOUS
      <4>1. store' = Append(store, [title |-> title, log |-> <<>>])
        BY DEF Opened
      <4>2. Len(store') = Len(store) + 1
        <5>1. Len(Append(store, [title |-> title, log |-> <<>>])) = Len(store) + 1
          BY StoreTyped
        <5> QED
          BY <4>1, <5>1
      <4>3. Len(store) \in Nat
        BY <1>2
      <4>4. Len(store) # Len(store) + 1
        BY <4>3
      <4> QED
        BY <2>1, <4>2, <4>4
    <3> QED
      BY <3>1, <3>2, <3>3 DEF Open
  <2>2. CASE store' # store
    <3>1. PICK title \in Names \union {Untitled} : Opened(r, title)
      BY <2>2, ByTitle DEF Open, database
    <3>2. Len(store') = Len(store) + 1
      BY <3>1, RequestBegins DEF Opened, Begun
    <3>3. Len(store) + 1 \in L
      BY <1>2, <3>2
    <3> HIDE DEF L
    <3> QED
      BY <1>4, <3>1, <3>3 DEF Opened, Lands
  <2> QED
    BY <2>1, <2>2
<1>6. ASSUME NEW r \in ApiRequests, RequestSteps(r)
      PROVE  /\ place' \in [ApiRequests -> {"new", "resolve", "persist", "think",
                                            "save", "answer", "over"}]
             /\ received' \in [ApiRequests -> {"nothing", "part", "error", "whole"}]
             /\ begunAfter' \in [ApiRequests -> SUBSET ApiRequests]
             /\ landing' \in [ApiRequests -> L]
             /\ UNCHANGED <<asking, elsewhere>>
  <2> HIDE DEF L
  <2>1. CASE Arrive(r)
    BY <1>1, <1>4, <2>1 DEF Arrive, Enter
  <2>2. CASE Open(r)
    <3>1. UNCHANGED <<asking, received, begunAfter, elsewhere>> /\ Enter(r, "persist")
      BY <2>2 DEF Open, Opened, Lands
    <3> QED
      BY <1>1, <1>5, <2>2, <3>1 DEF Enter
  <2>3. CASE LogUser(r) \/ LogReply(r)
    BY <1>1, <1>4, <2>3 DEF LogUser, LogReply, Enter
  <2>4. CASE Think(r)
    BY <1>1, <1>4, <2>4, ByTitle, SMTT(30) DEF Think, Enter
  <2>5. CASE Answered(r)
    BY <1>1, <1>4, <2>5 DEF Answered, Enter
  <2>6. CASE StepFailed(r)
    BY <1>1, <1>4, <2>6, ByTitle DEF StepFailed, Enter
  <2> QED
    BY <1>6, <2>1, <2>2, <2>3, <2>4, <2>5, <2>6 DEF RequestSteps
<1>7. CASE OthersTalk \/ OthersDelete \/ ServerRestarts
  <2>1. elsewhere' \in 0 .. MaxElsewhere
    BY <1>1, <1>7 DEF OthersTalk, OthersDelete, ServerRestarts, Elsewhere
  <2>2. /\ UNCHANGED <<asking, landing, received, begunAfter>>
        /\ place' = place \/
             place' = [r \in ApiRequests |-> IF place[r] = "new" THEN "new" ELSE "over"]
    BY <1>7 DEF OthersTalk, OthersDelete, ServerRestarts, handler
  <2>3. place' \in [ApiRequests -> {"new", "resolve", "persist", "think", "save",
                                    "answer", "over"}]
    BY <1>1, <2>2
  <2> HIDE DEF L
  <2> QED
    BY <1>1, <1>2, <1>4, <2>1, <2>2, <2>3 DEF ApiTypeOK, Conversation, L
<1>8. CASE UNCHANGED apiVars
  BY <1>8 DEF apiVars, handler, database, ApiTypeOK
<1>9. ASSUME NEW r \in ApiRequests, RequestSteps(r)
      PROVE  ApiTypeOK'
  BY <1>1, <1>2, <1>6, <1>9 DEF ApiTypeOK, Conversation
<1> QED
  BY <1>7, <1>8, <1>9 DEF ApiNext, RequestSteps

-----------------------------------------------------------------------------
(* What a step leaves of a request that does not take it.  *)
LEMMA OtherRequestsRest ==
  ASSUME ApiTypeOK, NEW r \in ApiRequests, [ApiNext]_apiVars, ~RequestSteps(r)
  PROVE  /\ landing'[r] = landing[r] /\ received'[r] = received[r]
         /\ place'[r] = place[r] \/ (place[r] # "new" /\ place'[r] = "over")
         /\ \/ store' = store
            \/ \E title \in Names \union {Untitled} : Begun(title)
            \/ \E role \in {"user", "assistant"},
                  who \in (ApiRequests \union {Untitled}) \ {r} :
                 \E c \in Stored : Log(c, role, who)
<1>1. /\ place \in [ApiRequests -> {"new", "resolve", "persist", "think", "save",
                                    "answer", "over"}]
      /\ landing \in [ApiRequests -> 0 .. Len(store)]
      /\ received \in [ApiRequests -> {"nothing", "part", "error", "whole"}]
  BY DEF ApiTypeOK
<1>2. ASSUME NEW q \in ApiRequests, q # r, RequestSteps(q)
      PROVE  /\ landing'[r] = landing[r] /\ received'[r] = received[r]
             /\ place'[r] = place[r]
             /\ \/ store' = store
                \/ \E title \in Names \union {Untitled} : Begun(title)
                \/ \E role \in {"user", "assistant"} :
                     \E c \in Stored : Log(c, role, q)
  <2>1. asking[q].name \in Names \union {Untitled}
    BY ByTitle
  <2>2. CASE Open(q)
    <3>1. \/ store' = store
          \/ \E title \in Names \union {Untitled} : Begun(title)
      BY <2>1, <2>2 DEF Open, Opened, Begun, database
    <3>2. received' = received /\ Enter(q, "persist")
          /\ \E c : landing' = [landing EXCEPT ![q] = c]
      BY <2>2 DEF Open, Opened, Lands
    <3> QED
      BY <1>1, <1>2, <3>1, <3>2 DEF Enter
  <2>3. CASE LogUser(q)
    <3>1. Log(landing[q], "user", q) /\ landing[q] \in Stored
      BY <2>3 DEF LogUser, Log
    <3> QED
      BY <1>1, <1>2, <2>3, <3>1 DEF LogUser, Enter
  <2>4. CASE LogReply(q)
    <3>1. Log(landing[q], "assistant", q) /\ landing[q] \in Stored
      BY <2>4 DEF LogReply, Log
    <3> QED
      BY <1>1, <1>2, <2>4, <3>1 DEF LogReply, Enter
  <2>5. CASE Arrive(q) \/ Think(q) \/ Answered(q) \/ StepFailed(q)
    BY <1>1, <1>2, <2>5 DEF Arrive, Think, Answered, StepFailed, database, Enter
  <2> QED
    BY <1>2, <2>2, <2>3, <2>4, <2>5 DEF RequestSteps
<1>3. CASE OthersTalk
  <2>1. Begun(Untitled) \/ \E c \in Stored : Log(c, "user", Untitled)
    BY <1>3 DEF OthersTalk, Begun
  <2>2. Untitled # r
    BY ApiAssumption
  <2> QED
    BY <1>3, <2>1, <2>2 DEF OthersTalk, handler
<1>4. CASE OthersDelete \/ ServerRestarts \/ UNCHANGED apiVars
  BY <1>1, <1>4 DEF OthersDelete, ServerRestarts, apiVars, handler, database
<1>5. ASSUME NEW q \in ApiRequests, RequestSteps(q)
      PROVE  /\ landing'[r] = landing[r] /\ received'[r] = received[r]
             /\ place'[r] = place[r]
             /\ \/ store' = store
                \/ \E title \in Names \union {Untitled} : Begun(title)
                \/ \E role \in {"user", "assistant"},
                      who \in (ApiRequests \union {Untitled}) \ {r} :
                     \E c \in Stored : Log(c, role, who)
  <2>1. q # r
    BY <1>5
  <2>2. q \in (ApiRequests \union {Untitled}) \ {r}
    BY <2>1
  <2> QED
    BY <1>2, <1>5, <2>1, <2>2
<1> QED
  BY <1>3, <1>4, <1>5 DEF ApiNext, RequestSteps

(* What is known of a request's messages stays true while others write.  *)
LEMMA Carried ==
  ASSUME ApiTypeOK, NEW r \in ApiRequests, landing'[r] = landing[r],
         \/ store' = store
         \/ \E title \in Names \union {Untitled} : Begun(title)
         \/ \E role \in {"user", "assistant"},
               who \in (ApiRequests \union {Untitled}) \ {r} :
              \E c \in Stored : Log(c, role, who)
  PROVE  /\ NotYetLogged(r) => NotYetLogged(r)'
         /\ landing[r] \in DOMAIN store =>
              /\ landing'[r] \in DOMAIN store'
              /\ store'[landing'[r]].title = store[landing[r]].title
              /\ HasAsked(r) => HasAsked(r)'
              /\ HasItsAnswer(r) => HasItsAnswer(r)'
<1>1. /\ DOMAIN store \subseteq DOMAIN store'
      /\ \A c \in DOMAIN store :
           /\ store'[c].title = store[c].title
           /\ Of(store'[c].log, r) = Of(store[c].log, r)
           /\ DOMAIN store[c].log \subseteq DOMAIN store'[c].log
           /\ \A i \in Of(store[c].log, r) : store'[c].log[i] = store[c].log[i]
      /\ \A c \in DOMAIN store' \ DOMAIN store : Of(store'[c].log, r) = {}
  BY OfOthers
<1>2. NotYetLogged(r) => NotYetLogged(r)'
  BY <1>1 DEF NotYetLogged
<1>3. ASSUME landing[r] \in DOMAIN store, HasAsked(r)
      PROVE  HasAsked(r)'
  <2>1. PICK u \in DOMAIN store[landing[r]].log :
          /\ Of(store[landing[r]].log, r) = {u}
          /\ store[landing[r]].log[u].role = "user"
    BY <1>3 DEF HasAsked
  <2>2. /\ u \in DOMAIN store'[landing[r]].log
        /\ Of(store'[landing[r]].log, r) = {u}
        /\ store'[landing[r]].log[u].role = "user"
    BY <1>1, <1>3, <2>1
  <2> QED
    BY <2>2 DEF HasAsked
<1>4. ASSUME landing[r] \in DOMAIN store, HasItsAnswer(r)
      PROVE  HasItsAnswer(r)'
  <2>1. PICK u, a \in DOMAIN store[landing[r]].log :
          /\ u < a /\ Of(store[landing[r]].log, r) = {u, a}
          /\ store[landing[r]].log[u].role = "user"
          /\ store[landing[r]].log[a].role = "assistant"
    BY <1>4 DEF HasItsAnswer
  <2>2. /\ u \in DOMAIN store'[landing[r]].log /\ a \in DOMAIN store'[landing[r]].log
        /\ Of(store'[landing[r]].log, r) = {u, a}
        /\ store'[landing[r]].log[u].role = "user"
        /\ store'[landing[r]].log[a].role = "assistant"
    BY <1>1, <1>4, <2>1
  <2> QED
    BY <2>1, <2>2 DEF HasItsAnswer
<1> QED
  BY <1>1, <1>2, <1>3, <1>4

Tells(r) ==
  /\ place[r] \in {"new", "resolve", "persist"} => NotYetLogged(r)
  /\ place[r] \in {"think", "save"} => HasAsked(r)
  /\ place[r] = "answer" \/ received[r] = "whole" => HasItsAnswer(r)
  /\ received[r] = "whole" => place[r] = "over"
  /\ place[r] \in {"persist", "think", "save", "answer"} \/ received[r] = "whole"
       => landing[r] \in DOMAIN store
  /\ place[r] \in {"persist", "think", "save"} /\ asking[r].by = "name"
       => store[landing[r]].title = asking[r].name

(* A request's place and what its client has go on agreeing with the logs. *)
LEMMA TheyTell ==
  ASSUME ApiTypeOK, Landed, LogsTell, [ApiNext]_apiVars, ApiTypeOK'
  PROVE  Landed' /\ LogsTell'
<1> SUFFICES ASSUME NEW r \in ApiRequests
             PROVE  Tells(r)'
  BY DEF Landed, LogsTell, Tells
<1>1. Tells(r)
  BY DEF Landed, LogsTell, Tells
<1>2. /\ place \in [ApiRequests -> {"new", "resolve", "persist", "think", "save",
                                    "answer", "over"}]
      /\ landing \in [ApiRequests -> 0 .. Len(store)]
      /\ received \in [ApiRequests -> {"nothing", "part", "error", "whole"}]
  BY DEF ApiTypeOK
<1>3. asking' = asking
  BY DEF ApiNext, Arrive, Open, LogUser, Think, LogReply, Answered, StepFailed,
         OthersTalk, OthersDelete, ServerRestarts, apiVars
<1>4. CASE ~RequestSteps(r)
  <2>1. /\ landing'[r] = landing[r] /\ received'[r] = received[r]
        /\ place'[r] = place[r] \/ (place[r] # "new" /\ place'[r] = "over")
    BY <1>4, OtherRequestsRest
  <2>2. /\ NotYetLogged(r) => NotYetLogged(r)'
        /\ landing[r] \in DOMAIN store =>
             /\ landing'[r] \in DOMAIN store'
             /\ store'[landing'[r]].title = store[landing[r]].title
             /\ HasAsked(r) => HasAsked(r)'
             /\ HasItsAnswer(r) => HasItsAnswer(r)'
    BY <1>4, OtherRequestsRest, Carried
  <2>3. CASE place'[r] = place[r]
    BY <1>1, <1>3, <2>1, <2>2, <2>3 DEF Tells
  <2>4. CASE place[r] # "new" /\ place'[r] = "over"
    BY <1>1, <1>3, <2>1, <2>2, <2>4 DEF Tells
  <2> QED
    BY <2>1, <2>3, <2>4
<1>5. CASE Arrive(r) \/ Think(r) \/ Answered(r) \/ StepFailed(r)
  <2>1. store' = store /\ landing' = landing
    BY <1>5 DEF Arrive, Think, Answered, StepFailed, database
  <2>2. /\ NotYetLogged(r)' <=> NotYetLogged(r)
        /\ HasAsked(r)' <=> HasAsked(r)
        /\ HasItsAnswer(r)' <=> HasItsAnswer(r)
    BY <2>1 DEF NotYetLogged, HasAsked, HasItsAnswer
  <2>3. \/ place[r] = "new" /\ place'[r] = "resolve" /\ received'[r] = received[r]
        \/ /\ place[r] = "think" /\ place'[r] \in {"think", "save"}
           /\ received'[r] \in {"part", received[r]}
        \/ /\ place[r] = "answer" /\ place'[r] = "over"
           /\ received'[r] \in {"whole", received[r]}
        \/ /\ place[r] \in {"resolve", "persist", "think", "save"}
           /\ place'[r] = "over" /\ received'[r] \in {"error", received[r]}
    BY <1>2, <1>5 DEF Arrive, Think, Answered, StepFailed, Enter
  <2> QED
    BY <1>1, <1>3, <2>1, <2>2, <2>3 DEF Tells
<1>6. CASE Open(r)
  <2>1. /\ place[r] = "resolve" /\ place'[r] = "persist"
        /\ received'[r] = received[r]
    BY <1>2, <1>6 DEF Open, Opened, Lands, Enter
  <2>2. store' = store \/ \E title \in Names \union {Untitled} : Begun(title)
    BY <1>6, ByTitle DEF Open, Opened, Begun, database
  <2>3. /\ DOMAIN store \subseteq DOMAIN store'
        /\ \A c \in DOMAIN store : Of(store'[c].log, r) = Of(store[c].log, r)
        /\ \A c \in DOMAIN store' \ DOMAIN store : Of(store'[c].log, r) = {}
    BY <2>2, OfOthers
  <2>4. NotYetLogged(r)'
    BY <1>1, <2>1, <2>3 DEF NotYetLogged, Tells
  <2>5. ASSUME NEW c \in Stored, Lands(r, c)
        PROVE  landing'[r] \in DOMAIN store'
    BY <1>2, <2>3, <2>5, StoreTyped DEF Lands
  <2>6. ASSUME NEW title \in Names \union {Untitled}, Opened(r, title)
        PROVE  /\ landing'[r] \in DOMAIN store'
               /\ store'[landing'[r]].title = title
    <3>1. landing'[r] = Len(store) + 1 /\ Begun(title)
      BY <1>2, <2>6 DEF Opened, Lands, Begun
    <3>2. /\ DOMAIN store' = 1 .. Len(store) + 1
          /\ store'[Len(store) + 1] = [title |-> title, log |-> <<>>]
      BY <3>1, RequestBegins
    <3>3. Len(store) \in Nat
      BY StoreTyped
    <3> QED
      BY <3>1, <3>2, <3>3
  <2>7. /\ landing'[r] \in DOMAIN store'
        /\ asking[r].by = "name" => store'[landing'[r]].title = asking[r].name
    <3>1. CASE asking[r].by = "name"
      BY <1>6, <2>6, <3>1, ByTitle DEF Open
    <3>2. CASE asking[r].by # "name"
      BY <1>6, <2>5, <2>6, <3>2, StoreTyped DEF Open
    <3> QED
      BY <3>1, <3>2
  <2> QED
    BY <1>1, <1>3, <2>1, <2>4, <2>7 DEF Tells
<1>7. CASE LogUser(r)
  <2>1. /\ place[r] = "persist" /\ place'[r] = "think"
        /\ landing' = landing /\ received' = received
        /\ Log(landing[r], "user", r)
    BY <1>2, <1>7 DEF LogUser, Enter
  <2>2. PICK n : n = Len(store[landing[r]].log) + 1
    OBVIOUS
  <2>3. /\ landing[r] \in DOMAIN store /\ n \in DOMAIN store'[landing[r]].log
        /\ Of(store'[landing[r]].log, r) = Of(store[landing[r]].log, r) \union {n}
        /\ store'[landing[r]].log[n].role = "user"
    BY <2>1, <2>2, OfItself
  <2>4. /\ DOMAIN store' = DOMAIN store
        /\ \A d \in DOMAIN store : store'[d].title = store[d].title
    BY <2>1, Logs
  <2>5. Of(store[landing[r]].log, r) = {}
    BY <1>1, <2>1, <2>3 DEF Tells, NotYetLogged
  <2>6. HasAsked(r)'
    BY <2>1, <2>3, <2>5 DEF HasAsked
  <2> QED
    BY <1>1, <1>3, <2>1, <2>3, <2>4, <2>6 DEF Tells
<1>8. CASE LogReply(r)
  <2>1. /\ place[r] = "save" /\ place'[r] = "answer"
        /\ landing' = landing /\ received' = received
        /\ Log(landing[r], "assistant", r)
    BY <1>2, <1>8 DEF LogReply, Enter
  <2>2. PICK n : n = Len(store[landing[r]].log) + 1
    OBVIOUS
  <2>3. /\ landing[r] \in DOMAIN store /\ n \in DOMAIN store'[landing[r]].log
        /\ \A i \in DOMAIN store[landing[r]].log :
             i \in DOMAIN store'[landing[r]].log /\ i < n
        /\ Of(store'[landing[r]].log, r) = Of(store[landing[r]].log, r) \union {n}
        /\ \A i \in DOMAIN store[landing[r]].log :
             store'[landing[r]].log[i] = store[landing[r]].log[i]
        /\ store'[landing[r]].log[n].role = "assistant"
    BY <2>1, <2>2, OfItself
  <2>4. DOMAIN store' = DOMAIN store
    BY <2>1, Logs
  <2>5. PICK u \in DOMAIN store[landing[r]].log :
          /\ Of(store[landing[r]].log, r) = {u}
          /\ store[landing[r]].log[u].role = "user"
    BY <1>1, <2>1 DEF Tells, HasAsked
  <2>6. /\ u \in DOMAIN store'[landing[r]].log /\ u < n
        /\ Of(store'[landing[r]].log, r) = {u, n}
        /\ store'[landing[r]].log[u].role = "user"
    BY <2>3, <2>5
  <2>7. HasItsAnswer(r)'
    BY <2>1, <2>3, <2>6 DEF HasItsAnswer
  <2> QED
    BY <1>1, <1>3, <2>1, <2>3, <2>4, <2>7 DEF Tells
<1> QED
  BY <1>4, <1>5, <1>6, <1>7, <1>8 DEF RequestSteps

(* Every message written lies in the conversation its session names. *)
LEMMA TheyStayApart ==
  ASSUME ApiTypeOK, Landed, SessionsStayApart, [ApiNext]_apiVars
  PROVE  SessionsStayApart'
<1>1. asking' = asking
  BY DEF ApiNext, Arrive, Open, LogUser, Think, LogReply, Answered, StepFailed,
         OthersTalk, OthersDelete, ServerRestarts, apiVars
<1>2. CASE store' = store
  BY <1>1, <1>2 DEF SessionsStayApart
<1>3. ASSUME NEW title \in Names \union {Untitled}, Begun(title)
      PROVE  SessionsStayApart'
  <2>1. /\ DOMAIN store' = 1 .. Len(store) + 1
        /\ \A c \in DOMAIN store : store'[c] = store[c]
        /\ store'[Len(store) + 1] = [title |-> title, log |-> <<>>]
    BY <1>3, RequestBegins
  <2>2. Len(store) \in Nat /\ DOMAIN store = 1 .. Len(store)
    BY StoreTyped
  <2>3. \A c \in DOMAIN store' : c \in DOMAIN store \/ c = Len(store) + 1
    BY <2>1, <2>2
  <2>4. DOMAIN store'[Len(store) + 1].log = {}
    BY <2>1
  <2> QED
    BY <1>1, <2>1, <2>3, <2>4 DEF SessionsStayApart
<1>4. ASSUME NEW role \in {"user", "assistant"},
             NEW who \in ApiRequests \union {Untitled}, NEW c \in Stored,
             Log(c, role, who),
             who \in ApiRequests /\ asking[who].by = "name"
               => store[c].title = asking[who].name
      PROVE  SessionsStayApart'
  <2>1. PICK n : n = Len(store[c].log)
    OBVIOUS
  <2>2. /\ DOMAIN store' = DOMAIN store
        /\ \A d \in DOMAIN store : /\ store'[d].title = store[d].title
                                   /\ d # c => store'[d] = store[d]
        /\ n \in Nat /\ DOMAIN store[c].log = 1 .. n
        /\ DOMAIN store'[c].log = 1 .. n + 1
        /\ \A i \in DOMAIN store[c].log : store'[c].log[i] = store[c].log[i]
        /\ store'[c].log[n + 1] = [role |-> role, of |-> who]
    <3>1. /\ DOMAIN store' = DOMAIN store
          /\ \A d \in DOMAIN store : /\ store'[d].title = store[d].title
                                     /\ d # c => store'[d] = store[d]
          /\ Len(store[c].log) \in Nat
          /\ DOMAIN store[c].log = 1 .. Len(store[c].log)
          /\ DOMAIN store'[c].log = 1 .. Len(store[c].log) + 1
          /\ \A i \in DOMAIN store[c].log : store'[c].log[i] = store[c].log[i]
          /\ store'[c].log[Len(store[c].log) + 1] = [role |-> role, of |-> who]
      BY <1>4, Logs
    <3> QED
      BY <2>1, <3>1
  <2>3. \A i \in DOMAIN store'[c].log : i \in DOMAIN store[c].log \/ i = n + 1
    BY <2>2
  <2>4. store'[c].log[n + 1].of = who
    BY <2>2
  <2> QED
    BY <1>1, <1>4, <2>2, <2>3, <2>4 DEF SessionsStayApart
<1>5. ASSUME NEW r \in ApiRequests, RequestSteps(r),
             ~(store' = store), ~(\E title \in Names \union {Untitled} : Begun(title))
      PROVE  SessionsStayApart'
  <2>1. CASE LogUser(r)
    <3>1. /\ Log(landing[r], "user", r) /\ landing[r] \in Stored
          /\ place[r] = "persist"
      BY <2>1 DEF LogUser, Log
    <3>2. asking[r].by = "name" => store[landing[r]].title = asking[r].name
      BY <3>1 DEF Landed
    <3> QED
      BY <1>4, <3>1, <3>2
  <2>2. CASE LogReply(r)
    <3>1. /\ Log(landing[r], "assistant", r) /\ landing[r] \in Stored
          /\ place[r] = "save"
      BY <2>2 DEF LogReply, Log
    <3>2. asking[r].by = "name" => store[landing[r]].title = asking[r].name
      BY <3>1 DEF Landed
    <3> QED
      BY <1>4, <3>1, <3>2
  <2>3. ~Open(r)
    BY <1>5, ByTitle DEF Open, Opened, Begun, database
  <2>4. ~Arrive(r) /\ ~Think(r) /\ ~Answered(r) /\ ~StepFailed(r)
    BY <1>5 DEF Arrive, Think, Answered, StepFailed, database
  <2> QED
    BY <1>5, <2>1, <2>2, <2>3, <2>4 DEF RequestSteps
<1>6. CASE OthersTalk
  <2>1. Begun(Untitled) \/ \E c \in Stored : Log(c, "user", Untitled)
    BY <1>6 DEF OthersTalk, Begun
  <2>2. Untitled \notin ApiRequests
    BY ApiAssumption
  <2> QED
    BY <1>3, <1>4, <2>1, <2>2
<1>7. CASE OthersDelete \/ ServerRestarts \/ UNCHANGED apiVars
  BY <1>2, <1>7 DEF OthersDelete, ServerRestarts, apiVars, database
<1> QED
  BY <1>2, <1>3, <1>5, <1>6, <1>7 DEF ApiNext, RequestSteps

-----------------------------------------------------------------------------
(* A message leaves every conversation but its own as it was. *)
LEMMA LeavesOthers ==
  ASSUME ApiTypeOK, NEW r \in ApiRequests, NEW role \in {"user", "assistant"},
         NEW c, Log(c, role, r)
  PROVE  /\ DOMAIN store' = DOMAIN store
         /\ \A d \in DOMAIN store : d # c => store'[d] = store[d]
<1>1. /\ DOMAIN store' = DOMAIN store
      /\ \A d \in DOMAIN store : /\ store'[d].title = store[d].title
                                 /\ d # c => store'[d] = store[d]
      /\ Len(store[c].log) \in Nat
      /\ DOMAIN store[c].log = 1 .. Len(store[c].log)
      /\ DOMAIN store'[c].log = 1 .. Len(store[c].log) + 1
      /\ \A i \in DOMAIN store[c].log : store'[c].log[i] = store[c].log[i]
      /\ store'[c].log[Len(store[c].log) + 1] = [role |-> role, of |-> r]
  BY Logs
<1> QED
  BY <1>1

(* What a request wrote lies in the conversation its step landed on. *)
LEMMA ItWritesWhereItLanded ==
  ASSUME ApiTypeOK, LogsTell, WhereItLanded, [ApiNext]_apiVars
  PROVE  WhereItLanded'
<1> SUFFICES ASSUME NEW r \in ApiRequests, NEW d \in DOMAIN store', d # landing'[r]
             PROVE  Of(store'[d].log, r) = {}
  BY DEF WhereItLanded
<1>1. landing \in [ApiRequests -> 0 .. Len(store)]
  BY DEF ApiTypeOK
<1>2. CASE ~RequestSteps(r)
  <2>1. /\ landing'[r] = landing[r]
        /\ \A c \in DOMAIN store : Of(store'[c].log, r) = Of(store[c].log, r)
        /\ \A c \in DOMAIN store' \ DOMAIN store : Of(store'[c].log, r) = {}
    BY <1>2, OtherRequestsRest, OfOthers
  <2> QED
    BY <2>1 DEF WhereItLanded
<1>3. CASE Arrive(r) \/ Think(r) \/ Answered(r) \/ StepFailed(r)
  <2>1. store' = store /\ landing' = landing
    BY <1>3 DEF Arrive, Think, Answered, StepFailed, database
  <2> QED
    BY <2>1 DEF WhereItLanded
<1>4. CASE Open(r)
  <2>1. place[r] = "resolve"
    BY <1>4 DEF Open
  <2>2. store' = store \/ \E title \in Names \union {Untitled} : Begun(title)
    BY <1>4, ByTitle DEF Open, Opened, Begun, database
  <2>3. /\ \A c \in DOMAIN store : Of(store'[c].log, r) = Of(store[c].log, r)
        /\ \A c \in DOMAIN store' \ DOMAIN store : Of(store'[c].log, r) = {}
    BY <2>2, OfOthers
  <2> QED
    BY <2>1, <2>3 DEF LogsTell, NotYetLogged
<1>5. ASSUME NEW role \in {"user", "assistant"}, Log(landing[r], role, r),
             landing' = landing
      PROVE  Of(store'[d].log, r) = {}
  <2>1. /\ DOMAIN store' = DOMAIN store
        /\ \A c \in DOMAIN store : c # landing[r] => store'[c] = store[c]
    BY <1>5, LeavesOthers
  <2> QED
    BY <1>5, <2>1 DEF WhereItLanded
<1>6. CASE LogUser(r) \/ LogReply(r)
  BY <1>5, <1>6 DEF LogUser, LogReply
<1> QED
  BY <1>2, <1>3, <1>4, <1>6 DEF RequestSteps

(* A whole answer received is the one in the log, behind its question, and *)
(* there is no other copy of either.                                       *)
LEMMA ItIsSaved ==
  ASSUME ApiInv
  PROVE  WholeMeansSaved
<1> SUFFICES ASSUME NEW r \in ApiRequests, received[r] = "whole"
             PROVE  \E u, a \in DOMAIN store[landing[r]].log :
                      /\ u < a
                      /\ store[landing[r]].log[u] = [role |-> "user", of |-> r]
                      /\ store[landing[r]].log[a] = [role |-> "assistant", of |-> r]
                      /\ \A c \in DOMAIN store : \A i \in DOMAIN store[c].log :
                           store[c].log[i].of = r => c = landing[r] /\ i \in {u, a}
  BY DEF WholeMeansSaved
<1>1. PICK log : log = store[landing[r]].log
  OBVIOUS
<1>2. PICK u, a \in DOMAIN log :
        /\ u < a /\ Of(log, r) = {u, a}
        /\ log[u].role = "user" /\ log[a].role = "assistant"
  BY <1>1 DEF ApiInv, LogsTell, HasItsAnswer
<1>3. landing[r] \in DOMAIN store
  BY DEF ApiInv, Landed
<1>4. log \in Seq(Entries)
  BY <1>1, <1>3, StoreTyped DEF ApiInv
<1>5. log[u] \in Entries /\ log[a] \in Entries
  BY <1>2, <1>4
<1>6. log[u].of = r /\ log[a].of = r
  BY <1>2 DEF Of
<1>7. log[u] = [role |-> "user", of |-> r] /\ log[a] = [role |-> "assistant", of |-> r]
  BY <1>2, <1>5, <1>6 DEF Entries
<1>8. ASSUME NEW c \in DOMAIN store, NEW i \in DOMAIN store[c].log,
             store[c].log[i].of = r
      PROVE  c = landing[r] /\ i \in {u, a}
  <2>1. i \in Of(store[c].log, r)
    BY <1>8 DEF Of
  <2>2. c = landing[r]
    BY <2>1 DEF ApiInv, WhereItLanded
  <2> QED
    BY <1>1, <1>2, <2>1, <2>2
<1> QED
  BY <1>1, <1>2, <1>7, <1>8

(* At first there is no conversation and nobody has an answer. *)
LEMMA ApiStarts ==
  ApiInit => ApiInv
<1> SUFFICES ASSUME ApiInit
             PROVE  ApiInv
  OBVIOUS
<1>1. store = <<>> /\ latest = <<>> /\ DOMAIN store = {} /\ Len(store) = 0
  BY DEF ApiInit
<1>2. ApiTypeOK
  BY <1>1, ApiAssumption DEF ApiInit, ApiTypeOK, IsInjective
<1>3. \A r \in ApiRequests : place[r] = "new" /\ received[r] = "nothing"
  BY DEF ApiInit
<1>4. Landed /\ LogsTell /\ WhereItLanded /\ SessionsStayApart
  BY <1>1, <1>3 DEF Landed, LogsTell, NotYetLogged, WhereItLanded,
                    SessionsStayApart
<1> QED
  BY <1>2, <1>4 DEF ApiInv

(* Every step keeps the invariant. *)
LEMMA ApiGoesOn ==
  ApiInv /\ [ApiNext]_apiVars => ApiInv'
<1> SUFFICES ASSUME ApiInv, [ApiNext]_apiVars
             PROVE  ApiInv'
  OBVIOUS
<1>1. ApiTypeOK /\ Landed /\ LogsTell /\ WhereItLanded /\ SessionsStayApart
  BY DEF ApiInv
<1>2. ApiTypeOK'
  BY <1>1, ApiTypesStay
<1>3. Landed' /\ LogsTell'
  BY <1>1, <1>2, TheyTell
<1>4. WhereItLanded'
  BY <1>1, ItWritesWhereItLanded
<1>5. SessionsStayApart'
  BY <1>1, TheyStayApart
<1> QED
  BY <1>2, <1>3, <1>4, <1>5 DEF ApiInv

(* chat.go:105-131 and brain.go:272-289: a client that has a whole answer   *)
(* has one that is stored behind its question, no conversation has a second *)
(* copy of either, and requests that name a session write to conversations  *)
(* of that name only; for any number of requests, restarts and deletions.   *)
THEOREM AnswersAreKept ==
  ApiSpec => []ApiKeepsItsWord
<1>1. ApiInv => ApiKeepsItsWord
  BY ItIsSaved DEF ApiInv, ApiKeepsItsWord
<1> QED
  BY <1>1, ApiStarts, ApiGoesOn, PTL DEF ApiSpec

-----------------------------------------------------------------------------
(* The sessions (internal/session, internal/memory/summarizer.go).  *)

Exchanges == 0 .. MaxSaid
Snapshots == [of : Sessions, covered : Exchanges, said : Exchanges]
Stages == {"off", "idle", "snap", "load", "think", "summarize", "observe",
           "profile", "event"}
Purposes == {"none", "nudge", "compress", "close", "command"}
Answers == 0 .. MaxAnswers
Lessons == [answer : Answers, summary : BOOLEAN, topics : SUBSET Topics]

(* What a close is about to write to the user model is in memory already.   *)
WritesWhatItSaved ==
  \A p \in Terminals : \A t \in Unfinished(p) \ loose :
    observed[t] = learned[p].answer

(* What was read of a session is no more than what is there.                *)
ReadsWhatIsThere ==
  \A p \in Terminals :
    /\ stage[p] \in {"off", "idle"} => seen[p] = 0
    /\ stage[p] = "load" => about[p] # 0
    /\ about[p] \in Existing => seen[p] <= said[about[p]]

(* The full-text index has nothing of a session before it is made.          *)
NoneFoundBefore == \A c \in Sessions : made < c => findable[c] = 0

BookInv ==
  /\ BookTypeOK /\ WritesWhatItSaved /\ ReadsWhatIsThere /\ NoneFoundBefore
  /\ ModelFollowsMemory /\ EventMeansClosed /\ CopiesFit

-----------------------------------------------------------------------------
(* What the types say of the sessions and their rows. *)
LEMMA BookTyped ==
  ASSUME BookTypeOK
  PROVE  /\ MaxSessions \in Nat /\ MaxSaid \in Nat /\ MaxAnswers \in Nat
         /\ made \in Nat /\ made <= MaxSessions
         /\ recent \in Seq(1 .. made) /\ IsInjective(recent)
         /\ Existing \subseteq 1 .. made /\ Existing \subseteq Sessions
         /\ recent # <<>> => LatestSession \in Existing
         /\ said \in [Sessions -> Exchanges] /\ covered \in [Sessions -> Exchanges]
         /\ findable \in [Sessions -> Exchanges]
         /\ snapshots \subseteq Snapshots
<1>1. MaxSessions \in Nat /\ MaxSaid \in Nat /\ MaxAnswers \in Nat
  BY BookAssumption
<1>2. /\ made \in Nat /\ made <= MaxSessions
      /\ recent \in Seq(1 .. made) /\ IsInjective(recent)
      /\ said \in [Sessions -> Exchanges] /\ covered \in [Sessions -> Exchanges]
      /\ findable \in [Sessions -> Exchanges]
      /\ snapshots \subseteq Snapshots
  BY <1>1 DEF BookTypeOK, Exchanges, Snapshots
<1>3. Existing \subseteq 1 .. made
  BY <1>2 DEF Existing, ToSet
<1>4. 1 .. made \subseteq Sessions
  BY <1>1, <1>2 DEF Sessions
<1>5. recent # <<>> => LatestSession \in Existing
  <2>1. recent # <<>> => Len(recent) \in DOMAIN recent
    BY <1>2
  <2> QED
    BY <2>1 DEF LatestSession, Last, Existing, ToSet
<1> QED
  BY <1>1, <1>2, <1>3, <1>4, <1>5

(* What the types say of the memory and of the terminals. *)
LEMMA TasksTyped ==
  ASSUME BookTypeOK
  PROVE  /\ observed \in [Topics -> Answers] /\ userModel \in [Topics -> Answers]
         /\ answers \in Answers /\ loose \subseteq Topics /\ finished \subseteq Terminals
         /\ brainId \in [Terminals -> 0 .. made]
         /\ managerId \in [Terminals -> 0 .. made]
         /\ about \in [Terminals -> 0 .. made]
         /\ stage \in [Terminals -> Stages] /\ purpose \in [Terminals -> Purposes]
         /\ seen \in [Terminals -> Exchanges] /\ learned \in [Terminals -> Lessons]
BY DEF BookTypeOK, Answers, Stages, Purposes, Exchanges, Lessons

(* A new session comes last and is none of those that were there. *)
LEMMA Makes ==
  ASSUME BookTypeOK, Make
  PROVE  /\ made' = made + 1 /\ made' <= MaxSessions /\ made + 1 \in Sessions
         /\ recent' \in Seq(1 .. made') /\ IsInjective(recent')
         /\ Existing' = Existing \union {made + 1} /\ made + 1 \notin Existing
<1>1. made \in Nat /\ made < MaxSessions /\ MaxSessions \in Nat
  BY BookTyped DEF Make
<1>2. made' = made + 1 /\ recent' = Append(recent, made + 1)
  BY DEF Make
<1>3. /\ recent \in Seq(1 .. made) /\ IsInjective(recent)
      /\ Existing \subseteq 1 .. made
  BY BookTyped
<1> DEFINE n == made + 1
           D == 1 .. made + 1
<1>4. n \in D /\ n \notin Existing /\ 1 .. made \subseteq D
  BY <1>1, <1>3
<1>5. recent \in Seq(D)
  <2> HIDE DEF D
  <2> QED
    BY <1>3, <1>4, Among
<1> HIDE DEF n, D
<1>6. /\ Append(recent, n) \in Seq(D) /\ IsInjective(Append(recent, n))
      /\ ToSet(Append(recent, n)) = ToSet(recent) \union {n}
  <2>1. n \notin ToSet(recent)
    BY <1>4 DEF Existing
  <2> QED
    BY <1>3, <1>4, <1>5, <2>1, PutBehind
<1>7. recent' = Append(recent, n) /\ D = 1 .. made' /\ n = made + 1
  BY <1>2 DEF n, D
<1>8. made + 1 \in Sessions /\ made' <= MaxSessions
  BY <1>1, <1>2 DEF Sessions
<1>9. Existing' = Existing \union {n}
  BY <1>6, <1>7 DEF Existing
<1> QED
  BY <1>2, <1>4, <1>6, <1>7, <1>8, <1>9

(* A session that is written to becomes the latest, and none comes or       *)
(* goes.                                                                    *)
LEMMA Touches ==
  ASSUME BookTypeOK, NEW c \in Existing, Touch(c)
  PROVE  /\ recent' \in Seq(1 .. made) /\ IsInjective(recent')
         /\ Existing' = Existing
<1> DEFINE D == 1 .. made
<1>1. recent \in Seq(D) /\ IsInjective(recent) /\ c \in D
  BY BookTyped
<1> HIDE DEF D
<1>2. LET t == Append(RemoveFirst(recent, c), c)
      IN  /\ t \in Seq(D) /\ IsInjective(t) /\ ToSet(t) = ToSet(recent) \union {c}
  BY <1>1, MovedBehind
<1>3. recent' = Append(RemoveFirst(recent, c), c)
  BY DEF Touch
<1>4. ToSet(recent') = ToSet(recent)
  BY <1>2, <1>3 DEF Existing
<1> QED
  BY <1>2, <1>3, <1>4 DEF D, Existing

(* A session that is deleted leaves the order. *)
LEMMA Deletes ==
  ASSUME BookTypeOK, NEW c, DeleteSession(c)
  PROVE  /\ recent' \in Seq(1 .. made) /\ IsInjective(recent')
         /\ Existing' = Existing \ {c}
<1> DEFINE D == 1 .. made
<1>1. recent \in Seq(D) /\ IsInjective(recent)
  BY BookTyped
<1> HIDE DEF D
<1>2. /\ RemoveFirst(recent, c) \in Seq(D) /\ IsInjective(RemoveFirst(recent, c))
      /\ ToSet(RemoveFirst(recent, c)) = ToSet(recent) \ {c}
  BY <1>1, TakenOut
<1>3. recent' = RemoveFirst(recent, c)
  BY DEF DeleteSession
<1> QED
  BY <1>2, <1>3 DEF D, Existing

-----------------------------------------------------------------------------
BookMoves(p) ==
  \/ OpenTerminal(p) \/ TerminalKilled(p) \/ TakeTurn(p) \/ NewSession(p)
  \/ SaveSession(p) \/ StoreCopy(p) \/ CopyFails(p) \/ CompressSession(p)
  \/ QuitTerminal(p) \/ LoadTail(p) \/ AskModel(p) \/ SaveSummary(p)
  \/ SaveObserved(p) \/ SaveModel(p) \/ LogEvent(p) \/ LearningFails(p)
  \/ PersonaReset(p)
  \/ \E c \in Sessions : RestoreSession(p, c) \/ TakeSnapshot(p, c)
BookRests == \/ \E c \in Sessions : RenameSession(c) \/ DeleteSession(c)
             \/ UNCHANGED bookVars

(* A step is one terminal's, or renames or deletes a session. *)
LEMMA BookSteps ==
  ASSUME [BookNext]_bookVars
  PROVE  BookRests \/ \E p \in Terminals : BookMoves(p)
BY DEF BookNext, BookMoves, BookRests

(* What a step leaves of the conversations: those that were there are there *)
(* still, with no less in them, or gone for good.                           *)
LEMMA RowsGoOn ==
  ASSUME BookTypeOK, ReadsWhatIsThere, NoneFoundBefore, CopiesFit,
         [BookNext]_bookVars
  PROVE  /\ made' \in Nat /\ made <= made' /\ made' <= MaxSessions
         /\ recent' \in Seq(1 .. made') /\ IsInjective(recent')
         /\ said' \in [Sessions -> Exchanges] /\ covered' \in [Sessions -> Exchanges]
         /\ findable' \in [Sessions -> Exchanges]
         /\ snapshots' \subseteq Snapshots
         /\ \A c \in Existing' : c <= made => c \in Existing /\ said[c] <= said'[c]
         /\ CopiesFit' /\ NoneFoundBefore'
<1> DEFINE Goal ==
      /\ made' \in Nat /\ made <= made' /\ made' <= MaxSessions
      /\ recent' \in Seq(1 .. made') /\ IsInjective(recent')
      /\ said' \in [Sessions -> Exchanges] /\ covered' \in [Sessions -> Exchanges]
      /\ findable' \in [Sessions -> Exchanges]
      /\ snapshots' \subseteq Snapshots
      /\ \A c \in Existing' : c <= made => c \in Existing /\ said[c] <= said'[c]
      /\ CopiesFit' /\ NoneFoundBefore'
<1>1. /\ made \in Nat /\ made <= MaxSessions /\ MaxSaid \in Nat
      /\ recent \in Seq(1 .. made) /\ IsInjective(recent)
      /\ Existing \subseteq 1 .. made /\ Existing \subseteq Sessions
      /\ recent # <<>> => LatestSession \in Existing
      /\ said \in [Sessions -> Exchanges] /\ covered \in [Sessions -> Exchanges]
      /\ findable \in [Sessions -> Exchanges]
      /\ snapshots \subseteq Snapshots
  BY BookTyped
<1>2. /\ \A c \in Sessions : said[c] \in Nat /\ covered[c] \in Nat /\ said[c] <= said[c]
      /\ \A c \in Sessions : covered[c] <= said[c]
      /\ \A s \in snapshots : s.covered <= s.said /\ s.of \in Existing
      /\ \A c \in Existing : findable[c] = said[c]
      /\ \A c \in Sessions \ Existing : said[c] = 0
      /\ \A c \in Sessions : c \in Nat /\ (made < c => findable[c] = 0)
  BY <1>1 DEF CopiesFit, Exchanges, NoneFoundBefore, Sessions
<1>3. CASE UNCHANGED bookRows
  <2>1. UNCHANGED <<made, recent, said, findable, covered, snapshots>>
    BY <1>3 DEF bookRows
  <2>2. CopiesFit' /\ NoneFoundBefore' /\ Existing' = Existing
    BY <2>1 DEF CopiesFit, NoneFoundBefore, Existing
  <2> QED
    BY <1>1, <1>2, <2>1, <2>2
<1>4. ASSUME Make, UNCHANGED <<said, findable, covered, snapshots>>
      PROVE  Goal
  <2>1. /\ made' = made + 1 /\ made' <= MaxSessions
        /\ recent' \in Seq(1 .. made') /\ IsInjective(recent')
        /\ Existing' = Existing \union {made + 1} /\ made + 1 \in Sessions
        /\ made + 1 \notin Existing
    BY <1>4, Makes
  <2>2. CopiesFit' /\ NoneFoundBefore'
    BY <1>1, <1>2, <1>4, <2>1 DEF CopiesFit, NoneFoundBefore
  <2>3. \A c \in Existing' : c <= made => c \in Existing /\ said[c] <= said'[c]
    BY <1>1, <1>2, <1>4, <2>1
  <2>4. made' \in Nat /\ made <= made'
    BY <1>1, <2>1
  <2> QED
    BY <1>1, <1>4, <2>1, <2>2, <2>3, <2>4
<1>5. ASSUME NEW p \in Terminals, TakeTurn(p)
      PROVE  Goal
  <2>1. PICK c : /\ c = IF recent = <<>> THEN made + 1 ELSE Going(p)
                 /\ IF recent = <<>> THEN Make ELSE Touch(c) /\ UNCHANGED made
                 /\ said[c] < MaxSaid
                 /\ said' = [said EXCEPT ![c] = @ + 1]
                 /\ findable' = [findable EXCEPT ![c] = @ + 1]
                 /\ UNCHANGED <<covered, snapshots>>
    BY <1>5 DEF TakeTurn
  <2>2. /\ made' \in Nat /\ made <= made' /\ made' <= MaxSessions
        /\ recent' \in Seq(1 .. made') /\ IsInjective(recent')
        /\ Existing \subseteq Existing' /\ c \in Existing' /\ c \in Sessions
        /\ \A d \in Existing' : d <= made => d \in Existing
        /\ Existing' \subseteq Existing \union {c}
    <3>1. CASE recent = <<>>
      <4>1. /\ made' = made + 1 /\ made' <= MaxSessions /\ made + 1 \in Sessions
            /\ recent' \in Seq(1 .. made') /\ IsInjective(recent')
            /\ Existing' = Existing \union {made + 1}
        BY <2>1, <3>1, Makes
      <4>2. c = made + 1
        BY <2>1, <3>1
      <4>3. made' \in Nat /\ made <= made' /\ ~(made + 1 <= made)
        BY <1>1, <4>1
      <4> QED
        BY <4>1, <4>2, <4>3
    <3>2. CASE recent # <<>>
      <4>1. c \in Existing
        BY <1>1, <2>1, <3>2 DEF Going
      <4>2. recent' \in Seq(1 .. made) /\ IsInjective(recent') /\ Existing' = Existing
        BY <2>1, <3>2, <4>1, Touches
      <4>3. made' = made
        BY <2>1, <3>2
      <4> QED
        BY <1>1, <4>1, <4>2, <4>3
    <3> QED
      BY <3>1, <3>2
  <2>3. said[c] + 1 \in Exchanges /\ said[c] <= said[c] + 1
    BY <1>1, <1>2, <2>1, <2>2 DEF Exchanges
  <2>4. /\ said' \in [Sessions -> Exchanges]
        /\ said'[c] = said[c] + 1
        /\ \A d \in Sessions : d # c => said'[d] = said[d]
    BY <1>1, <2>1, <2>2, <2>3
  <2>5. \A d \in Sessions : said[d] <= said'[d]
    BY <1>2, <2>3, <2>4
  <2>8. /\ findable' \in [Sessions -> Exchanges]
        /\ \A d \in Existing' : findable'[d] = said'[d]
    <3>1. findable[c] = said[c]
      <4>1. CASE recent = <<>>
        <5>1. c = made + 1 /\ made + 1 \notin Existing
          BY <2>1, <4>1, Makes
        <5> QED
          BY <1>1, <1>2, <2>2, <5>1
      <4>2. CASE recent # <<>>
        BY <1>1, <1>2, <2>1, <4>2 DEF Going
      <4> QED
        BY <4>1, <4>2
    <3>2. /\ findable' \in [Sessions -> Exchanges] /\ findable'[c] = said[c] + 1
          /\ \A d \in Sessions : d # c => findable'[d] = findable[d]
      BY <1>1, <2>1, <2>2, <2>3, <3>1
    <3> SUFFICES ASSUME NEW d \in Existing' PROVE findable'[d] = said'[d]
      BY <3>2
    <3>3. CASE d = c
      BY <2>4, <3>2, <3>3
    <3>4. CASE d # c
      <4>1. d \in Existing
        BY <2>2, <3>4
      <4> QED
        BY <1>1, <1>2, <2>4, <3>2, <3>4, <4>1
    <3> QED
      BY <3>3, <3>4
  <2>10. c <= made'
    <3>1. c \in ToSet(recent')
      BY <2>2 DEF Existing
    <3> QED
      BY <2>2, <3>1 DEF ToSet
  <2>9. NoneFoundBefore'
    <3> SUFFICES ASSUME NEW d \in Sessions, made' < d PROVE findable'[d] = 0
      BY DEF NoneFoundBefore
    <3>1. made < d /\ d # c
      BY <1>1, <1>2, <2>2, <2>10
    <3> QED
      BY <1>1, <1>2, <2>1, <3>1
  <2>6. CopiesFit'
    <3>1. \A d \in Sessions : covered'[d] <= said'[d]
      <4> TAKE d \in Sessions
      <4>1. covered[d] <= said[d] /\ said[d] <= said'[d] /\ covered'[d] = covered[d]
        BY <1>2, <2>1, <2>5
      <4>2. covered[d] \in Nat /\ said[d] \in Nat /\ said'[d] \in Nat
        BY <1>1, <1>2, <2>4 DEF Exchanges
      <4> QED
        BY <4>1, <4>2
    <3>2. \A s \in snapshots' : s.covered <= s.said /\ s.of \in Existing'
      BY <1>2, <2>1, <2>2
    <3>3. \A d \in Sessions \ Existing' : said'[d] = 0
      BY <1>2, <2>2, <2>4
    <3> QED
      BY <2>8, <3>1, <3>2, <3>3 DEF CopiesFit
  <2>7. \A d \in Existing' : d <= made => d \in Existing /\ said[d] <= said'[d]
    BY <1>1, <2>2, <2>5
  <2> QED
    BY <1>1, <2>1, <2>2, <2>4, <2>6, <2>7, <2>8, <2>9
<1>6. ASSUME NEW p \in Terminals, StoreCopy(p)
      PROVE  Goal
  <2> DEFINE new == [of |-> about[p], covered |-> seen[p], said |-> said[about[p]]]
  <2>1. /\ about[p] \in Existing /\ snapshots' = snapshots \union {new}
        /\ UNCHANGED <<made, recent, said, findable, covered>>
    BY <1>6 DEF StoreCopy
  <2>2. seen[p] <= said[about[p]]
    BY <2>1 DEF ReadsWhatIsThere
  <2>3. seen[p] \in Exchanges
    BY TasksTyped
  <2>4. new \in Snapshots /\ new.covered <= new.said /\ new.of \in Existing
    BY <1>1, <2>1, <2>2, <2>3 DEF Snapshots
  <2> HIDE DEF new
  <2>5. Existing' = Existing
    BY <2>1 DEF Existing
  <2>6. CopiesFit' /\ NoneFoundBefore'
    BY <1>2, <2>1, <2>4, <2>5 DEF CopiesFit, NoneFoundBefore
  <2>7. snapshots' \subseteq Snapshots
    BY <1>1, <2>1, <2>4
  <2> QED
    BY <1>1, <1>2, <2>1, <2>5, <2>6, <2>7
<1>7. ASSUME NEW p \in Terminals, SaveSummary(p)
      PROVE  Goal
  <2>1. /\ UNCHANGED <<made, recent, said, findable, snapshots>>
        /\ covered' = covered \/
             (/\ about[p] \in Existing
              /\ covered' = [covered EXCEPT ![about[p]] = seen[p]])
    BY <1>7 DEF SaveSummary
  <2>2. about[p] \in Existing => seen[p] <= said[about[p]]
    BY DEF ReadsWhatIsThere
  <2>3. seen[p] \in Exchanges
    BY TasksTyped
  <2>4. covered' \in [Sessions -> Exchanges]
    BY <1>1, <2>1, <2>3
  <2>5. \A c \in Sessions : covered'[c] <= said[c]
    BY <1>1, <1>2, <2>1, <2>2
  <2>6. Existing' = Existing
    BY <2>1 DEF Existing
  <2>7. CopiesFit' /\ NoneFoundBefore'
    BY <1>2, <2>1, <2>5, <2>6 DEF CopiesFit, NoneFoundBefore
  <2> QED
    BY <1>1, <1>2, <2>1, <2>4, <2>6, <2>7
<1>8. ASSUME NEW c \in Sessions, RenameSession(c)
      PROVE  Goal
  <2>1. /\ c \in Existing /\ Touch(c)
        /\ UNCHANGED <<made, said, findable, covered, snapshots>>
    BY <1>8 DEF RenameSession
  <2>2. recent' \in Seq(1 .. made) /\ IsInjective(recent') /\ Existing' = Existing
    BY <2>1, Touches
  <2>3. CopiesFit' /\ NoneFoundBefore'
    BY <1>2, <2>1, <2>2 DEF CopiesFit, NoneFoundBefore
  <2> QED
    BY <1>1, <1>2, <2>1, <2>2, <2>3
<1>9. ASSUME NEW c \in Sessions, DeleteSession(c)
      PROVE  Goal
  <2>1. /\ made' = made /\ findable' = findable /\ snapshots' = {s \in snapshots : s.of # c}
        /\ said' = [said EXCEPT ![c] = 0] /\ covered' = [covered EXCEPT ![c] = 0]
    BY <1>9 DEF DeleteSession
  <2>2. /\ recent' \in Seq(1 .. made) /\ IsInjective(recent')
        /\ Existing' = Existing \ {c}
    BY <1>9, Deletes
  <2>3. 0 \in Exchanges
    BY <1>1 DEF Exchanges
  <2>4. said' \in [Sessions -> Exchanges] /\ covered' \in [Sessions -> Exchanges]
    BY <1>1, <2>1, <2>3
  <2>5. /\ said'[c] = 0 /\ covered'[c] = 0
        /\ \A d \in Sessions : d # c => said'[d] = said[d] /\ covered'[d] = covered[d]
    BY <1>1, <2>1
  <2>6. CopiesFit'
    <3>1. \A d \in Sessions : covered'[d] <= said'[d]
      BY <1>2, <2>5
    <3>2. \A s \in snapshots' : s.covered <= s.said /\ s.of \in Existing'
      BY <1>2, <2>1, <2>2
    <3>3. \A d \in Sessions \ Existing' : said'[d] = 0
      BY <1>2, <2>2, <2>5
    <3>4. \A d \in Existing' : findable'[d] = said'[d]
      BY <1>1, <1>2, <2>1, <2>2, <2>5
    <3> QED
      BY <3>1, <3>2, <3>3, <3>4 DEF CopiesFit
  <2>7. snapshots' \subseteq Snapshots
    BY <1>1, <2>1
  <2>8. \A d \in Existing' : d \in Existing /\ said[d] <= said'[d]
    BY <1>1, <1>2, <2>2, <2>5
  <2>9. NoneFoundBefore'
    BY <1>2, <2>1 DEF NoneFoundBefore
  <2> QED
    BY <1>1, <2>1, <2>2, <2>4, <2>6, <2>7, <2>8, <2>9
<1>10. ASSUME NEW p \in Terminals, BookMoves(p)
       PROVE  Goal
  <2>1. CASE NewSession(p) \/ SaveSession(p)
    <3>1. Make /\ UNCHANGED <<said, findable, covered, snapshots>>
      BY <2>1 DEF NewSession, SaveSession
    <3> QED
      BY <1>4, <3>1
  <2>2. CASE TakeTurn(p)
    BY <1>5, <2>2
  <2>3. CASE StoreCopy(p)
    BY <1>6, <2>3
  <2>4. CASE SaveSummary(p)
    BY <1>7, <2>4
  <2>5. CASE ~(NewSession(p) \/ SaveSession(p) \/ TakeTurn(p) \/ StoreCopy(p)
                 \/ SaveSummary(p))
    <3>1. UNCHANGED bookRows
      BY <1>10, <2>5
      DEF BookMoves, OpenTerminal, TerminalKilled, CopyFails, CompressSession,
          QuitTerminal, LearnFrom, LoadTail, AskModel, SaveObserved, SaveModel,
          LogEvent, LearningFails, PersonaReset, RestoreSession, TakeSnapshot
    <3> QED
      BY <1>3, <3>1
  <2> QED
    BY <2>1, <2>2, <2>3, <2>4, <2>5
<1>11. ASSUME UNCHANGED bookVars
       PROVE  Goal
  BY <1>3, <1>11 DEF bookVars
<1>12. Goal
  <2> HIDE DEF Goal
  <2>1. CASE BookRests
    <3>1. ASSUME NEW c \in Sessions, RenameSession(c) \/ DeleteSession(c)
          PROVE  Goal
      BY <1>8, <1>9, <3>1
    <3> QED
      BY <1>11, <2>1, <3>1 DEF BookRests
  <2>2. CASE \E p \in Terminals : BookMoves(p)
    BY <1>10, <2>2
  <2> QED
    BY <2>1, <2>2, BookSteps
<1> QED
  BY <1>12

-----------------------------------------------------------------------------
(* A step in which no observation and no row of the user model is written.  *)
LEMMA MindsRest ==
  ASSUME BookTypeOK, WritesWhatItSaved, ModelFollowsMemory,
         UNCHANGED <<observed, userModel>>, loose \subseteq loose',
         \A p \in Terminals : Unfinished(p) \subseteq Unfinished(p)' \union loose',
         \A p \in Terminals : \A t \in Unfinished(p)' :
           t \in Unfinished(p) /\ learned'[p].answer = learned[p].answer
  PROVE  WritesWhatItSaved' /\ ModelFollowsMemory'
<1>1. WritesWhatItSaved'
  <2> SUFFICES ASSUME NEW p \in Terminals, NEW t \in Unfinished(p)', t \notin loose'
               PROVE  observed'[t] = learned'[p].answer
    BY DEF WritesWhatItSaved
  <2>1. /\ t \in Unfinished(p) /\ learned'[p].answer = learned[p].answer
        /\ t \notin loose
    OBVIOUS
  <2> QED
    BY <2>1 DEF WritesWhatItSaved
<1>2. ModelFollowsMemory'
  <2> SUFFICES ASSUME NEW t \in Topics, t \notin loose', userModel'[t] # observed'[t]
               PROVE  \E p \in Terminals : t \in Unfinished(p)'
    BY DEF ModelFollowsMemory
  <2>1. PICK p \in Terminals : t \in Unfinished(p)
    BY DEF ModelFollowsMemory
  <2> QED
    BY <2>1
<1> QED
  BY <1>1, <1>2

(* The user model stays what memory says, or on its way to it.  *)
LEMMA MindsGoOn ==
  ASSUME BookTypeOK, WritesWhatItSaved, ModelFollowsMemory, [BookNext]_bookVars
  PROVE  /\ observed' \in [Topics -> Answers] /\ userModel' \in [Topics -> Answers]
         /\ answers' \in Answers /\ loose' \subseteq Topics
         /\ WritesWhatItSaved' /\ ModelFollowsMemory'
<1> DEFINE Goal ==
      /\ observed' \in [Topics -> Answers] /\ userModel' \in [Topics -> Answers]
      /\ answers' \in Answers /\ loose' \subseteq Topics
      /\ WritesWhatItSaved' /\ ModelFollowsMemory'
<1>1. /\ observed \in [Topics -> Answers] /\ userModel \in [Topics -> Answers]
      /\ answers \in Answers /\ loose \subseteq Topics
      /\ stage \in [Terminals -> Stages] /\ learned \in [Terminals -> Lessons]
      /\ purpose \in [Terminals -> Purposes]
  BY TasksTyped
<1>2. \A p \in Terminals : /\ learned[p].answer \in Answers
                           /\ learned[p].topics \subseteq Topics
                           /\ Unfinished(p) \subseteq Topics
  BY <1>1 DEF Lessons, Unfinished
<1>3. \A p \in Terminals : stage[p] # "profile" => Unfinished(p) = {}
  BY DEF Unfinished
<1>4. ASSUME UNCHANGED <<observed, userModel, loose>>, answers' \in Answers,
             NEW p \in Terminals, stage[p] # "profile", stage'[p] # "profile",
             \A q \in Terminals : q # p =>
               stage'[q] = stage[q] /\ learned'[q] = learned[q]
      PROVE  Goal
  <2>1. \A q \in Terminals : q # p => Unfinished(q)' = Unfinished(q)
    BY <1>4 DEF Unfinished
  <2>2. Unfinished(p) = {} /\ Unfinished(p)' = {}
    BY <1>4 DEF Unfinished
  <2>3. \A q \in Terminals : Unfinished(q) \subseteq Unfinished(q)' \union loose'
    BY <2>1, <2>2
  <2>4. \A q \in Terminals : \A t \in Unfinished(q)' :
          t \in Unfinished(q) /\ learned'[q].answer = learned[q].answer
    BY <1>4, <2>1, <2>2
  <2>5. WritesWhatItSaved' /\ ModelFollowsMemory'
    BY <1>4, <2>3, <2>4, MindsRest
  <2> QED
    BY <1>1, <1>4, <2>5
<1>5. ASSUME UNCHANGED <<observed, userModel, answers>>,
             NEW p \in Terminals, stage'[p] # "profile",
             loose' = loose \union Unfinished(p),
             \A q \in Terminals : q # p =>
               stage'[q] = stage[q] /\ learned'[q] = learned[q]
      PROVE  Goal
  <2>1. \A q \in Terminals : q # p => Unfinished(q)' = Unfinished(q)
    BY <1>5 DEF Unfinished
  <2>2. Unfinished(p) \subseteq loose' /\ Unfinished(p)' = {}
    BY <1>5 DEF Unfinished
  <2>3. \A q \in Terminals : Unfinished(q) \subseteq Unfinished(q)' \union loose'
    BY <2>1, <2>2
  <2>4. \A q \in Terminals : \A t \in Unfinished(q)' :
          t \in Unfinished(q) /\ learned'[q].answer = learned[q].answer
    BY <1>5, <2>1, <2>2
  <2>5. WritesWhatItSaved' /\ ModelFollowsMemory'
    BY <1>5, <2>3, <2>4, MindsRest
  <2> QED
    BY <1>1, <1>2, <1>5, <2>5
<1>6. ASSUME UNCHANGED <<bookMinds, stage, learned>>
      PROVE  Goal
  <2>1. UNCHANGED <<observed, userModel, answers, loose>>
    BY <1>6 DEF bookMinds
  <2>2. \A q \in Terminals : Unfinished(q)' = Unfinished(q)
    BY <1>6 DEF Unfinished
  <2>3. WritesWhatItSaved' /\ ModelFollowsMemory'
    BY <1>6, <2>1, <2>2, MindsRest
  <2> QED
    BY <1>1, <2>1, <2>3
<1>7. ASSUME NEW p \in Terminals, SaveObserved(p)
      PROVE  Goal
  <2> DEFINE ts == learned[p].topics
             a == learned[p].answer
  <2>1. /\ stage[p] = "observe" /\ UNCHANGED <<userModel, answers>>
        /\ observed' = [t \in Topics |-> IF t \in ts THEN a ELSE observed[t]]
    BY <1>7 DEF SaveObserved
  <2>2. ts \subseteq Topics /\ a \in Answers
    BY <1>2
  <2>3. observed' \in [Topics -> Answers]
    BY <1>1, <2>1, <2>2
  <2>4. Unfinished(p) = {}
    BY <2>1 DEF Unfinished
  <2>5. CASE purpose[p] = "nudge"
    <3>1. /\ RestsAt(p, "idle") /\ loose' = loose \union ts
      BY <1>7, <2>5 DEF SaveObserved
    <3>2. /\ stage' = [stage EXCEPT ![p] = "idle"]
          /\ learned' = [learned EXCEPT ![p] = NoAnswer]
      BY <3>1 DEF RestsAt
    <3>3. stage'[p] = "idle" /\ \A q \in Terminals : q # p =>
             stage'[q] = stage[q] /\ learned'[q] = learned[q]
      BY <1>1, <3>2
    <3>4. Unfinished(p)' = {} /\ \A q \in Terminals : q # p =>
             Unfinished(q)' = Unfinished(q)
      BY <3>3 DEF Unfinished
    <3>5. WritesWhatItSaved'
      <4> SUFFICES ASSUME NEW q \in Terminals, NEW t \in Unfinished(q)', t \notin loose'
                   PROVE  observed'[t] = learned'[q].answer
        BY DEF WritesWhatItSaved
      <4>1. /\ q # p /\ t \in Unfinished(q) /\ t \notin loose /\ t \notin ts
            /\ t \in Topics /\ learned'[q] = learned[q]
        BY <1>2, <3>1, <3>3, <3>4
      <4>2. observed[t] = learned[q].answer
        BY <4>1 DEF WritesWhatItSaved
      <4> QED
        BY <2>1, <4>1, <4>2
    <3>6. ModelFollowsMemory'
      <4> SUFFICES ASSUME NEW t \in Topics, t \notin loose', userModel'[t] # observed'[t]
                   PROVE  \E q \in Terminals : t \in Unfinished(q)'
        BY DEF ModelFollowsMemory
      <4>1. t \notin loose /\ t \notin ts /\ userModel[t] # observed[t]
        BY <2>1, <3>1
      <4>2. PICK q \in Terminals : t \in Unfinished(q)
        BY <4>1 DEF ModelFollowsMemory
      <4> QED
        BY <2>4, <3>4, <4>2
    <3>7. loose' \subseteq Topics
      BY <1>1, <2>2, <3>1
    <3> QED
      BY <1>1, <2>1, <2>3, <3>5, <3>6, <3>7
  <2>6. CASE purpose[p] # "nudge"
    <3>1. /\ stage' = [stage EXCEPT ![p] = "profile"] /\ learned' = learned
          /\ loose' = (loose \ ts) \union
                      (ts \intersect UNION {Unfinished(q) : q \in Terminals})
      BY <1>7, <2>6 DEF SaveObserved
    <3>2. stage'[p] = "profile" /\ \A q \in Terminals : q # p => stage'[q] = stage[q]
      BY <1>1, <3>1
    <3>3. Unfinished(p)' = ts /\ \A q \in Terminals : q # p =>
             Unfinished(q)' = Unfinished(q)
      BY <3>1, <3>2 DEF Unfinished
    <3>4. WritesWhatItSaved'
      <4> SUFFICES ASSUME NEW q \in Terminals, NEW t \in Unfinished(q)', t \notin loose'
                   PROVE  observed'[t] = learned'[q].answer
        BY DEF WritesWhatItSaved
      <4>1. CASE q = p
        <5>1. t \in ts /\ t \in Topics
          BY <2>2, <3>3, <4>1
        <5> QED
          BY <2>1, <3>1, <4>1, <5>1
      <4>2. CASE q # p
        <5>1. t \in Unfinished(q)
          BY <3>3, <4>2
        <5>2. t \notin ts /\ t \notin loose /\ t \in Topics
          BY <1>2, <3>1, <5>1
        <5>3. observed[t] = learned[q].answer
          BY <5>1, <5>2 DEF WritesWhatItSaved
        <5> QED
          BY <2>1, <3>1, <5>2, <5>3
      <4> QED
        BY <4>1, <4>2
    <3>5. ModelFollowsMemory'
      <4> SUFFICES ASSUME NEW t \in Topics, t \notin loose', userModel'[t] # observed'[t]
                   PROVE  \E q \in Terminals : t \in Unfinished(q)'
        BY DEF ModelFollowsMemory
      <4>1. CASE t \in ts
        BY <3>3, <4>1
      <4>2. CASE t \notin ts
        <5>1. t \notin loose /\ userModel[t] # observed[t]
          BY <2>1, <3>1, <4>2
        <5>2. PICK q \in Terminals : t \in Unfinished(q)
          BY <5>1 DEF ModelFollowsMemory
        <5> QED
          BY <2>4, <3>3, <5>2
      <4> QED
        BY <4>1, <4>2
    <3>6. loose' \subseteq Topics
      BY <1>1, <2>2, <3>1
    <3> QED
      BY <1>1, <2>1, <2>3, <3>4, <3>5, <3>6
  <2> QED
    BY <2>5, <2>6
<1>8. ASSUME NEW p \in Terminals, SaveModel(p)
      PROVE  Goal
  <2> DEFINE ts == learned[p].topics
             a == learned[p].answer
  <2>1. /\ stage[p] = "profile" /\ UNCHANGED <<observed, answers, loose>>
        /\ userModel' = [t \in Topics |-> IF t \in ts THEN a ELSE userModel[t]]
        /\ learned' = [learned EXCEPT ![p] = NoAnswer]
        /\ \/ stage' = [stage EXCEPT ![p] = "idle"]
           \/ stage' = [stage EXCEPT ![p] = "event"]
    BY <1>8 DEF SaveModel, RestsAt
  <2>2. ts \subseteq Topics /\ a \in Answers
    BY <1>2
  <2>3. userModel' \in [Topics -> Answers]
    BY <1>1, <2>1, <2>2
  <2>4. /\ stage'[p] \in {"idle", "event"}
        /\ \A q \in Terminals : q # p =>
             stage'[q] = stage[q] /\ learned'[q] = learned[q]
    BY <1>1, <2>1
  <2>5. /\ Unfinished(p)' = {} /\ Unfinished(p) = ts
        /\ \A q \in Terminals : q # p => Unfinished(q)' = Unfinished(q)
    BY <2>1, <2>4 DEF Unfinished
  <2>6. WritesWhatItSaved'
    <3> SUFFICES ASSUME NEW q \in Terminals, NEW t \in Unfinished(q)', t \notin loose'
                 PROVE  observed'[t] = learned'[q].answer
      BY DEF WritesWhatItSaved
    <3>1. q # p /\ t \in Unfinished(q) /\ t \notin loose /\ learned'[q] = learned[q]
      BY <2>1, <2>4, <2>5
    <3> QED
      BY <2>1, <3>1 DEF WritesWhatItSaved
  <2>7. ModelFollowsMemory'
    <3> SUFFICES ASSUME NEW t \in Topics, t \notin loose', userModel'[t] # observed'[t]
                 PROVE  \E q \in Terminals : t \in Unfinished(q)'
      BY DEF ModelFollowsMemory
    <3>1. t \notin ts
      <4> SUFFICES ASSUME t \in ts
                   PROVE  FALSE
        OBVIOUS
      <4>1. observed[t] = a
        BY <2>1, <2>5 DEF WritesWhatItSaved
      <4>2. userModel'[t] = a
        BY <2>1
      <4> QED
        BY <2>1, <4>1, <4>2
    <3>2. userModel[t] # observed[t] /\ t \notin loose
      BY <2>1, <3>1
    <3>3. PICK q \in Terminals : t \in Unfinished(q)
      BY <3>2 DEF ModelFollowsMemory
    <3> QED
      BY <2>5, <3>1, <3>3
  <2> QED
    BY <1>1, <2>1, <2>3, <2>6, <2>7
<1>9. ASSUME NEW p \in Terminals, PersonaReset(p)
      PROVE  Goal
  <2>1. /\ userModel' = [t \in Topics |-> 0] /\ loose' = Topics
        /\ UNCHANGED <<observed, answers, stage, learned>>
    BY <1>9 DEF PersonaReset, bookTask
  <2>2. 0 \in Answers
    BY BookTyped DEF Answers
  <2>3. userModel' \in [Topics -> Answers]
    BY <2>1, <2>2
  <2>4. \A q \in Terminals : Unfinished(q)' = Unfinished(q)
    BY <2>1 DEF Unfinished
  <2>5. WritesWhatItSaved' /\ ModelFollowsMemory'
    BY <1>2, <2>1, <2>4 DEF WritesWhatItSaved, ModelFollowsMemory
  <2> QED
    BY <1>1, <2>1, <2>3, <2>5
<1>10. ASSUME NEW p \in Terminals, BookMoves(p)
       PROVE  Goal
  <2>1. CASE SaveObserved(p)
    BY <1>7, <2>1
  <2>2. CASE SaveModel(p)
    BY <1>8, <2>2
  <2>3. CASE PersonaReset(p)
    BY <1>9, <2>3
  <2>4. CASE TerminalKilled(p) \/ LearningFails(p)
    <3>1. \/ stage' = [stage EXCEPT ![p] = "off"]
          \/ stage' = [stage EXCEPT ![p] = "idle"]
      BY <2>4 DEF TerminalKilled, LearningFails, RestsAt
    <3>2. /\ learned' = [learned EXCEPT ![p] = NoAnswer]
          /\ UNCHANGED <<observed, userModel, answers>>
          /\ loose' = loose \union Unfinished(p)
      BY <2>4 DEF TerminalKilled, LearningFails, RestsAt
    <3>3. stage'[p] # "profile" /\ \A q \in Terminals : q # p =>
             stage'[q] = stage[q] /\ learned'[q] = learned[q]
      BY <1>1, <3>1, <3>2
    <3> QED
      BY <1>5, <3>2, <3>3
  <2>5. CASE AskModel(p)
    <3>1. /\ stage[p] = "think" /\ answers' = answers + 1 /\ answers < MaxAnswers
          /\ UNCHANGED <<observed, userModel, loose>>
          /\ \/ stage' = [stage EXCEPT ![p] = "observe"]
             \/ stage' = [stage EXCEPT ![p] = "summarize"]
          /\ \E x : learned' = [learned EXCEPT ![p] = x]
      BY <2>5 DEF AskModel
    <3>2. stage'[p] # "profile" /\ \A q \in Terminals : q # p =>
             stage'[q] = stage[q] /\ learned'[q] = learned[q]
      BY <1>1, <3>1
    <3>3. answers' \in Answers
      BY <1>1, <3>1, BookTyped DEF Answers
    <3> QED
      BY <1>4, <3>1, <3>2, <3>3
  <2>6. CASE OpenTerminal(p) \/ StoreCopy(p) \/ CopyFails(p) \/ LogEvent(p)
    <3>1. /\ stage[p] # "profile" /\ UNCHANGED <<observed, userModel, answers, loose>>
          /\ \/ stage' = [stage EXCEPT ![p] = "off"]
             \/ stage' = [stage EXCEPT ![p] = "idle"]
          /\ learned' = [learned EXCEPT ![p] = NoAnswer]
      BY <2>6 DEF OpenTerminal, StoreCopy, CopyFails, LogEvent, RestsAt, bookMinds
    <3>2. stage'[p] # "profile" /\ \A q \in Terminals : q # p =>
             stage'[q] = stage[q] /\ learned'[q] = learned[q]
      BY <1>1, <3>1
    <3> QED
      BY <1>1, <1>4, <3>1, <3>2
  <2>7. CASE SaveSummary(p)
    <3>1. /\ stage[p] # "profile" /\ UNCHANGED <<observed, userModel, answers, loose>>
          /\ stage' = [stage EXCEPT ![p] = "observe"]
          /\ learned' = [learned EXCEPT ![p].summary = FALSE]
      BY <2>7 DEF SaveSummary, bookMinds
    <3>2. stage'[p] # "profile" /\ \A q \in Terminals : q # p =>
             stage'[q] = stage[q] /\ learned'[q] = learned[q]
      BY <1>1, <3>1
    <3> QED
      BY <1>1, <1>4, <3>1, <3>2
  <2>8. CASE \/ CompressSession(p) \/ QuitTerminal(p) \/ LoadTail(p)
             \/ \E c \in Sessions : TakeSnapshot(p, c)
    <3>1. /\ stage[p] # "profile" /\ UNCHANGED <<observed, userModel, answers, loose>>
          /\ \/ stage' = [stage EXCEPT ![p] = "load"]
             \/ stage' = [stage EXCEPT ![p] = "think"]
             \/ stage' = [stage EXCEPT ![p] = "snap"]
          /\ learned' = learned
      BY <2>8 DEF CompressSession, QuitTerminal, LearnFrom, LoadTail, TakeSnapshot,
                  bookMinds
    <3>2. stage'[p] # "profile" /\ \A q \in Terminals : q # p =>
             stage'[q] = stage[q] /\ learned'[q] = learned[q]
      BY <1>1, <3>1
    <3> QED
      BY <1>1, <1>4, <3>1, <3>2
  <2>9. CASE TakeTurn(p)
    <3>1. /\ stage[p] # "profile" /\ UNCHANGED <<observed, userModel, answers, loose>>
          /\ stage' = stage \/ stage' = [stage EXCEPT ![p] = "think"]
          /\ learned' = learned
      BY <2>9 DEF TakeTurn, bookMinds
    <3>2. stage'[p] # "profile" /\ \A q \in Terminals : q # p =>
             stage'[q] = stage[q] /\ learned'[q] = learned[q]
      BY <1>1, <3>1
    <3> QED
      BY <1>1, <1>4, <3>1, <3>2
  <2>10. CASE \/ NewSession(p) \/ SaveSession(p)
              \/ \E c \in Sessions : RestoreSession(p, c)
    <3>1. UNCHANGED <<bookMinds, stage, learned>>
      BY <2>10 DEF NewSession, SaveSession, RestoreSession, bookTask
    <3> QED
      BY <1>6, <3>1
  <2> HIDE DEF Goal
  <2> QED
    BY <1>10, <2>1, <2>2, <2>3, <2>4, <2>5, <2>6, <2>7, <2>8, <2>9, <2>10
    DEF BookMoves
<1>11. ASSUME BookRests
       PROVE  Goal
  <2>1. UNCHANGED <<bookMinds, stage, learned>>
    BY <1>11 DEF BookRests, RenameSession, DeleteSession, bookVars, bookTask
  <2> QED
    BY <1>6, <2>1
<1>12. Goal
  <2> HIDE DEF Goal
  <2> QED
    BY <1>10, <1>11, BookSteps
<1> QED
  BY <1>12

-----------------------------------------------------------------------------
(* What is under way in a terminal, after a step of it.  *)
Task(p, s) ==
  /\ stage' = [stage EXCEPT ![p] = s]
  /\ purpose' \in [Terminals -> Purposes] /\ about' \in [Terminals -> 0 .. made]
  /\ seen' \in [Terminals -> Exchanges] /\ learned' \in [Terminals -> Lessons]
  /\ \A q \in Terminals : q # p => about'[q] = about[q] /\ seen'[q] = seen[q]

(* A step of a terminal's task keeps the types and the other terminals'     *)
(* tasks.                                                                   *)
LEMMA TaskTyped ==
  ASSUME BookTypeOK, made' \in Nat, made <= made', NEW p \in Terminals,
         NEW s \in Stages, Task(p, s)
  PROVE  /\ about' \in [Terminals -> 0 .. made']
         /\ stage' \in [Terminals -> Stages] /\ purpose' \in [Terminals -> Purposes]
         /\ seen' \in [Terminals -> Exchanges] /\ learned' \in [Terminals -> Lessons]
         /\ stage'[p] = s /\ about'[p] \in 0 .. made
         /\ \A q \in Terminals : q # p =>
              /\ stage'[q] = stage[q] /\ about'[q] = about[q]
              /\ seen'[q] = seen[q]
<1>1. stage \in [Terminals -> Stages] /\ stage' = [stage EXCEPT ![p] = s]
  BY TasksTyped DEF Task
<1>2. about' \in [Terminals -> 0 .. made']
  BY BookTyped DEF Task
<1> QED
  BY <1>1, <1>2 DEF Task

(* A terminal at rest has read nothing and is about nothing.  *)
LEMMA Resting ==
  ASSUME BookTypeOK, made' \in Nat, made <= made', NEW p \in Terminals,
         NEW s \in {"off", "idle"}, RestsAt(p, s)
  PROVE  Task(p, s) /\ about'[p] = 0 /\ seen'[p] = 0
<1>1. /\ MaxSaid \in Nat /\ MaxAnswers \in Nat
  BY BookTyped
<1>2. /\ 0 \in 0 .. made /\ 0 \in Exchanges /\ "none" \in Purposes
      /\ NoAnswer \in Lessons
  BY <1>1, BookTyped DEF Exchanges, Purposes, Lessons, NoAnswer, Answers
<1>3. about \in [Terminals -> 0 .. made] /\ seen \in [Terminals -> Exchanges]
  BY TasksTyped
<1>4. /\ purpose \in [Terminals -> Purposes] /\ learned \in [Terminals -> Lessons]
  BY TasksTyped
<1> QED
  BY <1>2, <1>3, <1>4 DEF RestsAt, Task

(* A step of a terminal, in what it does to its own task.  *)
LEMMA TaskSteps ==
  ASSUME BookTypeOK, ReadsWhatIsThere, CopiesFit, NEW p \in Terminals,
         BookMoves(p), made' \in Nat, made <= made',
         said' \in [Sessions -> Exchanges],
         \A c \in Existing' : c <= made => c \in Existing /\ said[c] <= said'[c]
  PROVE  \/ UNCHANGED bookTask
         \/ \E s \in Stages :
              /\ Task(p, s)
              /\ s = "event" => p \in finished'
              /\ s \in {"off", "idle"} => seen'[p] = 0
              /\ s = "load" => about'[p] # 0
              /\ about'[p] \in Existing /\ about'[p] \in Existing'
                   => seen'[p] <= said'[about'[p]]
<1> DEFINE Goal ==
      \/ UNCHANGED bookTask
      \/ \E s \in Stages :
           /\ Task(p, s)
           /\ s = "event" => p \in finished'
           /\ s \in {"off", "idle"} => seen'[p] = 0
           /\ s = "load" => about'[p] # 0
           /\ about'[p] \in Existing /\ about'[p] \in Existing'
                => seen'[p] <= said'[about'[p]]
<1>1. /\ about \in [Terminals -> 0 .. made]
      /\ stage \in [Terminals -> Stages] /\ purpose \in [Terminals -> Purposes]
      /\ seen \in [Terminals -> Exchanges] /\ learned \in [Terminals -> Lessons]
      /\ managerId \in [Terminals -> 0 .. made]
  BY TasksTyped
<1>2. /\ made \in Nat /\ made <= MaxSessions /\ MaxSessions \in Nat
      /\ MaxSaid \in Nat /\ MaxAnswers \in Nat
      /\ Existing \subseteq 1 .. made /\ Existing \subseteq Sessions
      /\ recent # <<>> => LatestSession \in Existing
      /\ said \in [Sessions -> Exchanges] /\ covered \in [Sessions -> Exchanges]
  BY BookTyped
<1>3. /\ purpose[p] \in Purposes /\ about[p] \in 0 .. made /\ seen[p] \in Exchanges
      /\ learned[p] \in Lessons /\ 0 \in Exchanges /\ seen[p] \in Nat
      /\ purpose = [purpose EXCEPT ![p] = purpose[p]]
      /\ learned = [learned EXCEPT ![p] = learned[p]]
  BY <1>1, <1>2 DEF Exchanges
<1>4. /\ stage[p] \in {"off", "idle"} => seen[p] = 0
      /\ about[p] \in Existing => seen[p] <= said[about[p]]
  BY DEF ReadsWhatIsThere
<1>5. \A c \in Existing : c \in Existing' => said[c] <= said'[c]
  BY <1>2
<1>6. \A c \in Existing : said[c] \in Nat
  BY <1>2 DEF Exchanges
<1>7. ASSUME NEW s \in {"off", "idle"}, RestsAt(p, s)
      PROVE  Goal
  <2>1. Task(p, s) /\ about'[p] = 0 /\ seen'[p] = 0
    BY <1>7, Resting
  <2>2. 0 \notin Existing
    BY <1>2
  <2> QED
    BY <2>1, <2>2 DEF Stages
<1>8. ASSUME NEW s \in Stages \ {"off", "idle", "load", "event"},
             stage' = [stage EXCEPT ![p] = s],
             UNCHANGED <<about, seen>>, UNCHANGED said,
             \E x \in Purposes : purpose' = [purpose EXCEPT ![p] = x],
             \E l \in Lessons : learned' = [learned EXCEPT ![p] = l]
      PROVE  Goal
  <2>1. Task(p, s)
    <3>1. PICK x \in Purposes, l \in Lessons :
            /\ purpose' = [purpose EXCEPT ![p] = x]
            /\ learned' = [learned EXCEPT ![p] = l]
      BY <1>8
    <3> QED
      BY <1>1, <1>8, <3>1 DEF Task
  <2> QED
    BY <1>4, <1>8, <2>1
<1>9. CASE TakeTurn(p)
  <2>1. CASE UNCHANGED <<stage, purpose>>
    BY <1>9, <2>1 DEF TakeTurn, bookTask
  <2>2. CASE ~UNCHANGED <<stage, purpose>>
    <3>1. /\ stage' = [stage EXCEPT ![p] = "think"]
          /\ purpose' = [purpose EXCEPT ![p] = "nudge"]
          /\ UNCHANGED <<about, seen, learned>> /\ stage[p] = "idle"
      BY <1>9, <2>2 DEF TakeTurn
    <3>2. Task(p, "think")
      BY <1>1, <3>1 DEF Task, Purposes
    <3>3. seen[p] = 0
      BY <1>4, <3>1
    <3>4. about[p] \in Existing /\ about[p] \in Existing' => 0 <= said'[about[p]]
      <4> SUFFICES ASSUME about[p] \in Existing, about[p] \in Existing'
                   PROVE  0 <= said'[about[p]]
        OBVIOUS
      <4>1. said[about[p]] \in Exchanges /\ said'[about[p]] \in Exchanges
        BY <1>2
      <4>2. Exchanges \subseteq Nat
        BY <1>2 DEF Exchanges
      <4>3. said'[about[p]] \in Nat
        BY <4>1, <4>2
      <4> QED
        BY <4>3
    <3> QED
      BY <3>1, <3>2, <3>3, <3>4 DEF Stages
  <2> QED
    BY <2>1, <2>2
<1>10. CASE NewSession(p) \/ SaveSession(p) \/ PersonaReset(p)
              \/ \E c \in Sessions : RestoreSession(p, c)
  BY <1>10 DEF NewSession, SaveSession, PersonaReset, RestoreSession
<1>11. ASSUME NEW c \in Sessions, TakeSnapshot(p, c)
       PROVE  Goal
  <2>1. /\ c \in Existing /\ UNCHANGED <<said, learned>>
        /\ purpose' = purpose \/ purpose' = [purpose EXCEPT ![p] = "command"]
        /\ stage' = [stage EXCEPT ![p] = "snap"]
        /\ about' = [about EXCEPT ![p] = c]
        /\ seen' = [seen EXCEPT ![p] = covered[c]]
    BY <1>11 DEF TakeSnapshot, bookRows
  <2>2. c \in 0 .. made /\ covered[c] \in Exchanges
    BY <1>2, <2>1
  <2>3. Task(p, "snap")
    <3>1. \E x \in Purposes : purpose' = [purpose EXCEPT ![p] = x]
      BY <1>3, <2>1 DEF Purposes
    <3>2. PICK x \in Purposes : purpose' = [purpose EXCEPT ![p] = x]
      BY <3>1
    <3> QED
      BY <1>1, <2>1, <2>2, <3>2 DEF Task
  <2>4. about'[p] = c /\ seen'[p] = covered[c] /\ covered[c] <= said'[c]
    BY <1>1, <2>1 DEF CopiesFit
  <2> QED
    BY <2>3, <2>4 DEF Stages
<1>12. ASSUME NEW c \in 1 .. made, NEW for \in Purposes, LearnFrom(p, c, for)
       PROVE  Goal
  <2>1. /\ stage[p] = "idle" /\ stage' = [stage EXCEPT ![p] = "load"]
        /\ purpose' = [purpose EXCEPT ![p] = for]
        /\ about' = [about EXCEPT ![p] = c]
        /\ UNCHANGED <<said, seen, learned>>
    BY <1>12 DEF LearnFrom, bookRows
  <2>2. Task(p, "load")
    <3>1. c \in 0 .. made
      BY <1>2
    <3> QED
      BY <1>1, <2>1, <3>1 DEF Task
  <2>3. about'[p] = c /\ c # 0 /\ seen'[p] = 0
    BY <1>1, <1>2, <1>4, <2>1
  <2>4. c \in Existing => 0 <= said'[c]
    BY <1>6, <2>1
  <2> QED
    BY <2>2, <2>3, <2>4 DEF Stages
<1>13. CASE CompressSession(p)
  <2>1. LearnFrom(p, managerId[p], "compress") /\ managerId[p] \in 1 .. made
    BY <1>1, <1>2, <1>13 DEF CompressSession
  <2>2. "compress" \in Purposes
    BY DEF Purposes
  <2> HIDE DEF Goal
  <2>3. Goal
    BY <1>12, <2>1, <2>2
  <2> QED
    BY <2>3 DEF Goal
<1>14. CASE QuitTerminal(p)
  <2>1. LearnFrom(p, LatestSession, "close") /\ LatestSession \in 1 .. made
    BY <1>2, <1>14 DEF QuitTerminal
  <2>2. "close" \in Purposes
    BY DEF Purposes
  <2> HIDE DEF Goal
  <2>3. Goal
    BY <1>12, <2>1, <2>2
  <2> QED
    BY <2>3 DEF Goal
<1>15. CASE LoadTail(p)
  <2>1. /\ stage[p] = "load" /\ stage' = [stage EXCEPT ![p] = "think"]
        /\ seen' = [seen EXCEPT ![p] = said[about[p]]]
        /\ UNCHANGED <<said, purpose, about, learned>>
    BY <1>15 DEF LoadTail, bookRows
  <2>2. about[p] # 0
    BY <2>1 DEF ReadsWhatIsThere
  <2>3. about[p] \in Sessions
    BY <1>1, <1>2, <2>2 DEF Sessions
  <2>4. said[about[p]] \in Exchanges
    BY <1>2, <2>3
  <2>5. Task(p, "think")
    BY <1>1, <2>1, <2>4 DEF Task
  <2>6. seen'[p] = said[about[p]] /\ about'[p] = about[p]
    BY <1>1, <2>1
  <2>7. said[about[p]] <= said'[about[p]]
    BY <2>1, <2>4 DEF Exchanges
  <2> QED
    BY <2>5, <2>6, <2>7 DEF Stages
<1>16. CASE AskModel(p)
  <2>1. /\ stage[p] = "think" /\ answers' = answers + 1 /\ answers < MaxAnswers
        /\ UNCHANGED <<said, purpose, about, seen>>
        /\ \/ stage' = [stage EXCEPT ![p] = "observe"]
           \/ stage' = [stage EXCEPT ![p] = "summarize"]
        /\ \E s \in BOOLEAN, ts \in SUBSET Topics :
             learned' = [learned EXCEPT ![p] =
                           [answer |-> answers + 1, summary |-> s, topics |-> ts]]
    BY <1>16 DEF AskModel, bookRows
  <2>2. answers + 1 \in Answers
    <3>1. answers \in 0 .. MaxAnswers
      BY TasksTyped DEF Answers
    <3> QED
      BY <1>2, <2>1, <3>1 DEF Answers
  <2>3. PICK l \in Lessons : learned' = [learned EXCEPT ![p] = l]
    BY <2>1, <2>2 DEF Lessons
  <2>4. PICK s \in {"observe", "summarize"} : stage' = [stage EXCEPT ![p] = s]
    BY <2>1
  <2>5. s \in Stages \ {"off", "idle", "load", "event"}
    BY DEF Stages
  <2> HIDE DEF Goal
  <2>6. \E x \in Purposes : purpose' = [purpose EXCEPT ![p] = x]
    BY <1>3, <2>1
  <2>7. Goal
    BY <1>8, <2>1, <2>3, <2>4, <2>5, <2>6
  <2> QED
    BY <2>7 DEF Goal
<1>17. CASE SaveSummary(p)
  <2>1. /\ stage' = [stage EXCEPT ![p] = "observe"]
        /\ seen' = [seen EXCEPT ![p] = 0]
        /\ learned' = [learned EXCEPT ![p].summary = FALSE]
        /\ UNCHANGED <<said, purpose, about>>
    BY <1>17 DEF SaveSummary
  <2>2. /\ [learned[p] EXCEPT !.summary = FALSE] \in Lessons
        /\ learned' = [learned EXCEPT ![p] = [learned[p] EXCEPT !.summary = FALSE]]
    BY <1>3, <2>1 DEF Lessons
  <2>3. Task(p, "observe")
    BY <1>1, <1>3, <2>1, <2>2 DEF Task
  <2>4. seen'[p] = 0 /\ about'[p] = about[p]
    BY <1>1, <2>1
  <2>5. about[p] \in Existing => 0 <= said'[about[p]]
    BY <1>6, <2>1
  <2> QED
    BY <2>3, <2>4, <2>5 DEF Stages
<1>18. CASE SaveObserved(p)
  <2>1. CASE purpose[p] = "nudge"
    <3>1. RestsAt(p, "idle")
      BY <1>18, <2>1 DEF SaveObserved
    <3> QED
      BY <1>7, <3>1
  <2>2. CASE purpose[p] # "nudge"
    <3>1. /\ stage' = [stage EXCEPT ![p] = "profile"]
          /\ UNCHANGED <<said, purpose, about, seen, learned>>
      BY <1>18, <2>2 DEF SaveObserved, bookRows
    <3>2. "profile" \in Stages \ {"off", "idle", "load", "event"}
      BY DEF Stages
    <3>3. /\ \E x \in Purposes : purpose' = [purpose EXCEPT ![p] = x]
          /\ \E l \in Lessons : learned' = [learned EXCEPT ![p] = l]
      BY <1>3, <3>1
    <3> HIDE DEF Goal
    <3>4. Goal
      BY <1>8, <3>1, <3>2, <3>3
    <3> QED
      BY <3>4 DEF Goal
  <2> QED
    BY <2>1, <2>2
<1>19. CASE SaveModel(p)
  <2>1. CASE purpose[p] = "compress"
    <3>1. RestsAt(p, "idle")
      BY <1>19, <2>1 DEF SaveModel
    <3> QED
      BY <1>7, <3>1
  <2>2. CASE purpose[p] # "compress"
    <3>1. /\ stage' = [stage EXCEPT ![p] = "event"] /\ p \in finished'
          /\ learned' = [learned EXCEPT ![p] = NoAnswer]
          /\ UNCHANGED <<said, purpose, about, seen>>
      BY <1>19, <2>2 DEF SaveModel, bookRows
    <3>2. NoAnswer \in Lessons
      BY <1>2 DEF NoAnswer, Lessons, Answers
    <3>3. Task(p, "event")
      BY <1>1, <3>1, <3>2 DEF Task
    <3> QED
      BY <1>4, <3>1, <3>3 DEF Stages
  <2> QED
    BY <2>1, <2>2
<1>20. CASE OpenTerminal(p) \/ TerminalKilled(p) \/ StoreCopy(p) \/ CopyFails(p)
              \/ LogEvent(p) \/ LearningFails(p)
  <2>1. RestsAt(p, "off") \/ RestsAt(p, "idle")
    BY <1>20 DEF OpenTerminal, TerminalKilled, StoreCopy, CopyFails, LogEvent,
                 LearningFails
  <2> QED
    BY <1>7, <2>1
<1> QED
  BY <1>9, <1>10, <1>11, <1>13, <1>14, <1>15, <1>16, <1>17, <1>18, <1>19, <1>20
  DEF BookMoves

(* What terminals have read stays no more than what is there, and an event  *)
(* is written only behind a close that returned.                            *)
LEMMA TasksGoOn ==
  ASSUME BookTypeOK, ReadsWhatIsThere, NoneFoundBefore, CopiesFit,
         EventMeansClosed, [BookNext]_bookVars
  PROVE  /\ about' \in [Terminals -> 0 .. made']
         /\ stage' \in [Terminals -> Stages] /\ purpose' \in [Terminals -> Purposes]
         /\ seen' \in [Terminals -> Exchanges] /\ learned' \in [Terminals -> Lessons]
         /\ ReadsWhatIsThere' /\ EventMeansClosed'
<1>1. /\ about \in [Terminals -> 0 .. made]
      /\ stage \in [Terminals -> Stages] /\ purpose \in [Terminals -> Purposes]
      /\ seen \in [Terminals -> Exchanges] /\ learned \in [Terminals -> Lessons]
      /\ finished \subseteq Terminals
  BY TasksTyped
<1>2. /\ made \in Nat /\ Existing \subseteq Sessions
      /\ said \in [Sessions -> Exchanges] /\ MaxSaid \in Nat
  BY BookTyped
<1>3. /\ made' \in Nat /\ made <= made'
      /\ \A c \in Existing' : c <= made => c \in Existing /\ said[c] <= said'[c]
      /\ said' \in [Sessions -> Exchanges]
  BY RowsGoOn
<1>4. ASSUME NEW q \in Terminals, stage'[q] = stage[q], about'[q] = about[q],
             seen'[q] = seen[q]
      PROVE  /\ stage'[q] \in {"off", "idle"} => seen'[q] = 0
             /\ stage'[q] = "load" => about'[q] # 0
             /\ about'[q] \in Existing' => seen'[q] <= said'[about'[q]]
  <2>1. /\ stage[q] \in {"off", "idle"} => seen[q] = 0
        /\ stage[q] = "load" => about[q] # 0
        /\ about[q] \in Existing => seen[q] <= said[about[q]]
    BY DEF ReadsWhatIsThere
  <2>2. ASSUME about[q] \in Existing'
        PROVE  seen[q] <= said'[about[q]]
    <3>1. about[q] <= made
      BY <1>1, <1>2
    <3>2. about[q] \in Existing /\ said[about[q]] <= said'[about[q]]
      BY <1>3, <2>2, <3>1
    <3>3. about[q] \in Sessions
      BY <1>2, <3>2
    <3>4. said[about[q]] \in Nat /\ said'[about[q]] \in Nat /\ seen[q] \in Nat
      BY <1>1, <1>2, <1>3, <3>3 DEF Exchanges
    <3>5. seen[q] <= said[about[q]]
      BY <2>1, <3>2
    <3> QED
      BY <3>2, <3>4, <3>5
  <2> QED
    BY <1>4, <2>1, <2>2
<1>5. ASSUME UNCHANGED bookTask, finished \subseteq finished'
      PROVE  /\ about' \in [Terminals -> 0 .. made']
             /\ stage' \in [Terminals -> Stages]
             /\ purpose' \in [Terminals -> Purposes]
             /\ seen' \in [Terminals -> Exchanges]
             /\ learned' \in [Terminals -> Lessons]
             /\ ReadsWhatIsThere' /\ EventMeansClosed'
  <2>1. UNCHANGED <<stage, purpose, about, seen, learned>>
    BY <1>5 DEF bookTask
  <2>2. about \in [Terminals -> 0 .. made']
    BY <1>1, <1>2, <1>3
  <2>3. ReadsWhatIsThere'
    BY <1>4, <2>1 DEF ReadsWhatIsThere
  <2>4. EventMeansClosed'
    BY <1>5, <2>1 DEF EventMeansClosed
  <2> QED
    BY <1>1, <2>1, <2>2, <2>3, <2>4
<1>6. CASE BookRests
  <2>1. UNCHANGED bookTask /\ finished' = finished
    BY <1>6 DEF BookRests, RenameSession, DeleteSession, bookVars
  <2> QED
    BY <1>5, <2>1
<1>7. ASSUME NEW p \in Terminals, BookMoves(p)
      PROVE  /\ about' \in [Terminals -> 0 .. made']
             /\ stage' \in [Terminals -> Stages]
             /\ purpose' \in [Terminals -> Purposes]
             /\ seen' \in [Terminals -> Exchanges]
             /\ learned' \in [Terminals -> Lessons]
             /\ ReadsWhatIsThere' /\ EventMeansClosed'
  <2>1. finished \ {p} \subseteq finished'
    BY <1>7
    DEF BookMoves, OpenTerminal, TerminalKilled, TakeTurn, NewSession, SaveSession,
        StoreCopy, CopyFails, CompressSession, QuitTerminal, LearnFrom, LoadTail,
        AskModel, SaveSummary, SaveObserved, SaveModel, LogEvent, LearningFails,
        PersonaReset, RestoreSession, TakeSnapshot
  <2>2. \/ UNCHANGED bookTask
        \/ \E s \in Stages :
             /\ Task(p, s)
             /\ s = "event" => p \in finished'
             /\ s \in {"off", "idle"} => seen'[p] = 0
             /\ s = "load" => about'[p] # 0
             /\ about'[p] \in Existing /\ about'[p] \in Existing'
                  => seen'[p] <= said'[about'[p]]
    BY <1>3, <1>7, TaskSteps
  <2>3. CASE UNCHANGED bookTask
    <3>1. stage[p] = "event" => p \in finished'
      <4>1. stage' = stage
        BY <2>3 DEF bookTask
      <4>2. finished' = finished \/ stage[p] # "event" \/ stage' # stage
        BY <1>1, <1>7
        DEF BookMoves, OpenTerminal, TerminalKilled, TakeTurn, NewSession,
            SaveSession, StoreCopy, CopyFails, CompressSession, QuitTerminal,
            LearnFrom, LoadTail, AskModel, SaveSummary, SaveObserved, SaveModel,
            LogEvent, LearningFails, PersonaReset, RestoreSession, TakeSnapshot,
            RestsAt
      <4> QED
        BY <4>1, <4>2 DEF EventMeansClosed
    <3>2. UNCHANGED <<stage, purpose, about, seen, learned>>
      BY <2>3 DEF bookTask
    <3>3. about \in [Terminals -> 0 .. made']
      BY <1>1, <1>2, <1>3
    <3>4. ReadsWhatIsThere'
      BY <1>4, <3>2 DEF ReadsWhatIsThere
    <3>5. EventMeansClosed'
      BY <2>1, <3>1, <3>2 DEF EventMeansClosed
    <3> QED
      BY <1>1, <3>2, <3>3, <3>4, <3>5
  <2>4. ASSUME NEW s \in Stages, Task(p, s), s = "event" => p \in finished',
               s \in {"off", "idle"} => seen'[p] = 0,
               s = "load" => about'[p] # 0,
               about'[p] \in Existing /\ about'[p] \in Existing'
                 => seen'[p] <= said'[about'[p]]
        PROVE  /\ about' \in [Terminals -> 0 .. made']
               /\ stage' \in [Terminals -> Stages]
               /\ purpose' \in [Terminals -> Purposes]
               /\ seen' \in [Terminals -> Exchanges]
               /\ learned' \in [Terminals -> Lessons]
               /\ ReadsWhatIsThere' /\ EventMeansClosed'
    <3>1. /\ about' \in [Terminals -> 0 .. made']
          /\ stage' \in [Terminals -> Stages] /\ purpose' \in [Terminals -> Purposes]
          /\ seen' \in [Terminals -> Exchanges] /\ learned' \in [Terminals -> Lessons]
          /\ stage'[p] = s /\ about'[p] \in 0 .. made
          /\ \A q \in Terminals : q # p =>
               stage'[q] = stage[q] /\ about'[q] = about[q] /\ seen'[q] = seen[q]
      BY <1>3, <2>4, TaskTyped
    <3>2. EventMeansClosed'
      BY <2>1, <2>4, <3>1 DEF EventMeansClosed
    <3>3. about'[p] \in Existing' => seen'[p] <= said'[about'[p]]
      <4>1. about'[p] <= made
        BY <1>2, <3>1
      <4> QED
        BY <1>3, <2>4, <4>1
    <3>4. ReadsWhatIsThere'
      BY <1>4, <2>4, <3>1, <3>3 DEF ReadsWhatIsThere
    <3> QED
      BY <3>1, <3>2, <3>4
  <2> QED
    BY <2>2, <2>3, <2>4
<1> QED
  BY <1>6, <1>7, BookSteps

-----------------------------------------------------------------------------
(* The ids terminals hold are of sessions that were made. *)
LEMMA IdsStay ==
  ASSUME BookTypeOK, [BookNext]_bookVars, made' \in Nat, made <= made'
  PROVE  /\ brainId' \in [Terminals -> 0 .. made']
         /\ managerId' \in [Terminals -> 0 .. made']
         /\ finished' \subseteq Terminals
<1>1. /\ brainId \in [Terminals -> 0 .. made]
      /\ managerId \in [Terminals -> 0 .. made] /\ finished \subseteq Terminals
  BY TasksTyped
<1>2. made \in Nat /\ Existing \subseteq 1 .. made
  BY BookTyped
<1>3. /\ brainId \in [Terminals -> 0 .. made']
      /\ managerId \in [Terminals -> 0 .. made'] /\ 0 \in 0 .. made'
      /\ Existing \subseteq 0 .. made'
  BY <1>1, <1>2
<1>4. ASSUME NEW p \in Terminals, BookMoves(p)
      PROVE  /\ brainId' \in [Terminals -> 0 .. made']
             /\ managerId' \in [Terminals -> 0 .. made']
             /\ finished' \subseteq Terminals
  <2>1. CASE NewSession(p) \/ SaveSession(p)
    <3>1. made + 1 \in 0 .. made'
      BY <1>2, <2>1 DEF NewSession, SaveSession, Make
    <3>2. /\ brainId' = brainId \/ brainId' = [brainId EXCEPT ![p] = made + 1]
          /\ managerId' = [managerId EXCEPT ![p] = made + 1]
          /\ finished' = finished
      BY <2>1 DEF NewSession, SaveSession
    <3> QED
      BY <1>1, <1>3, <3>1, <3>2
  <2>2. ASSUME NEW c \in Sessions, RestoreSession(p, c)
        PROVE  /\ brainId' \in [Terminals -> 0 .. made']
               /\ managerId' \in [Terminals -> 0 .. made']
               /\ finished' \subseteq Terminals
    BY <1>1, <1>3, <2>2 DEF RestoreSession
  <2>3. CASE ~(NewSession(p) \/ SaveSession(p) \/ \E c \in Sessions :
                                                    RestoreSession(p, c))
    <3>1. /\ UNCHANGED activeIds \/ ForgetsIds(p)
          /\ \/ finished' = finished \/ finished' = finished \ {p}
             \/ finished' = finished \union {p}
      BY <1>4, <2>3
      DEF BookMoves, OpenTerminal, TerminalKilled, TakeTurn, StoreCopy, CopyFails,
          CompressSession, QuitTerminal, LearnFrom, LoadTail, AskModel, SaveSummary,
          SaveObserved, SaveModel, LogEvent, LearningFails, PersonaReset,
          TakeSnapshot
    <3> QED
      BY <1>1, <1>3, <3>1 DEF activeIds, ForgetsIds
  <2> QED
    BY <2>1, <2>2, <2>3
<1>5. CASE BookRests
  <2>1. UNCHANGED <<brainId, managerId, finished>>
    BY <1>5 DEF BookRests, RenameSession, DeleteSession, bookVars, activeIds
  <2> QED
    BY <1>1, <1>3, <2>1
<1> QED
  BY <1>4, <1>5, BookSteps

(* At first there is no session and nothing is learned. *)
LEMMA BookStarts ==
  BookInit => BookInv
<1> SUFFICES ASSUME BookInit
             PROVE  BookInv
  OBVIOUS
<1>1. /\ MaxSessions \in Nat /\ MaxSaid \in Nat /\ MaxAnswers \in Nat
  BY BookAssumption
<1>2. /\ made = 0 /\ recent = <<>> /\ snapshots = {} /\ finished = {}
      /\ said = [c \in Sessions |-> 0] /\ findable = said /\ covered = said
      /\ observed = [t \in Topics |-> 0] /\ userModel = observed
      /\ answers = 0 /\ loose = {}
      /\ brainId = [p \in Terminals |-> 0] /\ managerId = brainId
      /\ about = brainId /\ seen = brainId
      /\ stage = [p \in Terminals |-> "off"]
      /\ purpose = [p \in Terminals |-> "none"]
      /\ learned = [p \in Terminals |-> NoAnswer]
  BY DEF BookInit
<1>3. BookTypeOK
  <2>1. recent \in Seq(1 .. made) /\ IsInjective(recent)
    BY <1>2 DEF IsInjective
  <2>2. NoAnswer \in [answer : 0 .. MaxAnswers, summary : BOOLEAN,
                      topics : SUBSET Topics]
    BY <1>1 DEF NoAnswer
  <2>3. /\ {said, findable, covered} \subseteq [Sessions -> 0 .. MaxSaid]
        /\ {observed, userModel} \subseteq [Topics -> 0 .. MaxAnswers]
        /\ {brainId, managerId, about} \subseteq [Terminals -> 0 .. made]
        /\ seen \in [Terminals -> 0 .. MaxSaid]
    BY <1>1, <1>2
  <2>4. learned \in [Terminals -> [answer : 0 .. MaxAnswers, summary : BOOLEAN,
                                   topics : SUBSET Topics]]
    BY <1>2, <2>2
  <2> QED
    BY <1>1, <1>2, <2>1, <2>3, <2>4 DEF BookTypeOK
<1>4. Existing = {}
  BY <1>2 DEF Existing, ToSet
<1>5. \A p \in Terminals : stage[p] = "off" /\ seen[p] = 0 /\ Unfinished(p) = {}
  BY <1>2 DEF Unfinished
<1>6. WritesWhatItSaved /\ ReadsWhatIsThere
  BY <1>4, <1>5 DEF WritesWhatItSaved, ReadsWhatIsThere
<1>7. ModelFollowsMemory /\ EventMeansClosed
  BY <1>2, <1>5 DEF ModelFollowsMemory, EventMeansClosed
<1>8. CopiesFit /\ NoneFoundBefore
  BY <1>2, <1>4 DEF CopiesFit, NoneFoundBefore
<1> QED
  BY <1>3, <1>6, <1>7, <1>8 DEF BookInv

(* Every step keeps the invariant: the rows, the minds and the tasks. *)
LEMMA BookGoesOn ==
  BookInv /\ [BookNext]_bookVars => BookInv'
<1> SUFFICES ASSUME BookInv, [BookNext]_bookVars
             PROVE  BookInv'
  OBVIOUS
<1>1. /\ BookTypeOK /\ WritesWhatItSaved /\ ReadsWhatIsThere
      /\ NoneFoundBefore /\ ModelFollowsMemory /\ EventMeansClosed /\ CopiesFit
  BY DEF BookInv
<1>2. /\ made' \in Nat /\ made <= made' /\ made' <= MaxSessions
      /\ recent' \in Seq(1 .. made') /\ IsInjective(recent')
      /\ said' \in [Sessions -> Exchanges] /\ covered' \in [Sessions -> Exchanges]
      /\ findable' \in [Sessions -> Exchanges]
      /\ snapshots' \subseteq Snapshots /\ CopiesFit' /\ NoneFoundBefore'
  BY <1>1, RowsGoOn
<1>3. /\ observed' \in [Topics -> Answers] /\ userModel' \in [Topics -> Answers]
      /\ answers' \in Answers /\ loose' \subseteq Topics
      /\ WritesWhatItSaved' /\ ModelFollowsMemory'
  BY <1>1, MindsGoOn
<1>4. /\ about' \in [Terminals -> 0 .. made']
      /\ stage' \in [Terminals -> Stages] /\ purpose' \in [Terminals -> Purposes]
      /\ seen' \in [Terminals -> Exchanges] /\ learned' \in [Terminals -> Lessons]
      /\ ReadsWhatIsThere' /\ EventMeansClosed'
  BY <1>1, TasksGoOn
<1>5. /\ brainId' \in [Terminals -> 0 .. made']
      /\ managerId' \in [Terminals -> 0 .. made']
      /\ finished' \subseteq Terminals
  BY <1>1, <1>2, IdsStay
<1>6. made' \in 0 .. MaxSessions
  BY <1>2, BookAssumption
<1>7. BookTypeOK'
  BY <1>2, <1>3, <1>4, <1>5, <1>6
  DEF BookTypeOK, Exchanges, Snapshots, Answers, Stages, Purposes, Lessons
<1> QED
  BY <1>2, <1>3, <1>4, <1>7 DEF BookInv

(* No session that was deleted comes back, whatever another process had     *)
(* begun on it (sqlite.go:480, 939; brain.go:724-743).                      *)
LEMMA DeletedStayGone ==
  BookSpec => DeletedSessionsStayGone
<1>1. BookInv /\ [BookNext]_bookVars =>
        [\A c \in 1 .. made : c \notin Existing => c \notin Existing']_bookVars
  <2> SUFFICES ASSUME BookInv, [BookNext]_bookVars, NEW c \in 1 .. made,
                      c \in Existing'
               PROVE  c \in Existing
    OBVIOUS
  <2>1. c <= made
    OBVIOUS
  <2> QED
    BY <2>1, RowsGoOn DEF BookInv
<1> QED
  BY <1>1, BookStarts, BookGoesOn, PTL DEF BookSpec, DeletedSessionsStayGone

(* Whoever works on a database, its sessions' summaries and snapshots fit   *)
(* what was said, a session that is there is searched whole, one that was   *)
(* deleted has neither messages nor snapshots (its search rows are not      *)
(* spoken of) and does not come back, an event means a close that was       *)
(* carried through, and the user model says what memory says                *)
(* (sqlite.go:478, 480, 939, 956).                                          *)
THEOREM BooksAreKept ==
  BookSpec => BookHolds
<1>1. BookInv => ModelFollowsMemory /\ EventMeansClosed /\ CopiesFit
  BY DEF BookInv
<1>2. BookSpec => [](ModelFollowsMemory /\ EventMeansClosed /\ CopiesFit)
  BY <1>1, BookStarts, BookGoesOn, PTL DEF BookSpec
<1> QED
  BY <1>2, DeletedStayGone, PTL DEF BookHolds
=============================================================================
