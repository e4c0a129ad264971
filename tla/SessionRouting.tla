--------------------------- MODULE SessionRouting ---------------------------
(***************************************************************************)
(* How a daemon brings an event into a conversation.  The chat gateway      *)
(* (Multiplexer.HandleEvent), the cron engine (executeJob) and the webhook  *)
(* server (processEvent) share one shape: lock the session key, look up or  *)
(* create its conversation, make it the brain's active one, run one step,   *)
(* read the last message back and deliver it.  One Brain serves all of      *)
(* them, and its step picks the conversation up from the field activeID.    *)
(***************************************************************************)
EXTENDS Integers, Sequences, FiniteSets, SequencesExt

CONSTANTS
  Events,       (* the inbound messages, jobs or payloads                    *)
  Keys,         (* the session keys                                          *)
  KeyOf,        (* the key of each event                                     *)
  None,
  MaxMishaps    (* bound: deletions of a conversation by another process and *)
                (* times the daemon is killed and started again, together    *)

ASSUME RoutingAssumption ==
  /\ KeyOf \in [Events -> Keys]
  /\ None \notin Events
  /\ MaxMishaps \in Nat

VARIABLES
  pc,        (* where the handler of each event stands                       *)
  lock,      (* sessionLocks: the event that holds the mutex of a key        *)
  sessions,  (* the conversation each key is bound to, 0 when none           *)
  activeID,  (* the brain's active conversation, 0 when none                 *)
  convs,     (* the conversations ever created: key, messages, still there   *)
  recent,    (* conversations in the order of their last update              *)
  routed,    (* the conversation the handler resolved                        *)
  picked,    (* the conversation the step works on                           *)
  sent,      (* the event whose reply was delivered for an event             *)
  overlap,   (* history: events of two keys were in flight at the same time  *)
  restarts

routingVars == <<pc, lock, sessions, activeID, convs, recent, routed, picked,
                 sent, overlap, restarts>>

Places == {"new", "locking", "resolve", "activate", "pick", "persist",
           "think", "fetch", "over"}
InFlight == {e \in Events : pc[e] \notin {"new", "over"}}
Live == {c \in DOMAIN convs : convs[c].live}

RoutingTypeOK ==
  /\ pc \in [Events -> Places]
  /\ lock \in [Keys -> Events \union {None}]
  /\ sessions \in [Keys -> 0 .. Len(convs)]
  /\ activeID \in 0 .. Len(convs)
  /\ convs \in Seq([key : Keys, live : BOOLEAN,
                    log : Seq([role : {"user", "assistant"}, event : Events])])
  /\ recent \in Seq(DOMAIN convs)
  /\ \A i, j \in DOMAIN recent : recent[i] = recent[j] => i = j
  /\ routed \in [Events -> 0 .. Len(convs)]
  /\ picked \in [Events -> 0 .. Len(convs)]
  /\ sent \in [Events -> Events \union {None}]
  /\ overlap \in BOOLEAN
  /\ restarts \in 0 .. MaxMishaps

RoutingInit ==
  /\ pc = [e \in Events |-> "new"]
  /\ lock = [k \in Keys |-> None]
  /\ sessions = [k \in Keys |-> 0]
  /\ activeID = 0
  /\ convs = <<>> /\ recent = <<>>
  /\ routed = [e \in Events |-> 0] /\ picked = [e \in Events |-> 0]
  /\ sent = [e \in Events |-> None]
  /\ overlap = FALSE /\ restarts = 0

Goto(e, place) == pc' = [pc EXCEPT ![e] = place]

FinishKeepingLock(e) == Goto(e, "over") /\ lock' = lock

(* The deferred unlock. *)
Finish(e) ==
  /\ Goto(e, "over")
  /\ lock' = [lock EXCEPT ![KeyOf[e]] = None]

TouchedTwice(c) == Append(recent, c)
Touched(c) == Append(RemoveFirst(recent, c), c)

Deliver(e) ==
  /\ pc[e] = "new"
  /\ overlap' = (overlap \/ \E f \in InFlight : KeyOf[f] # KeyOf[e])
  /\ Goto(e, "locking")
  /\ UNCHANGED <<lock, sessions, activeID, convs, recent, routed, picked,
                 sent, restarts>>

TakeLockAnyway(e) ==
  /\ pc[e] = "locking"
  /\ lock' = [lock EXCEPT ![KeyOf[e]] = e]
  /\ Goto(e, "resolve")
  /\ UNCHANGED <<sessions, activeID, convs, recent, routed, picked, sent,
                 restarts, overlap>>

(* Turns of one key are serialised by its mutex. *)
TakeLock(e) ==
  /\ pc[e] = "locking"
  /\ lock[KeyOf[e]] = None
  /\ lock' = [lock EXCEPT ![KeyOf[e]] = e]
  /\ Goto(e, "resolve")
  /\ UNCHANGED <<sessions, activeID, convs, recent, routed, picked, sent,
                 restarts, overlap>>

Create(e) ==
  LET new == [key |-> KeyOf[e], live |-> TRUE, log |-> <<>>]
      c   == Len(convs) + 1
  IN  /\ convs' = Append(convs, new)
      /\ recent' = Append(recent, c)
      /\ sessions' = [sessions EXCEPT ![KeyOf[e]] = c]
      /\ routed' = [routed EXCEPT ![e] = c]

ResolveConversationForgetting(e) ==
  /\ pc[e] = "resolve"
  /\ Create(e) /\ Goto(e, "activate") /\ lock' = lock
  /\ UNCHANGED <<activeID, picked, sent, restarts, overlap>>

(* resolveConversation: the binding kept in memory, or a new conversation   *)
(* titled with the key, which may fail.                                     *)
ResolveConversation(e) ==
  /\ pc[e] = "resolve"
  /\ \/ /\ sessions[KeyOf[e]] # 0
        /\ routed' = [routed EXCEPT ![e] = sessions[KeyOf[e]]]
        /\ Goto(e, "activate")
        /\ UNCHANGED <<lock, convs, recent, sessions>>
     \/ /\ sessions[KeyOf[e]] = 0
        /\ Create(e) /\ Goto(e, "activate") /\ lock' = lock
     \/ /\ sessions[KeyOf[e]] = 0
        /\ Finish(e)
        /\ UNCHANGED <<convs, recent, sessions, routed>>
  /\ UNCHANGED <<activeID, picked, sent, restarts, overlap>>

ActivateOnce(e) ==
  /\ pc[e] = "activate"
  /\ activeID' = IF activeID = 0 THEN routed[e] ELSE activeID
  /\ Goto(e, "pick")
  /\ UNCHANGED <<lock, sessions, convs, recent, routed, picked, sent,
                 restarts, overlap>>

(* brain.SetActiveConversation, a plain write to a field all events share.  *)
Activate(e) ==
  /\ pc[e] = "activate"
  /\ activeID' = routed[e]
  /\ Goto(e, "pick")
  /\ UNCHANGED <<lock, sessions, convs, recent, routed, picked, sent,
                 restarts, overlap>>

(* ensureConversation: the active conversation, or the latest when it is    *)
(* gone, or a new untitled one when there is none at all.                   *)
Pick(e) ==
  /\ pc[e] = "pick"
  /\ \/ /\ activeID \in Live
        /\ picked' = [picked EXCEPT ![e] = activeID]
        /\ Goto(e, "persist")
        /\ UNCHANGED <<lock, convs, recent>>
     \/ /\ activeID \notin Live /\ recent # <<>>
        /\ picked' = [picked EXCEPT ![e] = recent[Len(recent)]]
        /\ Goto(e, "persist")
        /\ UNCHANGED <<lock, convs, recent>>
     \/ /\ activeID \notin Live /\ recent = <<>>
        /\ convs' = Append(convs, [key |-> KeyOf[e], live |-> TRUE,
                                   log |-> <<>>])
        /\ recent' = <<Len(convs) + 1>>
        /\ picked' = [picked EXCEPT ![e] = Len(convs) + 1]
        /\ Goto(e, "persist")
        /\ lock' = lock
  /\ UNCHANGED <<sessions, activeID, routed, sent, restarts, overlap>>

(* AppendMessage on the picked conversation, which fails once it is gone.   *)
Persist(e, role) ==
  LET c == picked[e]
  IN  /\ c \in Live
      /\ convs' = [convs EXCEPT ![c].log =
                     Append(@, [role |-> role, event |-> e])]
      /\ recent' = Touched(c)

PersistUser(e) ==
  /\ pc[e] = "persist"
  /\ Persist(e, "user")
  /\ Goto(e, "think")
  /\ UNCHANGED <<lock, sessions, activeID, routed, picked, sent, restarts,
                 overlap>>

PersistReply(e) ==
  /\ pc[e] = "think"
  /\ Persist(e, "assistant")
  /\ Goto(e, "fetch")
  /\ UNCHANGED <<lock, sessions, activeID, routed, picked, sent, restarts,
                 overlap>>

StepFailsAndFetches(e) ==
  /\ pc[e] \in {"persist", "think"}
  /\ Goto(e, "fetch")
  /\ UNCHANGED <<lock, sessions, activeID, convs, recent, routed, picked,
                 sent, restarts, overlap>>

(* Step returns an error: the provider's, or the repository's. *)
StepFails(e) ==
  /\ pc[e] \in {"persist", "think"}
  /\ Finish(e)
  /\ UNCHANGED <<sessions, activeID, convs, recent, routed, picked, sent,
                 restarts, overlap>>

(* The last message of the conversation the event was routed to is          *)
(* delivered as the reply, provided it is an assistant message.             *)
Fetch(e) ==
  /\ pc[e] = "fetch"
  /\ Finish(e)
  /\ LET c == routed[e]
         log == IF c \in Live THEN convs[c].log ELSE <<>>
     IN  sent' = [sent EXCEPT ![e] =
                    IF log # <<>> /\ log[Len(log)].role = "assistant"
                    THEN log[Len(log)].event ELSE None]
  /\ UNCHANGED <<sessions, activeID, convs, recent, routed, picked, restarts,
                 overlap>>

MishapAllowed == Cardinality(DOMAIN convs \ Live) + restarts < MaxMishaps

(* `agis session delete` in another process. *)
Delete(c) ==
  /\ MishapAllowed
  /\ c \in Live
  /\ convs' = [convs EXCEPT ![c].live = FALSE, ![c].log = <<>>]
  /\ recent' = RemoveFirst(recent, c)
  /\ UNCHANGED <<pc, lock, sessions, activeID, routed, picked, sent,
                 restarts, overlap>>

(* The daemon is killed and started again: the bindings, the locks and the  *)
(* brain are new, the database stays, events in flight are lost.            *)
Restart ==
  /\ MishapAllowed
  /\ restarts' = restarts + 1
  /\ pc' = [e \in Events |-> IF e \in InFlight THEN "over" ELSE pc[e]]
  /\ lock' = [k \in Keys |-> None]
  /\ sessions' = [k \in Keys |-> 0]
  /\ activeID' = 0
  /\ UNCHANGED <<convs, recent, routed, picked, sent, overlap>>

Handle(e) ==
  \/ TakeLock(e) \/ ResolveConversation(e) \/ Activate(e) \/ Pick(e)
  \/ PersistUser(e) \/ PersistReply(e) \/ StepFails(e) \/ Fetch(e)

RoutingNext ==
  \/ \E e \in Events : Deliver(e) \/ Handle(e)
  \/ \E c \in Live : Delete(c)
  \/ Restart

RoutingSpec == RoutingInit /\ [][RoutingNext]_routingVars

(* A handler that can go on does, and the step comes back: the provider     *)
(* answers or errs.  A mutex is handed to a waiter in the end (Go's         *)
(* starvation mode), hence strong fairness for the lock.                    *)
RoutingFairness ==
  \A e \in Events : /\ SF_routingVars(TakeLock(e))
                    /\ WF_routingVars(Handle(e))

-----------------------------------------------------------------------------
NothingDeleted == Live = DOMAIN convs

(* docs/gateway.md:35: conversations are partitioned by session key, so a   *)
(* conversation holds messages of events of its own key only.               *)
HistoriesIsolated ==
  \A c \in Live : \A i \in DOMAIN convs[c].log :
    KeyOf[convs[c].log[i].event] = convs[c].key

(* What the code does keep of it: histories stay apart, over restarts too,  *)
(* as long as the one brain is never asked to serve two keys at once and no *)
(* binding outlives its conversation (multiplexer.go:226, brain.go:721-748). *)
IsolatedOneKeyAtATime ==
  (~overlap /\ NothingDeleted) => HistoriesIsolated

(* multiplexer.go:211: turns on one session do not interleave, a reply      *)
(* stands right behind the message it answers, wherever a deletion sends    *)
(* the turn; again one key at a time.                                       *)
TurnsNotInterleaved ==
  ~overlap =>
    \A c \in Live : \A i \in DOMAIN convs[c].log :
      convs[c].log[i].role = "assistant" =>
        /\ i > 1
        /\ convs[c].log[i - 1] = [role |-> "user",
                                  event |-> convs[c].log[i].event]

(* What is delivered for an event is the reply the model gave to that very  *)
(* event, although the handler reads it back from the conversation's last   *)
(* message (multiplexer.go:242-246, cron/engine.go:345-351,                 *)
(* webhook/server.go:265-271).                                              *)
ReplyIsOwn == ~overlap => \A e \in Events : sent[e] \in {e, None}

(* In the log and on the wire a reply belongs to the message it follows.    *)
RepliesMatchMessages == TurnsNotInterleaved /\ ReplyIsOwn

(* cron.md:121 and gateway/spec.md:81: a session key stays bound to one     *)
(* conversation, so the agent retains the earlier context.  The bindings    *)
(* are in memory: a daemon gives a key at most one conversation each time   *)
(* it runs.                                                                 *)
OneConversationPerKey ==
  \A k \in Keys : Cardinality({c \in DOMAIN convs : convs[c].key = k /\ c \in Live})
                     <= restarts + 1

(* What a key's messages are kept in: a conversation of its own, and one.   *)
KeysKeepConversations == IsolatedOneKeyAtATime /\ OneConversationPerKey

(* Every delivered event is handled to its end, so a lock is always given   *)
(* back, on the error paths too.                                            *)
EventsSettle == \A e \in Events : (e \in InFlight) ~> (pc[e] = "over")
=============================================================================
