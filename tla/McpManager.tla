----------------------------- MODULE McpManager -----------------------------
(***************************************************************************)
(* The manager of internal/mcp/manager.go: it starts the MCP servers, keeps *)
(* a session for each, wakes a sleeping one on demand, puts an idle one to  *)
(* sleep and stops them all.  Each session has a mutex; CallTool holds it   *)
(* while it wakes the server, so everything else that needs it waits.       *)
(*                                                                         *)
(* A client is a number: created by the factory, until it is closed.  What  *)
(* happens on its connection is McpClient; here Initialize and ListTools    *)
(* succeed or fail.  RefreshTools is left out: the program never calls it.  *)
(***************************************************************************)
EXTENDS Integers, FiniteSets

CONSTANTS
  Servers,     (* the enabled servers of the configuration                   *)
  Standby,     (* those that sleep until they are called                     *)
  ToolCalls,   (* the calls of CallTool                                      *)
  ServerOf,    (* the server each goes to                                    *)
  Nobody,
  MaxClients   (* bound: clients ever created                                *)

ASSUME ManagerAssumption ==
  /\ Standby \subseteq Servers /\ ServerOf \in [ToolCalls -> Servers]
  /\ IsFiniteSet(ToolCalls) /\ Nobody \notin ToolCalls
  /\ MaxClients \in Nat

VARIABLES
  phase,     (* "off", "new", "probing", "ready", "stopping" or "stopped"    *)
  stopped,   (* the manager's flag                                           *)
  unswept,   (* the sessions Stop has still to take over                     *)
  probe,     (* Start's goroutine for a server: "no", "runs", "ok", "failed" *)
  probing,   (* the client it uses, 0 when none                              *)
  created, open,        (* clients: how many there were, which are not closed*)
  handed,    (* the clients Stop is closing                                  *)
  late,      (* history: those woken after Stop had swept their session      *)
  lock,      (* who holds a session's mutex over several steps               *)
  client, tools, state, (* the fields of a session                           *)
  recent,    (* lastActivity is less than idleTimeout ago                    *)
  inUse,
  idle,     (* idleTimer: "nil", "armed" or "fired"                         *)
  strays,    (* timers still armed that idleTimer no longer refers to        *)
  woken,     (* shutdownIdleSession goroutines that timers have started      *)
  cache,     (* servers whose tools are in the schema cache                  *)
  at,        (* where each call stands                                       *)
  using      (* the client it wakes or uses                                  *)

session == <<lock, client, tools, state, recent, inUse, idle, strays, woken>>
lifecycle == <<phase, stopped, unswept, probe, probing>>
clients == <<created, open, handed, late>>
managerVars == <<lifecycle, clients, session, cache, at, using>>

Clients == 1 .. MaxClients
States  == {"standby", "starting", "running"}

ManagerTypeOK ==
  /\ phase \in {"off", "new", "probing", "ready", "failed", "stopping", "stopped"}
  /\ stopped \in BOOLEAN /\ unswept \subseteq Servers
  /\ probe \in [Servers -> {"no", "runs", "ok", "failed"}]
  /\ probing \in [Servers -> Clients \union {0}]
  /\ created \in Clients \union {0} /\ open \subseteq Clients
  /\ handed \subseteq Clients /\ late \subseteq Clients
  /\ lock \in [Servers -> ToolCalls \union {Nobody}]
  /\ client \in [Servers -> Clients \union {0}]
  /\ tools \in [Servers -> BOOLEAN] /\ recent \in [Servers -> BOOLEAN]
  /\ state \in [Servers -> States]
  /\ inUse \in [Servers -> Nat]
  /\ idle \in [Servers -> {"nil", "armed", "fired"}]
  /\ strays \in [Servers -> Nat] /\ woken \in [Servers -> Nat]
  /\ cache \subseteq Servers
  /\ at \in [ToolCalls -> {"idle", "checked", "found", "waking", "calling",
                           "leaving", "done"}]
  /\ using \in [ToolCalls -> Clients \union {0}]

ManagerInit ==
  /\ phase \in {"off", "new"}
  /\ stopped = FALSE /\ unswept = {}
  /\ probe = [s \in Servers |-> "no"] /\ probing = [s \in Servers |-> 0]
  /\ created = 0 /\ open = {} /\ handed = {} /\ late = {}
  /\ lock = [s \in Servers |-> Nobody]
  /\ client = [s \in Servers |-> 0] /\ tools = [s \in Servers |-> FALSE]
  /\ state = [s \in Servers |-> "standby"]
  /\ recent = [s \in Servers |-> FALSE]
  /\ inUse = [s \in Servers |-> 0]
  /\ idle = [s \in Servers |-> "nil"]
  /\ strays = [s \in Servers |-> 0] /\ woken = [s \in Servers |-> 0]
  /\ cache \in IF phase = "off" THEN {{}} ELSE {{}, Standby}
  /\ at = [c \in ToolCalls |-> "idle"] /\ using = [c \in ToolCalls |-> 0]

(* The factory makes a client, which runs a process or a connection.        *)
NewClient == created + 1
Create == /\ created < MaxClients
          /\ created' = NewClient
          /\ open' = open \union {NewClient}

-----------------------------------------------------------------------------
(* Start, which main calls once and waits for, under the manager's mutex.   *)

(* A standby server whose tools are cached is left asleep, every other one  *)
(* is probed in a goroutine.                                                *)
StartProbes ==
  /\ phase = "new"
  /\ phase' = "probing"
  /\ probe' = [s \in Servers |-> IF s \in Standby \intersect cache THEN "no"
                                 ELSE "runs"]
  /\ tools' = [s \in Servers |-> s \in Standby \intersect cache]
  /\ UNCHANGED <<stopped, unswept, probing, clients, lock, client, state,
                 recent, inUse, idle, strays, woken, cache, at, using>>

ProbeConnects(s) ==
  /\ phase = "probing" /\ probe[s] = "runs" /\ probing[s] = 0
  /\ \/ /\ Create
        /\ probing' = [probing EXCEPT ![s] = NewClient]
        /\ UNCHANGED probe
     \/ /\ probe' = [probe EXCEPT ![s] = "failed"]
        /\ UNCHANGED <<created, open, probing>>
  /\ UNCHANGED <<phase, stopped, unswept, handed, late, session, cache, at, using>>

(* Initialize or ListTools fails, on its own or because another probe's     *)
(* failure cancelled the group; or both succeed, the tools are cached, and  *)
(* a standby server's client is closed again.                               *)
ProbeEnds(s) ==
  /\ probe[s] = "runs" /\ probing[s] # 0
  /\ \/ /\ probe' = [probe EXCEPT ![s] = "failed"]
        /\ open' = open \ {probing[s]}
        /\ UNCHANGED <<probing, cache>>
     \/ /\ probe' = [probe EXCEPT ![s] = "ok"]
        /\ open' = IF s \in Standby THEN open \ {probing[s]} ELSE open
        /\ \/ cache' = cache \union {s}
           \/ UNCHANGED cache
        /\ UNCHANGED probing
  /\ UNCHANGED <<phase, stopped, unswept, created, handed, late, session, at, using>>

Eager(s) == probe[s] = "ok" /\ s \notin Standby

(* A mutant: the clients of the servers that did start are forgotten.       *)
StartFailsLeaking ==
  /\ phase = "probing"
  /\ "runs" \notin {probe[s] : s \in Servers}
  /\ "failed" \in {probe[s] : s \in Servers}
  /\ phase' = "failed"
  /\ probing' = [s \in Servers |-> 0]
  /\ UNCHANGED <<stopped, unswept, probe, clients, session, cache, at, using>>

(* One failure fails Start, which closes the clients of the others.  The    *)
(* program goes on without ever calling Stop.                               *)
StartFails ==
  /\ phase = "probing"
  /\ "runs" \notin {probe[s] : s \in Servers}
  /\ "failed" \in {probe[s] : s \in Servers}
  /\ phase' = "failed"
  /\ open' = open \ {probing[s] : s \in {r \in Servers : Eager(r)}}
  /\ probing' = [s \in Servers |-> 0]
  /\ UNCHANGED <<stopped, unswept, probe, created, handed, late, session, cache, at,
                 using>>

(* Every server offers some tool.                                           *)
StartSucceeds ==
  /\ phase = "probing"
  /\ {probe[s] : s \in Servers} \subseteq {"no", "ok"}
  /\ phase' = "ready"
  /\ client' = [s \in Servers |-> IF Eager(s) THEN probing[s] ELSE 0]
  /\ state' = [s \in Servers |-> IF Eager(s) THEN "running" ELSE "standby"]
  /\ recent' = [s \in Servers |-> Eager(s)]
  /\ tools' = [s \in Servers |-> TRUE]
  /\ probing' = [s \in Servers |-> 0]
  /\ UNCHANGED <<stopped, unswept, probe, clients, lock, inUse, idle,
                 strays, woken, cache, at, using>>

-----------------------------------------------------------------------------
(* CallTool.                                                                *)

Goto(c, place) == at' = [at EXCEPT ![c] = place]
Free(s) == lock[s] = Nobody

(* The check of the flag comes first; tools whose listing is empty have no  *)
(* runner, so nobody calls them.                                            *)
CheckStopped(c) ==
  /\ at[c] = "idle"
  /\ \/ phase = "ready" \/ (phase = "failed" /\ tools[ServerOf[c]])
     \/ stopped
  /\ Goto(c, IF stopped THEN "done" ELSE "checked")
  /\ UNCHANGED <<lifecycle, clients, session, cache, using>>

(* The read lock of the manager, which Stop holds until it is over.         *)
FindSession(c) ==
  /\ at[c] = "checked"
  /\ phase # "stopping"
  /\ Goto(c, "found")
  /\ UNCHANGED <<lifecycle, clients, session, cache, using>>

(* A mutant: the call is not counted.                                       *)
EnterUncounted(c, s) ==
  /\ idle' = [idle EXCEPT ![s] = IF s \in Standby THEN "armed" ELSE "nil"]
  /\ recent' = [recent EXCEPT ![s] = TRUE]
  /\ UNCHANGED <<inUse, strays, woken>>
  /\ Goto(c, "calling")

(* The end of the locked part: the old timer is stopped if it has not       *)
(* fired, a new one is armed, the call is counted.                          *)
Enter(c, s) ==
  /\ idle' = [idle EXCEPT ![s] = IF s \in Standby THEN "armed" ELSE "nil"]
  /\ recent' = [recent EXCEPT ![s] = TRUE]
  /\ inUse' = [inUse EXCEPT ![s] = @ + 1]
  /\ UNCHANGED <<strays, woken>>
  /\ Goto(c, "calling")

(* The session's mutex is taken: the session runs, or a client is made for  *)
(* it, or the factory fails.                                                *)
TakeSession(c) ==
  LET s == ServerOf[c] IN
  /\ at[c] = "found" /\ Free(s)
  /\ \/ /\ client[s] # 0
        /\ using' = [using EXCEPT ![c] = client[s]]
        /\ Enter(c, s)
        /\ UNCHANGED <<created, open, late, state, lock>>
     \/ /\ client[s] = 0
        /\ Create
        /\ late' = IF stopped /\ phase # "ready" /\ s \notin unswept
                   THEN late \union {NewClient} ELSE late
        /\ using' = [using EXCEPT ![c] = NewClient]
        /\ state' = [state EXCEPT ![s] = "starting"]
        /\ lock' = [lock EXCEPT ![s] = c]
        /\ Goto(c, "waking")
        /\ UNCHANGED <<idle, recent, inUse, strays, woken>>
     \/ /\ client[s] = 0
        /\ state' = [state EXCEPT ![s] = "standby"]
        /\ Goto(c, "done")
        /\ UNCHANGED <<created, open, late, using, lock, idle, recent, inUse,
                       strays, woken>>
  /\ UNCHANGED <<lifecycle, handed, client, tools, cache>>

(* A mutant: the client whose handshake failed stays open.                  *)
WakeFailsLeaking(c) ==
  LET s == ServerOf[c] IN
  /\ at[c] = "waking"
  /\ state' = [state EXCEPT ![s] = "standby"]
  /\ lock' = [lock EXCEPT ![s] = Nobody]
  /\ Goto(c, "done")
  /\ UNCHANGED <<lifecycle, clients, client, tools, recent, inUse, idle,
                 strays, woken, cache, using>>

(* A mutant: the mutex is not given back.                                   *)
WakeFailsKeepingLock(c) ==
  LET s == ServerOf[c] IN
  /\ at[c] = "waking"
  /\ open' = open \ {using[c]}
  /\ state' = [state EXCEPT ![s] = "standby"]
  /\ Goto(c, "done")
  /\ UNCHANGED <<lifecycle, created, handed, late, lock, client, tools, recent,
                 inUse, idle, strays, woken, cache, using>>

(* Initialize fails. *)
WakeFails(c) ==
  LET s == ServerOf[c] IN
  /\ at[c] = "waking"
  /\ open' = open \ {using[c]}
  /\ state' = [state EXCEPT ![s] = "standby"]
  /\ lock' = [lock EXCEPT ![s] = Nobody]
  /\ Goto(c, "done")
  /\ UNCHANGED <<lifecycle, created, handed, late, client, tools, recent, inUse,
                 idle, strays, woken, cache, using>>

(* Initialize succeeds; tools not known yet are listed, which may fail.     *)
WakeSucceeds(c) ==
  LET s == ServerOf[c] IN
  /\ at[c] = "waking"
  /\ client' = [client EXCEPT ![s] = using[c]]
  /\ state' = [state EXCEPT ![s] = "running"]
  /\ lock' = [lock EXCEPT ![s] = Nobody]
  /\ Enter(c, s)
  /\ \/ UNCHANGED <<tools, cache>>
     \/ /\ ~tools[s]
        /\ tools' = [tools EXCEPT ![s] = TRUE]
        /\ cache' \in {cache, cache \union {s}}
  /\ UNCHANGED <<lifecycle, clients, using>>

(* client.CallTool returns, with an answer or an error. *)
CallReturns(c) ==
  /\ at[c] = "calling"
  /\ inUse' = [inUse EXCEPT ![ServerOf[c]] = @ - 1]
  /\ Goto(c, "leaving")
  /\ UNCHANGED <<lifecycle, clients, lock, client, tools, state, recent, idle,
                 strays, woken, cache, using>>

(* A mutant: the call is counted out twice.                                 *)
TouchUncounting(c) ==
  LET s == ServerOf[c] IN
  /\ at[c] = "leaving" /\ Free(s)
  /\ recent' = [recent EXCEPT ![s] = TRUE]
  /\ inUse' = [inUse EXCEPT ![s] = @ - 1]
  /\ using' = [using EXCEPT ![c] = 0]
  /\ Goto(c, "done")
  /\ UNCHANGED <<lifecycle, clients, lock, client, tools, state, idle, strays,
                 woken, cache>>

(* touchActivity, once the call is over. *)
Touch(c) ==
  LET s == ServerOf[c] IN
  /\ at[c] = "leaving" /\ Free(s)
  /\ recent' = [recent EXCEPT ![s] = TRUE]
  /\ using' = [using EXCEPT ![c] = 0]
  /\ Goto(c, "done")
  /\ UNCHANGED <<lifecycle, clients, lock, client, tools, state, inUse,
                 idle, strays, woken, cache>>

-----------------------------------------------------------------------------
(* The idle timer.                                                         *)

(* Time passes; idleTimeout matters for standby servers only.               *)
Passes(s) ==
  /\ s \in Standby /\ recent[s]
  /\ recent' = [recent EXCEPT ![s] = FALSE]
  /\ UNCHANGED <<lifecycle, clients, lock, client, tools, state, inUse,
                 idle, strays, woken, cache, at, using>>

IdleFires(s) ==
  /\ \/ /\ idle[s] = "armed"
        /\ idle' = [idle EXCEPT ![s] = "fired"]
        /\ UNCHANGED strays
     \/ /\ strays[s] > 0
        /\ strays' = [strays EXCEPT ![s] = @ - 1]
        /\ UNCHANGED idle
  /\ woken' = [woken EXCEPT ![s] = @ + 1]
  /\ UNCHANGED <<lifecycle, clients, lock, client, tools, state, recent,
                 inUse, cache, at, using>>

(* What becomes of a timer idleTimer forgets without stopping it.           *)
Forgotten(s) == IF idle[s] = "armed" THEN strays[s] + 1 ELSE strays[s]

StillUsed(s) == inUse[s] > 0 \/ recent[s]

(* A mutant: the session is kept, but nothing will look at it again.        *)
IdleRearmForgetting(s) ==
  /\ StillUsed(s)
  /\ idle' = [idle EXCEPT ![s] = "nil"]
  /\ UNCHANGED <<open, client, state, strays>>

IdleRearm(s) ==
  /\ StillUsed(s)
  /\ idle' = [idle EXCEPT ![s] = "armed"]
  /\ strays' = [strays EXCEPT ![s] = Forgotten(s)]
  /\ UNCHANGED <<open, client, state>>

IdleClose(s) ==
  /\ ~StillUsed(s)
  /\ open' = open \ {client[s]}
  /\ client' = [client EXCEPT ![s] = 0]
  /\ state' = [state EXCEPT ![s] = "standby"]
  /\ idle' = [idle EXCEPT ![s] = "nil"]
  /\ strays' = [strays EXCEPT ![s] = Forgotten(s)]

(* shutdownIdleSession. *)
ShutdownIdle(s) ==
  /\ woken[s] > 0 /\ Free(s)
  /\ woken' = [woken EXCEPT ![s] = @ - 1]
  /\ \/ /\ client[s] = 0 \/ stopped
        /\ UNCHANGED <<open, client, state, idle, strays>>
     \/ /\ client[s] # 0 /\ ~stopped
        /\ IdleRearm(s) \/ IdleClose(s)
  /\ UNCHANGED <<lifecycle, created, handed, late, lock, tools, recent, inUse,
                 cache, at, using>>

-----------------------------------------------------------------------------
(* Stop.                                                                    *)
Stop ==
  /\ phase = "ready"
  /\ ~stopped
  /\ stopped' = TRUE
  /\ UNCHANGED <<phase, unswept, probe, probing, clients, session, cache, at,
                 using>>

TakeManagerLock ==
  /\ phase = "ready" /\ stopped
  /\ phase' = "stopping"
  /\ unswept' = Servers
  /\ UNCHANGED <<stopped, probe, probing, clients, session, cache, at, using>>

(* A mutant: a client that is in use is not closed.                         *)
SweepUnless(s) ==
  /\ s \in unswept /\ Free(s)
  /\ unswept' = unswept \ {s}
  /\ handed' = IF client[s] # 0 /\ inUse[s] = 0
               THEN handed \union {client[s]} ELSE handed
  /\ client' = [client EXCEPT ![s] = 0]
  /\ tools' = [tools EXCEPT ![s] = FALSE]
  /\ state' = [state EXCEPT ![s] = "standby"]
  /\ idle' = [idle EXCEPT ![s] = "nil"]
  /\ UNCHANGED <<phase, stopped, probe, probing, created, open, late, lock,
                 recent,
                 inUse, strays, woken, cache, at, using>>

(* A session's timer is stopped and its client handed to a goroutine that   *)
(* closes it.                                                               *)
Sweep(s) ==
  /\ s \in unswept /\ Free(s)
  /\ unswept' = unswept \ {s}
  /\ handed' = IF client[s] # 0 THEN handed \union {client[s]} ELSE handed
  /\ client' = [client EXCEPT ![s] = 0]
  /\ tools' = [tools EXCEPT ![s] = FALSE]
  /\ state' = [state EXCEPT ![s] = "standby"]
  /\ idle' = [idle EXCEPT ![s] = "nil"]
  /\ UNCHANGED <<phase, stopped, probe, probing, created, open, late, lock,
                 recent,
                 inUse, strays, woken, cache, at, using>>

CloseHanded(k) ==
  /\ k \in handed
  /\ handed' = handed \ {k}
  /\ open' = open \ {k}
  /\ UNCHANGED <<lifecycle, created, late, session, cache, at, using>>

ManagerStopped ==
  /\ phase = "stopping"
  /\ unswept = {} /\ handed = {}
  /\ phase' = "stopped"
  /\ UNCHANGED <<stopped, unswept, probe, probing, clients, session, cache, at,
                 using>>

Start == StartProbes \/ StartFails \/ StartSucceeds
           \/ \E s \in Servers : ProbeConnects(s) \/ ProbeEnds(s)
CallGoesOn(c) == FindSession(c) \/ TakeSession(c) \/ WakeFails(c)
                   \/ WakeSucceeds(c) \/ CallReturns(c) \/ Touch(c)
StopGoesOn == TakeManagerLock \/ ManagerStopped \/ (\E s \in Servers : Sweep(s))
                \/ (\E k \in Clients : CloseHanded(k))

ManagerNext ==
  \/ Start
  \/ \E c \in ToolCalls : CheckStopped(c) \/ CallGoesOn(c)
  \/ \E s \in Servers : Passes(s) \/ IdleFires(s) \/ ShutdownIdle(s)
  \/ Stop \/ StopGoesOn

ManagerSpec == ManagerInit /\ [][ManagerNext]_managerVars

(* The program's own steps go on, and timers fire.  Nothing makes a server  *)
(* answer: a handshake, or a call over an open client, lasts until its      *)
(* server or its context ends it, and a turn's context has no deadline      *)
(* (tui/app.go:540).  Once Stop closed the client the call does return.     *)
(* Calls are finitely many and a shutdown is finite, so that one goes on    *)
(* when any can is enough.                                                  *)
GoesOnAlone(c) == FindSession(c) \/ TakeSession(c) \/ Touch(c)
                 \/ (using[c] \notin open /\ CallReturns(c))
ManagerFairness ==
  /\ WF_managerVars(\E c \in ToolCalls : GoesOnAlone(c))
  /\ \A s \in Standby :
       /\ WF_managerVars(Passes(s))
       /\ WF_managerVars(IdleFires(s) \/ ShutdownIdle(s))
  /\ WF_managerVars(StopGoesOn)

-----------------------------------------------------------------------------
(* Every client that is not closed is one somebody will close: a session's, *)
(* one being woken or probed, or one handed to Stop's goroutines; no error  *)
(* path drops one (manager.go:212-219, 263-271, 313-318).                   *)
NoClientLeaks ==
  open \subseteq
    {client[s] : s \in Servers} \union {probing[s] : s \in Servers}
      \union {using[c] : c \in {d \in ToolCalls : at[d] = "waking"}}
      \union handed

(* Putting a server to sleep never cuts a call: the client of a call in     *)
(* progress is closed by Stop only (manager.go:343 and 364).                *)
CallsNotCut ==
  \A c \in ToolCalls : (at[c] = "calling" /\ ~stopped) => using[c] \in open

(* Once Stop has returned a client is still open only if a call got past    *)
(* the check of the flag before Stop set it and woke the server after Stop  *)
(* had let go of the session (manager.go:289 and 304).                      *)
StopLeavesOnlyLateWakes == phase = "stopped" => open \subseteq late

(* No child process or connection is forgotten, and Stop leaves only those  *)
(* woken behind its back.                                                   *)
ClientsAccountedFor == NoClientLeaks /\ StopLeavesOnlyLateWakes

(* A running standby server is watched: some timer will look at it, however *)
(* timers and calls overlap, so it cannot be forgotten awake.               *)
IdleIsWatched ==
  \A s \in Standby :
    (client[s] # 0 /\ ~stopped) =>
      idle[s] = "armed" \/ strays[s] > 0 \/ woken[s] > 0

(* The idle timer neither puts a busy session to sleep nor forgets one.    *)
SessionsWatched == CallsNotCut /\ IdleIsWatched

(* Clients and timers: none is lost, and none acts on a session in use.     *)
SessionsAccountedFor == ClientsAccountedFor /\ SessionsWatched

(* A standby server goes to sleep, unless one of its calls never returns    *)
(* (each is made once, so always some is one that stays).                   *)
IdleGoesToSleep ==
  \A s \in Standby :
    (client[s] # 0) ~>
      \/ client[s] = 0 \/ stopped
      \/ [](\E c \in ToolCalls : at[c] = "calling" /\ ServerOf[c] = s)

(* Stop returns although calls may be waking servers when it starts, unless *)
(* one of these handshakes never comes to an end: the call holds the mutex  *)
(* of the session that Stop wants (manager.go:304-313 and 393).             *)
StopEnds ==
  stopped ~> (phase = "stopped" \/ [](\E c \in ToolCalls : at[c] = "waking"))

(* Servers go to sleep and Stop returns, whatever calls and timers do and   *)
(* however long servers are silent, as long as none is for ever.            *)
ServersComeToRest == IdleGoesToSleep /\ StopEnds
=============================================================================
