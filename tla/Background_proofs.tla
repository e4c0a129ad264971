------------------------- MODULE Background_proofs --------------------------
(***************************************************************************)
(* What goes on beside the conversations: the MCP manager keeps account of  *)
(* its clients and timers (McpManager), an MCP client answers its callers   *)
(* (McpClient), and the cron engine runs jobs in time (CronEngine), each    *)
(* for any number of servers, calls, callers and jobs.                      *)
(***************************************************************************)
EXTENDS MCBackground, SequenceLemmas, WellFoundedInduction

-----------------------------------------------------------------------------
(* The manager (internal/mcp/manager.go).  *)

(* What is known of the clients: each was created, and none belongs to two. *)
Waking == {c \in ToolCalls : at[c] = "waking"}
Calling(s) == {c \in ToolCalls : at[c] = "calling" /\ ServerOf[c] = s}

CreatedBefore ==
  /\ open \subseteq 1 .. created /\ handed \subseteq 1 .. created
  /\ \A s \in Servers : client[s] <= created /\ probing[s] <= created
  /\ \A c \in ToolCalls : using[c] <= created

NotShared ==
  /\ \A s, t \in Servers :
       /\ client[s] = client[t] /\ client[s] # 0 => s = t
       /\ probing[s] = probing[t] /\ probing[s] # 0 => s = t
  /\ \A c \in Waking :
       /\ lock[ServerOf[c]] = c /\ client[ServerOf[c]] = 0 /\ using[c] # 0
       /\ \A s \in Servers : client[s] # using[c]
       /\ \A d \in Waking : using[c] = using[d] => c = d

(* Nothing but probes happens until Start is over, and then they are over.  *)
Probed(s) == probe[s] = "runs" \/ Eager(s)
StartsAlone ==
  /\ phase \in {"off", "new", "probing"} =>
       /\ \A s \in Servers : client[s] = 0
       /\ \A c \in ToolCalls : at[c] = "idle"
       /\ \A k \in open : \E s \in Servers : Probed(s) /\ probing[s] = k
       /\ \A s \in Servers : Probed(s) /\ probing[s] # 0 => probing[s] \in open
       /\ \A s \in Servers : Eager(s) => probing[s] # 0
  /\ phase # "probing" => \A s \in Servers : probing[s] = 0

(* The flag goes with the phase, and only a manager that is being stopped   *)
(* hands clients over.                                                      *)
StopsInOrder ==
  /\ stopped => phase \in {"ready", "stopping", "stopped"}
  /\ phase \in {"stopping", "stopped"} => stopped
  /\ unswept # {} => phase = "stopping"
  /\ handed # {} => phase = "stopping"

InUseCounts == \A s \in Servers : inUse[s] = Cardinality(Calling(s))

(* As long as the manager is not stopped, sessions and calls that wake one  *)
(* have an open client, and a call uses the client of its session.          *)
ServedByOpen ==
  ~stopped =>
    /\ \A s \in Servers : client[s] # 0 => client[s] \in open
    /\ \A c \in Waking : using[c] \in open
    /\ \A c \in ToolCalls : at[c] = "calling" =>
         using[c] # 0 /\ using[c] = client[ServerOf[c]]

(* What is open while Stop sweeps the sessions.                             *)
SweepFinds ==
  phase \in {"stopping", "stopped"} =>
    \A k \in open \ (handed \union late) :
      \/ \E s \in unswept : client[s] = k
      \/ \E c \in Waking : ServerOf[c] \in unswept /\ using[c] = k

ManagerInv ==
  /\ ManagerTypeOK /\ CreatedBefore /\ NotShared /\ StartsAlone /\ StopsInOrder
  /\ InUseCounts /\ ServedByOpen /\ SweepFinds /\ NoClientLeaks /\ IdleIsWatched

(* The ways through the actions that have several.  *)
Connects(s) ==
  /\ phase = "probing" /\ probe[s] = "runs" /\ probing[s] = 0
  /\ Create
  /\ probing' = [probing EXCEPT ![s] = NewClient]
  /\ UNCHANGED <<phase, stopped, unswept, probe, handed, late, session, cache,
                 at, using>>
ConnectFails(s) ==
  /\ phase = "probing" /\ probe[s] = "runs" /\ probing[s] = 0
  /\ probe' = [probe EXCEPT ![s] = "failed"]
  /\ UNCHANGED <<phase, stopped, unswept, probing, clients, session, cache, at,
                 using>>

ProbeEndsAs(s, result) ==
  /\ probe[s] = "runs" /\ probing[s] # 0
  /\ probe' = [probe EXCEPT ![s] = result]
  /\ open' = IF result = "failed" \/ s \in Standby THEN open \ {probing[s]}
             ELSE open
  /\ cache' \subseteq cache \union {s}
  /\ UNCHANGED <<phase, stopped, unswept, probing, created, handed, late,
                 session, at, using>>

Joins(c) ==
  LET s == ServerOf[c] IN
  /\ at[c] = "found" /\ Free(s) /\ client[s] # 0
  /\ using' = [using EXCEPT ![c] = client[s]]
  /\ Enter(c, s)
  /\ UNCHANGED <<lifecycle, clients, lock, client, tools, state, cache>>
Wakes(c) ==
  LET s == ServerOf[c] IN
  /\ at[c] = "found" /\ Free(s) /\ client[s] = 0
  /\ Create
  /\ late' = IF stopped /\ phase # "ready" /\ s \notin unswept
             THEN late \union {NewClient} ELSE late
  /\ using' = [using EXCEPT ![c] = NewClient]
  /\ state' = [state EXCEPT ![s] = "starting"]
  /\ lock' = [lock EXCEPT ![s] = c]
  /\ at' = [at EXCEPT ![c] = "waking"]
  /\ UNCHANGED <<lifecycle, handed, client, tools, recent, inUse, idle, strays,
                 woken, cache>>
WakesNobody(c) ==
  LET s == ServerOf[c] IN
  /\ at[c] = "found" /\ Free(s) /\ client[s] = 0
  /\ state' = [state EXCEPT ![s] = "standby"]
  /\ at' = [at EXCEPT ![c] = "done"]
  /\ UNCHANGED <<lifecycle, clients, lock, client, tools, recent, inUse, idle,
                 strays, woken, cache, using>>

LooksIn(s) ==
  /\ woken[s] > 0 /\ Free(s)
  /\ woken' = [woken EXCEPT ![s] = @ - 1]
  /\ UNCHANGED <<lifecycle, created, handed, late, lock, tools, recent, inUse,
                 cache, at, using>>
LetsBe(s) ==
  /\ LooksIn(s) /\ (client[s] = 0 \/ stopped)
  /\ UNCHANGED <<open, client, state, idle, strays>>
Rearms(s) ==
  /\ LooksIn(s) /\ client[s] # 0 /\ ~stopped /\ StillUsed(s)
  /\ idle' = [idle EXCEPT ![s] = "armed"]
  /\ strays' = [strays EXCEPT ![s] = Forgotten(s)]
  /\ UNCHANGED <<open, client, state>>
PutsToSleep(s) ==
  /\ LooksIn(s) /\ client[s] # 0 /\ ~stopped /\ ~StillUsed(s)
  /\ open' = open \ {client[s]}
  /\ client' = [client EXCEPT ![s] = 0]
  /\ state' = [state EXCEPT ![s] = "standby"]
  /\ idle' = [idle EXCEPT ![s] = "nil"]
  /\ strays' = [strays EXCEPT ![s] = Forgotten(s)]

ServerSteps(s) ==
  \/ Connects(s) \/ ConnectFails(s)
  \/ ProbeEndsAs(s, "ok") \/ ProbeEndsAs(s, "failed")
  \/ Passes(s) \/ IdleFires(s) \/ LetsBe(s) \/ Rearms(s) \/ PutsToSleep(s)
  \/ Sweep(s)
CallSteps(c) ==
  \/ CheckStopped(c) \/ FindSession(c) \/ Joins(c) \/ Wakes(c)
  \/ WakesNobody(c) \/ WakeFails(c) \/ WakeSucceeds(c) \/ CallReturns(c)
  \/ Touch(c)
OwnSteps ==
  \/ StartProbes \/ StartFails \/ StartSucceeds
  \/ Stop \/ TakeManagerLock \/ ManagerStopped

(* A step is one of a server's, of a call's, or of the manager itself.  *)
LEMMA ManagerSteps ==
  ASSUME ManagerNext
  PROVE  \/ \E s \in Servers : ServerSteps(s)
         \/ \E c \in ToolCalls : CallSteps(c)
         \/ OwnSteps
         \/ \E k \in Clients : CloseHanded(k)
<1>1. ASSUME NEW s \in Servers, ProbeConnects(s)
      PROVE  Connects(s) \/ ConnectFails(s)
  BY <1>1 DEF ProbeConnects, Connects, ConnectFails, clients
<1>2. ASSUME NEW s \in Servers, ProbeEnds(s)
      PROVE  ProbeEndsAs(s, "ok") \/ ProbeEndsAs(s, "failed")
  BY <1>2 DEF ProbeEnds, ProbeEndsAs
<1>3. ASSUME NEW s \in Servers, ShutdownIdle(s)
      PROVE  LetsBe(s) \/ Rearms(s) \/ PutsToSleep(s)
  BY <1>3 DEF ShutdownIdle, IdleRearm, IdleClose, LetsBe, Rearms, PutsToSleep,
              LooksIn
<1>4. ASSUME NEW c \in ToolCalls, TakeSession(c)
      PROVE  Joins(c) \/ Wakes(c) \/ WakesNobody(c)
  BY <1>4 DEF TakeSession, Joins, Wakes, WakesNobody, Goto, Enter, clients
<1> QED
  BY <1>1, <1>2, <1>3, <1>4
  DEF ManagerNext, Start, CallGoesOn, StopGoesOn, ServerSteps, CallSteps,
      OwnSteps

(* Who will close a client. *)
Owned(k) ==
  \/ k \in handed
  \/ \E s \in Servers : client[s] = k \/ probing[s] = k
  \/ \E c \in Waking : using[c] = k
AllOwned == \A k \in open : Owned(k)

LEMMA LeaksMean == NoClientLeaks <=> AllOwned
  BY DEF NoClientLeaks, AllOwned, Owned, Waking

LEMMA LeaksMeanThen == NoClientLeaks' <=> AllOwned'
  BY LeaksMean, PTL

LEMMA CallsFinite ==
  ASSUME NEW s \in Servers
  PROVE  /\ IsFiniteSet(Calling(s)) /\ Cardinality(Calling(s)) \in Nat
         /\ Cardinality(Calling(s)) = 0 <=> Calling(s) = {}
  BY ManagerAssumption, FS_Subset, FS_CardinalityType, FS_EmptySet DEF Calling

LEMMA CallsAreCounted ==
  ASSUME ManagerInv, ManagerNext
  PROVE  InUseCounts' /\ inUse' \in [Servers -> Nat]
<1> USE ManagerAssumption DEF ManagerInv
<1>1. ASSUME NEW c \in ToolCalls, Joins(c) \/ WakeSucceeds(c)
      PROVE  InUseCounts' /\ inUse' \in [Servers -> Nat]
  <2>1. /\ inUse' = [inUse EXCEPT ![ServerOf[c]] = @ + 1]
        /\ at' = [at EXCEPT ![c] = "calling"] /\ at[c] # "calling"
    BY <1>1 DEF Joins, WakeSucceeds, Enter, Goto
  <2>2. ASSUME NEW s \in Servers
        PROVE  Calling(s)' = IF s = ServerOf[c] THEN Calling(s) \union {c}
                             ELSE Calling(s)
    BY <2>1 DEF Calling, ManagerTypeOK
  <2>3. c \notin Calling(ServerOf[c])
    BY <2>1 DEF Calling
  <2>4. ASSUME NEW s \in Servers
        PROVE  inUse'[s] = Cardinality(Calling(s)') /\ inUse'[s] \in Nat
    <3>1. CASE s = ServerOf[c]
      <4>1. Cardinality(Calling(s) \union {c}) = Cardinality(Calling(s)) + 1
        BY <2>3, <3>1, CallsFinite, FS_AddElement
      <4>2. Calling(s)' = Calling(s) \union {c}
        BY <2>2, <3>1
      <4>3. /\ inUse'[s] = inUse[s] + 1 /\ inUse[s] \in Nat
            /\ inUse[s] = Cardinality(Calling(s))
        BY <2>1, <3>1 DEF InUseCounts, ManagerTypeOK
      <4> QED
        BY <4>1, <4>2, <4>3
    <3>2. CASE s # ServerOf[c]
      BY <2>1, <2>2, <3>2 DEF InUseCounts, ManagerTypeOK
    <3> QED
      BY <3>1, <3>2
  <2> QED
    BY <2>1, <2>4 DEF InUseCounts, ManagerTypeOK
<1>2. ASSUME NEW c \in ToolCalls, CallReturns(c)
      PROVE  InUseCounts' /\ inUse' \in [Servers -> Nat]
  <2>1. /\ inUse' = [inUse EXCEPT ![ServerOf[c]] = @ - 1]
        /\ at' = [at EXCEPT ![c] = "leaving"] /\ at[c] = "calling"
    BY <1>2 DEF CallReturns, Goto
  <2>2. ASSUME NEW s \in Servers
        PROVE  Calling(s)' = IF s = ServerOf[c] THEN Calling(s) \ {c}
                             ELSE Calling(s)
    BY <2>1 DEF Calling, ManagerTypeOK
  <2>3. c \in Calling(ServerOf[c])
    BY <2>1 DEF Calling
  <2>4. ASSUME NEW s \in Servers
        PROVE  inUse'[s] = Cardinality(Calling(s)') /\ inUse'[s] \in Nat
    <3>1. CASE s = ServerOf[c]
      <4>1. /\ Cardinality(Calling(s) \ {c}) = Cardinality(Calling(s)) - 1
            /\ Cardinality(Calling(s) \ {c}) \in Nat
        BY <2>3, <3>1, CallsFinite, FS_RemoveElement, FS_CardinalityType
      <4>2. Calling(s)' = Calling(s) \ {c}
        BY <2>2, <3>1
      <4>3. /\ inUse'[s] = inUse[s] - 1 /\ inUse[s] \in Nat
            /\ inUse[s] = Cardinality(Calling(s))
        BY <2>1, <3>1 DEF InUseCounts, ManagerTypeOK
      <4> QED
        BY <4>1, <4>2, <4>3
    <3>2. CASE s # ServerOf[c]
      BY <2>1, <2>2, <3>2 DEF InUseCounts, ManagerTypeOK
    <3> QED
      BY <3>1, <3>2
  <2> QED
    BY <2>1, <2>4 DEF InUseCounts, ManagerTypeOK
<1>3. ASSUME NEW c \in ToolCalls, NEW place \in {"checked", "found", "waking", "done"},
             at[c] # "calling", at' = [at EXCEPT ![c] = place], inUse' = inUse
      PROVE  InUseCounts' /\ inUse' \in [Servers -> Nat]
  <2>1. ASSUME NEW s \in Servers PROVE Calling(s)' = Calling(s)
    BY <1>3 DEF Calling, ManagerTypeOK
  <2> QED
    BY <1>3, <2>1 DEF InUseCounts, ManagerTypeOK
<1>4. ASSUME UNCHANGED <<inUse, at>>
      PROVE  InUseCounts' /\ inUse' \in [Servers -> Nat]
  BY <1>4 DEF InUseCounts, Calling, ManagerTypeOK
<1>5. ASSUME NEW c \in ToolCalls, CallSteps(c)
      PROVE  InUseCounts' /\ inUse' \in [Servers -> Nat]
  BY <1>1, <1>2, <1>3, <1>5
  DEF CallSteps, CheckStopped, FindSession, Wakes, WakesNobody, WakeFails,
      Touch, Goto, session
<1> QED
  BY ManagerSteps, <1>4, <1>5
  DEF ServerSteps, OwnSteps, Connects, ConnectFails, ProbeEndsAs, Passes,
      IdleFires, LetsBe, Rearms, PutsToSleep, LooksIn, Sweep, StartProbes,
      StartFails, StartSucceeds, Stop, TakeManagerLock, ManagerStopped,
      CloseHanded, session

(* The types. That the count of calls is a number was shown above.          *)
LEMMA ManagerTypesStay ==
  ASSUME ManagerInv, ManagerNext, inUse' \in [Servers -> Nat]
  PROVE  ManagerTypeOK'
<1> USE ManagerAssumption DEF ManagerInv, ManagerTypeOK, Clients, States, session,
   lifecycle, clients
<1>1. ASSUME NEW s \in Servers, Connects(s) PROVE ManagerTypeOK'
  BY <1>1 DEF Connects, Create, NewClient
<1>2. ASSUME NEW s \in Servers, ConnectFails(s) PROVE ManagerTypeOK'
  BY <1>2 DEF ConnectFails
<1>3. ASSUME NEW s \in Servers, ProbeEndsAs(s, "ok") PROVE ManagerTypeOK'
  BY <1>3 DEF ProbeEndsAs
<1>4. ASSUME NEW s \in Servers, ProbeEndsAs(s, "failed") PROVE ManagerTypeOK'
  BY <1>4 DEF ProbeEndsAs
<1>5. ASSUME NEW s \in Servers, Passes(s) PROVE ManagerTypeOK'
  BY <1>5 DEF Passes
<1>6. ASSUME NEW s \in Servers, IdleFires(s) PROVE ManagerTypeOK'
  BY <1>6 DEF IdleFires
<1>7. ASSUME NEW s \in Servers, LetsBe(s) PROVE ManagerTypeOK'
  BY <1>7 DEF LetsBe, LooksIn, Free
<1>8. ASSUME NEW s \in Servers, Rearms(s) PROVE ManagerTypeOK'
  BY <1>8 DEF Rearms, LooksIn, Free, Forgotten, StillUsed
<1>9. ASSUME NEW s \in Servers, PutsToSleep(s) PROVE ManagerTypeOK'
  <2>1. /\ created' \in Clients \union {0} /\ open' \subseteq Clients
        /\ client' \in [Servers -> Clients \union {0}]
        /\ state' \in [Servers -> States]
        /\ idle' \in [Servers -> {"nil", "armed", "fired"}]
    BY <1>9 DEF PutsToSleep, LooksIn, ManagerTypeOK, States
  <2>2. strays' \in [Servers -> Nat] /\ woken' \in [Servers -> Nat]
    BY <1>9 DEF PutsToSleep, LooksIn, ManagerTypeOK, Forgotten
  <2> QED
    BY <1>9, <2>1, <2>2 DEF PutsToSleep, LooksIn, ManagerTypeOK
<1>10. ASSUME NEW s \in Servers, Sweep(s) PROVE ManagerTypeOK'
  BY <1>10 DEF Sweep, Free
<1>11. ASSUME NEW c \in ToolCalls, CheckStopped(c) PROVE ManagerTypeOK'
  BY <1>11 DEF CheckStopped, Goto
<1>12. ASSUME NEW c \in ToolCalls, FindSession(c) PROVE ManagerTypeOK'
  BY <1>12 DEF FindSession, Goto
<1>13. ASSUME NEW c \in ToolCalls, Joins(c) PROVE ManagerTypeOK'
  BY <1>13 DEF Joins, Enter, Goto, Free
<1>14. ASSUME NEW c \in ToolCalls, Wakes(c) PROVE ManagerTypeOK'
  BY <1>14 DEF Wakes, Create, NewClient, Free
<1>15. ASSUME NEW c \in ToolCalls, WakesNobody(c) PROVE ManagerTypeOK'
  BY <1>15 DEF WakesNobody, Free
<1>16. ASSUME NEW c \in ToolCalls, WakeFails(c) PROVE ManagerTypeOK'
  BY <1>16 DEF WakeFails, Goto
<1>17. ASSUME NEW c \in ToolCalls, WakeSucceeds(c) PROVE ManagerTypeOK'
  <2>1. /\ client' \in [Servers -> Clients \union {0}]
        /\ state' \in [Servers -> States]
        /\ at' \in [ToolCalls -> {"idle", "checked", "found", "waking", "calling",
                                 "leaving", "done"}]
    BY <1>17 DEF WakeSucceeds, Enter, Goto
  <2>2. /\ lock' \in [Servers -> ToolCalls \union {Nobody}]
        /\ idle' \in [Servers -> {"nil", "armed", "fired"}]
        /\ tools' \in [Servers -> BOOLEAN] /\ recent' \in [Servers -> BOOLEAN]
    BY <1>17 DEF WakeSucceeds, Enter
  <2>3. cache' \subseteq Servers
    BY <1>17 DEF WakeSucceeds
  <2> QED
    BY <1>17, <2>1, <2>2, <2>3 DEF WakeSucceeds, Enter
<1>18. ASSUME NEW c \in ToolCalls, CallReturns(c) PROVE ManagerTypeOK'
  BY <1>18 DEF CallReturns, Goto
<1>19. ASSUME NEW c \in ToolCalls, Touch(c) PROVE ManagerTypeOK'
  BY <1>19 DEF Touch, Goto, Free
<1>20. ASSUME StartProbes PROVE ManagerTypeOK'
  BY <1>20 DEF StartProbes
<1>21. ASSUME StartFails PROVE ManagerTypeOK'
  BY <1>21 DEF StartFails
<1>22. ASSUME StartSucceeds PROVE ManagerTypeOK'
  <2>1. /\ client' \in [Servers -> Clients \union {0}]
        /\ probing' \in [Servers -> Clients \union {0}]
    BY <1>22 DEF StartSucceeds, ManagerTypeOK
  <2>2. /\ state' \in [Servers -> States]
        /\ recent' \in [Servers -> BOOLEAN] /\ tools' \in [Servers -> BOOLEAN]
    BY <1>22 DEF StartSucceeds, ManagerTypeOK, States, Eager
  <2> QED
    BY <1>22, <2>1, <2>2 DEF StartSucceeds, ManagerTypeOK
<1>23. ASSUME Stop PROVE ManagerTypeOK'
  BY <1>23 DEF Stop
<1>24. ASSUME TakeManagerLock PROVE ManagerTypeOK'
  BY <1>24 DEF TakeManagerLock
<1>25. ASSUME ManagerStopped PROVE ManagerTypeOK'
  BY <1>25 DEF ManagerStopped
<1>26. ASSUME NEW k \in Clients, CloseHanded(k) PROVE ManagerTypeOK'
  BY <1>26 DEF CloseHanded
<1> QED
  BY ManagerSteps, <1>1, <1>2, <1>3, <1>4, <1>5, <1>6, <1>7, <1>8, <1>9,
     <1>10, <1>11, <1>12, <1>13, <1>14, <1>15, <1>16, <1>17, <1>18, <1>19,
     <1>20, <1>21, <1>22, <1>23, <1>24, <1>25, <1>26
  DEF ServerSteps, CallSteps, OwnSteps

(* A client that somebody has was created.                                  *)
LEMMA CreatedStay ==
  ASSUME ManagerInv, ManagerNext
  PROVE  CreatedBefore'
<1> USE ManagerAssumption DEF ManagerInv, CreatedBefore, ManagerTypeOK, Clients,
   session, lifecycle, clients
<1>1. ASSUME NEW s \in Servers, Connects(s) PROVE CreatedBefore'
  BY <1>1, SMTT(30) DEF Connects, Create, NewClient
<1>2. ASSUME NEW s \in Servers, ProbeEndsAs(s, "ok") PROVE CreatedBefore'
  BY <1>2 DEF ProbeEndsAs
<1>3. ASSUME NEW s \in Servers, ProbeEndsAs(s, "failed") PROVE CreatedBefore'
  BY <1>3 DEF ProbeEndsAs
<1>4. ASSUME NEW s \in Servers, PutsToSleep(s) PROVE CreatedBefore'
  <2>1. /\ created \in Nat /\ created' = created /\ handed' = handed
        /\ probing' = probing /\ using' = using /\ open' \subseteq open
    BY <1>4 DEF PutsToSleep, LooksIn, ManagerTypeOK, Clients
  <2>2. \A t \in Servers : client'[t] = client[t] \/ client'[t] = 0
    BY <1>4 DEF PutsToSleep, ManagerTypeOK
  <2> QED
    BY <2>1, <2>2 DEF CreatedBefore
<1>5. ASSUME NEW s \in Servers, Sweep(s) PROVE CreatedBefore'
  <2>1. /\ created \in Nat /\ created' = created /\ open' = open
        /\ probing' = probing /\ using' = using
    BY <1>5 DEF Sweep, ManagerTypeOK, Clients
  <2>2. \A t \in Servers : client'[t] = client[t] \/ client'[t] = 0
    BY <1>5 DEF Sweep, ManagerTypeOK
  <2>3. client[s] # 0 => client[s] \in 1 .. created
    BY <2>1 DEF CreatedBefore, ManagerTypeOK, Clients
  <2>4. handed' \subseteq 1 .. created
    BY <1>5, <2>3 DEF Sweep, CreatedBefore
  <2> QED
    BY <2>1, <2>2, <2>4 DEF CreatedBefore
<1>6. ASSUME NEW c \in ToolCalls, Joins(c) PROVE CreatedBefore'
  BY <1>6 DEF Joins, Enter, Goto, Free
<1>7. ASSUME NEW c \in ToolCalls, Wakes(c) PROVE CreatedBefore'
  BY <1>7, SMTT(30) DEF Wakes, Create, NewClient, Free
<1>8. ASSUME NEW c \in ToolCalls, WakeFails(c) PROVE CreatedBefore'
  BY <1>8 DEF WakeFails, Goto
<1>9. ASSUME NEW c \in ToolCalls, WakeSucceeds(c) PROVE CreatedBefore'
  BY <1>9 DEF WakeSucceeds, Enter, Goto
<1>10. ASSUME NEW c \in ToolCalls, Touch(c) PROVE CreatedBefore'
  BY <1>10 DEF Touch, Goto, Free
<1>11. ASSUME StartFails PROVE CreatedBefore'
  <2>1. /\ created \in Nat /\ created' = created /\ handed' = handed
        /\ client' = client /\ using' = using /\ open' \subseteq open
    BY <1>11 DEF StartFails, ManagerTypeOK, Clients
  <2>2. \A t \in Servers : probing'[t] = 0
    BY <1>11 DEF StartFails
  <2> QED
    BY <2>1, <2>2 DEF CreatedBefore
<1>12. ASSUME StartSucceeds PROVE CreatedBefore'
  BY <1>12 DEF StartSucceeds
<1>13. ASSUME NEW k \in Clients, CloseHanded(k) PROVE CreatedBefore'
  BY <1>13 DEF CloseHanded
<1>14. ASSUME UNCHANGED <<created, open, handed, client, probing, using>>
      PROVE  CreatedBefore'
  BY <1>14
<1> QED
  BY ManagerSteps, <1>1, <1>2, <1>3, <1>4, <1>5, <1>6, <1>7, <1>8, <1>9,
     <1>10, <1>11, <1>12, <1>13, <1>14
  DEF ServerSteps, CallSteps, OwnSteps, ConnectFails, Passes, IdleFires,
         LetsBe, LooksIn, Free, Rearms, Forgotten, StillUsed, CheckStopped,
         Goto, FindSession, WakesNobody, CallReturns, StartProbes, Stop,
         TakeManagerLock, ManagerStopped

(* No client is made for two, and a session that is being woken is locked   *)
(* and has none.                                                            *)
LEMMA NotSharedStays ==
  ASSUME ManagerInv, ManagerNext
  PROVE  NotShared'
<1> USE ManagerAssumption DEF ManagerInv, NotShared, Waking, CreatedBefore,
   StartsAlone, ManagerTypeOK, Clients, session, lifecycle, clients
<1>1. ASSUME NEW s \in Servers, Connects(s) PROVE NotShared'
  BY <1>1 DEF Connects, Create, NewClient
<1>2. ASSUME NEW s \in Servers, PutsToSleep(s) PROVE NotShared'
  BY <1>2 DEF PutsToSleep, LooksIn, Forgotten, StillUsed, Free
<1>3. ASSUME NEW s \in Servers, Sweep(s) PROVE NotShared'
  BY <1>3 DEF Sweep, Free
<1>4. ASSUME NEW c \in ToolCalls, CheckStopped(c) PROVE NotShared'
  BY <1>4 DEF CheckStopped, Goto
<1>5. ASSUME NEW c \in ToolCalls, FindSession(c) PROVE NotShared'
  BY <1>5 DEF FindSession, Goto
<1>6. ASSUME NEW c \in ToolCalls, Joins(c) PROVE NotShared'
  BY <1>6 DEF Joins, Enter, Goto, Free
<1>7. ASSUME NEW c \in ToolCalls, Wakes(c) PROVE NotShared'
  BY <1>7 DEF Wakes, Create, NewClient, Free
<1>8. ASSUME NEW c \in ToolCalls, WakesNobody(c) PROVE NotShared'
  BY <1>8 DEF WakesNobody, Free
<1>9. ASSUME NEW c \in ToolCalls, WakeFails(c) PROVE NotShared'
  BY <1>9 DEF WakeFails, Goto
<1>10. ASSUME NEW c \in ToolCalls, WakeSucceeds(c) PROVE NotShared'
  BY <1>10 DEF WakeSucceeds, Enter, Goto
<1>11. ASSUME NEW c \in ToolCalls, CallReturns(c) PROVE NotShared'
  BY <1>11 DEF CallReturns, Goto
<1>12. ASSUME NEW c \in ToolCalls, Touch(c) PROVE NotShared'
  BY <1>12 DEF Touch, Goto, Free
<1>13. ASSUME StartFails PROVE NotShared'
  BY <1>13 DEF StartFails
<1>14. ASSUME StartSucceeds PROVE NotShared'
  BY <1>14 DEF StartSucceeds
<1>15. ASSUME UNCHANGED <<client, probing, using, lock, at>> PROVE NotShared'
  BY <1>15
<1> QED
  BY ManagerSteps, <1>1, <1>2, <1>3, <1>4, <1>5, <1>6, <1>7, <1>8, <1>9,
     <1>10, <1>11, <1>12, <1>13, <1>14, <1>15
  DEF ServerSteps, CallSteps, OwnSteps, ConnectFails, ProbeEndsAs, Passes,
         IdleFires, LetsBe, LooksIn, Free, Rearms, Forgotten, StillUsed,
         StartProbes, Stop, TakeManagerLock, ManagerStopped, CloseHanded

(* Before Start is over nobody calls, and what is open is a probe's.        *)
LEMMA AloneStays ==
  ASSUME ManagerInv, ManagerNext
  PROVE  StartsAlone'
<1> USE ManagerAssumption DEF ManagerInv, StartsAlone, Probed, Eager,
   StopsInOrder, NotShared, CreatedBefore, ManagerTypeOK, Clients, session,
   lifecycle, clients
<1>1. ASSUME NEW s \in Servers, Connects(s) PROVE StartsAlone'
  BY <1>1 DEF Connects, Create, NewClient
<1>2. ASSUME NEW s \in Servers, ConnectFails(s) PROVE StartsAlone'
  BY <1>2 DEF ConnectFails
<1>3. ASSUME NEW s \in Servers, ProbeEndsAs(s, "ok") PROVE StartsAlone'
  <2>1. phase = "probing" /\ phase' = phase /\ client' = client /\ at' = at
        /\ probing' = probing
    BY <1>3 DEF ProbeEndsAs, StartsAlone
  <2>2. \A t \in Servers : probe'[t] = IF t = s THEN "ok" ELSE probe[t]
    BY <1>3 DEF ProbeEndsAs, ManagerTypeOK
  <2>3. ASSUME NEW k \in open'
        PROVE  \E t \in Servers : Probed(t)' /\ probing'[t] = k
    <3>1. PICK t \in Servers : Probed(t) /\ probing[t] = k
      BY <1>3, <2>1, <2>3 DEF ProbeEndsAs, StartsAlone
    <3>2. t = s => s \notin Standby
      BY <1>3, <2>3, <3>1 DEF ProbeEndsAs
    <3> QED
      BY <2>1, <2>2, <3>1, <3>2 DEF Probed, Eager
  <2>4. ASSUME NEW t \in Servers, Probed(t)', probing'[t] # 0
        PROVE  probing'[t] \in open'
    <3>1. CASE t = s
      BY <1>3, <2>1, <2>2, <2>4, <3>1 DEF ProbeEndsAs, StartsAlone, Eager, Probed
    <3>2. CASE t # s
      <4>1. Probed(t)
        BY <2>2, <2>4, <3>2 DEF Probed, Eager
      <4>2. probing[t] \in open /\ probing[t] # probing[s]
        BY <1>3, <2>1, <2>4, <3>2, <4>1 DEF StartsAlone, NotShared, ProbeEndsAs
      <4> QED
        BY <1>3, <2>1, <4>2 DEF ProbeEndsAs
    <3> QED
      BY <3>1, <3>2
  <2>5. ASSUME NEW t \in Servers, Eager(t)' PROVE probing'[t] # 0
    BY <1>3, <2>1, <2>2, <2>5 DEF StartsAlone, Eager, ProbeEndsAs
  <2> QED
    BY <2>1, <2>3, <2>4, <2>5 DEF StartsAlone
<1>4. ASSUME NEW s \in Servers, ProbeEndsAs(s, "failed") PROVE StartsAlone'
  BY <1>4 DEF ProbeEndsAs
<1>5. ASSUME NEW s \in Servers, PutsToSleep(s) PROVE StartsAlone'
  BY <1>5 DEF PutsToSleep, LooksIn, Forgotten, StillUsed, Free
<1>6. ASSUME NEW s \in Servers, Sweep(s) PROVE StartsAlone'
  BY <1>6 DEF Sweep, Free
<1>7. ASSUME NEW c \in ToolCalls, CheckStopped(c) PROVE StartsAlone'
  BY <1>7 DEF CheckStopped, Goto
<1>8. ASSUME NEW c \in ToolCalls, FindSession(c) PROVE StartsAlone'
  BY <1>8 DEF FindSession, Goto
<1>9. ASSUME NEW c \in ToolCalls, Joins(c) PROVE StartsAlone'
  BY <1>9 DEF Joins, Enter, Goto, Free
<1>10. ASSUME NEW c \in ToolCalls, Wakes(c) PROVE StartsAlone'
  BY <1>10 DEF Wakes, Create, NewClient, Free
<1>11. ASSUME NEW c \in ToolCalls, WakesNobody(c) PROVE StartsAlone'
  BY <1>11 DEF WakesNobody, Free
<1>12. ASSUME NEW c \in ToolCalls, WakeFails(c) PROVE StartsAlone'
  BY <1>12 DEF WakeFails, Goto
<1>13. ASSUME NEW c \in ToolCalls, WakeSucceeds(c) PROVE StartsAlone'
  BY <1>13 DEF WakeSucceeds, Enter, Goto
<1>14. ASSUME NEW c \in ToolCalls, CallReturns(c) PROVE StartsAlone'
  BY <1>14 DEF CallReturns, Goto
<1>15. ASSUME NEW c \in ToolCalls, Touch(c) PROVE StartsAlone'
  BY <1>15 DEF Touch, Goto, Free
<1>16. ASSUME StartProbes PROVE StartsAlone'
  BY <1>16 DEF StartProbes
<1>17. ASSUME StartFails PROVE StartsAlone'
  BY <1>17 DEF StartFails
<1>18. ASSUME StartSucceeds PROVE StartsAlone'
  BY <1>18 DEF StartSucceeds
<1>19. ASSUME Stop PROVE StartsAlone'
  BY <1>19 DEF Stop
<1>20. ASSUME TakeManagerLock PROVE StartsAlone'
  BY <1>20 DEF TakeManagerLock
<1>21. ASSUME ManagerStopped PROVE StartsAlone'
  BY <1>21 DEF ManagerStopped
<1>22. ASSUME NEW k \in Clients, CloseHanded(k) PROVE StartsAlone'
  BY <1>22 DEF CloseHanded
<1>23. ASSUME UNCHANGED <<phase, client, at, open, probing, probe>>
      PROVE  StartsAlone'
  BY <1>23
<1> QED
  BY ManagerSteps, <1>1, <1>2, <1>3, <1>4, <1>5, <1>6, <1>7, <1>8, <1>9,
     <1>10, <1>11, <1>12, <1>13, <1>14, <1>15, <1>16, <1>17, <1>18, <1>19,
     <1>20, <1>21, <1>22, <1>23
  DEF ServerSteps, CallSteps, OwnSteps, Passes, IdleFires, LetsBe, LooksIn,
         Free, Rearms, Forgotten, StillUsed

(* The flag follows the phase.                                              *)
LEMMA OrderStays ==
  ASSUME ManagerInv, ManagerNext
  PROVE  StopsInOrder'
<1> USE ManagerAssumption DEF ManagerInv, StopsInOrder, ManagerTypeOK, session,
   lifecycle, clients
<1>1. ASSUME NEW s \in Servers, Sweep(s) PROVE StopsInOrder'
  BY <1>1 DEF Sweep, Free
<1>2. ASSUME StartProbes PROVE StopsInOrder'
  BY <1>2 DEF StartProbes
<1>3. ASSUME StartFails PROVE StopsInOrder'
  BY <1>3 DEF StartFails
<1>4. ASSUME StartSucceeds PROVE StopsInOrder'
  BY <1>4 DEF StartSucceeds
<1>5. ASSUME Stop PROVE StopsInOrder'
  BY <1>5 DEF Stop
<1>6. ASSUME TakeManagerLock PROVE StopsInOrder'
  BY <1>6 DEF TakeManagerLock
<1>7. ASSUME ManagerStopped PROVE StopsInOrder'
  BY <1>7 DEF ManagerStopped
<1>8. ASSUME NEW k \in Clients, CloseHanded(k) PROVE StopsInOrder'
  BY <1>8 DEF CloseHanded
<1>9. ASSUME UNCHANGED <<phase, stopped, unswept, handed>> PROVE StopsInOrder'
  BY <1>9
<1> QED
  BY ManagerSteps, <1>1, <1>2, <1>3, <1>4, <1>5, <1>6, <1>7, <1>8, <1>9,
     ZenonT(60)
  DEF ServerSteps, CallSteps, OwnSteps, Connects, Create, NewClient,
         ConnectFails, ProbeEndsAs, Passes, IdleFires, LetsBe, LooksIn, Free,
         Rearms, Forgotten, StillUsed, PutsToSleep, CheckStopped, Goto,
         FindSession, Joins, Enter, Wakes, WakesNobody, WakeFails,
         WakeSucceeds, CallReturns, Touch

(* A client in use is open until the manager is stopped: the idle timer     *)
(* finds the calls counted.                                                 *)
LEMMA ServedStays ==
  ASSUME ManagerInv, ManagerNext
  PROVE  ServedByOpen'
<1> USE ManagerAssumption DEF ManagerInv, ServedByOpen, Waking, NotShared,
   CreatedBefore, StartsAlone, StopsInOrder, Eager, Probed, ManagerTypeOK,
   Clients, session, lifecycle, clients
<1>1. ASSUME NEW s \in Servers, Connects(s) PROVE ServedByOpen'
  BY <1>1 DEF Connects, Create, NewClient
<1>2. ASSUME NEW s \in Servers, ProbeEndsAs(s, "ok") PROVE ServedByOpen'
  BY <1>2 DEF ProbeEndsAs
<1>3. ASSUME NEW s \in Servers, ProbeEndsAs(s, "failed") PROVE ServedByOpen'
  BY <1>3 DEF ProbeEndsAs
<1>4. ASSUME NEW s \in Servers, PutsToSleep(s) PROVE ServedByOpen'
  <2> SUFFICES ASSUME ~stopped PROVE ServedByOpen'
    BY <1>4 DEF PutsToSleep, LooksIn, ServedByOpen
  <2>1. /\ client' = [client EXCEPT ![s] = 0] /\ open' = open \ {client[s]}
        /\ at' = at /\ using' = using /\ stopped' = stopped
        /\ client[s] # 0 /\ inUse[s] \in Nat /\ ~(inUse[s] > 0)
    BY <1>4 DEF PutsToSleep, LooksIn, StillUsed, ManagerTypeOK
  <2>2. Calling(s) = {}
    BY <2>1, CallsFinite DEF InUseCounts
  <2>3. ASSUME NEW t \in Servers, client'[t] # 0 PROVE client'[t] \in open'
    BY <2>1, <2>3 DEF ManagerTypeOK, NotShared, ServedByOpen
  <2>4. ASSUME NEW c \in Waking' PROVE using'[c] \in open'
    BY <2>1, <2>4 DEF Waking, NotShared, ServedByOpen
  <2>5. ASSUME NEW c \in ToolCalls, at'[c] = "calling"
        PROVE  using'[c] # 0 /\ using'[c] = client'[ServerOf[c]]
    BY <2>1, <2>2, <2>5 DEF Calling, ManagerTypeOK, ServedByOpen
  <2> QED
    BY <2>3, <2>4, <2>5 DEF ServedByOpen
<1>5. ASSUME NEW s \in Servers, Sweep(s) PROVE ServedByOpen'
  BY <1>5 DEF Sweep, Free
<1>6. ASSUME NEW c \in ToolCalls, CheckStopped(c) PROVE ServedByOpen'
  BY <1>6 DEF CheckStopped, Goto
<1>7. ASSUME NEW c \in ToolCalls, FindSession(c) PROVE ServedByOpen'
  BY <1>7 DEF FindSession, Goto
<1>8. ASSUME NEW c \in ToolCalls, Joins(c) PROVE ServedByOpen'
  BY <1>8 DEF Joins, Enter, Goto, Free
<1>9. ASSUME NEW c \in ToolCalls, Wakes(c) PROVE ServedByOpen'
  BY <1>9 DEF Wakes, Create, NewClient, Free
<1>10. ASSUME NEW c \in ToolCalls, WakesNobody(c) PROVE ServedByOpen'
  BY <1>10 DEF WakesNobody, Free
<1>11. ASSUME NEW c \in ToolCalls, WakeFails(c) PROVE ServedByOpen'
  BY <1>11 DEF WakeFails, Goto
<1>12. ASSUME NEW c \in ToolCalls, WakeSucceeds(c) PROVE ServedByOpen'
  BY <1>12 DEF WakeSucceeds, Enter, Goto
<1>13. ASSUME NEW c \in ToolCalls, CallReturns(c) PROVE ServedByOpen'
  BY <1>13 DEF CallReturns, Goto
<1>14. ASSUME NEW c \in ToolCalls, Touch(c) PROVE ServedByOpen'
  BY <1>14 DEF Touch, Goto, Free
<1>15. ASSUME StartFails PROVE ServedByOpen'
  BY <1>15 DEF StartFails
<1>16. ASSUME StartSucceeds PROVE ServedByOpen'
  BY <1>16 DEF StartSucceeds
<1>17. ASSUME Stop PROVE ServedByOpen'
  BY <1>17 DEF Stop
<1>18. ASSUME NEW k \in Clients, CloseHanded(k) PROVE ServedByOpen'
  BY <1>18 DEF CloseHanded
<1>19. ASSUME UNCHANGED <<stopped, client, at, open, using>>
      PROVE  ServedByOpen'
  BY <1>19
<1> QED
  BY ManagerSteps, <1>1, <1>2, <1>3, <1>4, <1>5, <1>6, <1>7, <1>8, <1>9,
     <1>10, <1>11, <1>12, <1>13, <1>14, <1>15, <1>16, <1>17, <1>18, <1>19
  DEF ServerSteps, CallSteps, OwnSteps, ConnectFails, Passes, IdleFires,
         LetsBe, LooksIn, Free, Rearms, Forgotten, StillUsed, StartProbes,
         TakeManagerLock, ManagerStopped

(* What Stop has swept keeps no client but one that was woken late.         *)
LEMMA SweepStays ==
  ASSUME ManagerInv, ManagerNext, AllOwned
  PROVE  SweepFinds'
<1> USE ManagerAssumption DEF ManagerInv, SweepFinds, Waking, NotShared,
   CreatedBefore, StartsAlone, StopsInOrder, AllOwned, Owned, ManagerTypeOK,
   Clients, session, lifecycle, clients
<1>1. ASSUME NEW s \in Servers, Connects(s) PROVE SweepFinds'
  BY <1>1 DEF Connects, Create, NewClient
<1>2. ASSUME NEW s \in Servers, ProbeEndsAs(s, "ok") PROVE SweepFinds'
  BY <1>2 DEF ProbeEndsAs
<1>3. ASSUME NEW s \in Servers, ProbeEndsAs(s, "failed") PROVE SweepFinds'
  BY <1>3 DEF ProbeEndsAs
<1>4. ASSUME NEW s \in Servers, PutsToSleep(s) PROVE SweepFinds'
  BY <1>4 DEF PutsToSleep, LooksIn, Forgotten, StillUsed, Free
<1>5. ASSUME NEW s \in Servers, Sweep(s) PROVE SweepFinds'
  BY <1>5 DEF Sweep, Free
<1>6. ASSUME NEW c \in ToolCalls, CheckStopped(c) PROVE SweepFinds'
  BY <1>6 DEF CheckStopped, Goto
<1>7. ASSUME NEW c \in ToolCalls, FindSession(c) PROVE SweepFinds'
  BY <1>7 DEF FindSession, Goto
<1>8. ASSUME NEW c \in ToolCalls, Joins(c) PROVE SweepFinds'
  BY <1>8 DEF Joins, Enter, Goto, Free
<1>9. ASSUME NEW c \in ToolCalls, Wakes(c) PROVE SweepFinds'
  BY <1>9 DEF Wakes, Create, NewClient, Free
<1>10. ASSUME NEW c \in ToolCalls, WakesNobody(c) PROVE SweepFinds'
  BY <1>10 DEF WakesNobody, Free
<1>11. ASSUME NEW c \in ToolCalls, WakeFails(c) PROVE SweepFinds'
  BY <1>11 DEF WakeFails, Goto
<1>12. ASSUME NEW c \in ToolCalls, WakeSucceeds(c) PROVE SweepFinds'
  BY <1>12 DEF WakeSucceeds, Enter, Goto
<1>13. ASSUME NEW c \in ToolCalls, CallReturns(c) PROVE SweepFinds'
  BY <1>13 DEF CallReturns, Goto
<1>14. ASSUME NEW c \in ToolCalls, Touch(c) PROVE SweepFinds'
  BY <1>14 DEF Touch, Goto, Free
<1>15. ASSUME StartProbes PROVE SweepFinds'
  BY <1>15 DEF StartProbes
<1>16. ASSUME StartFails PROVE SweepFinds'
  BY <1>16 DEF StartFails
<1>17. ASSUME StartSucceeds PROVE SweepFinds'
  BY <1>17 DEF StartSucceeds
<1>18. ASSUME TakeManagerLock PROVE SweepFinds'
  BY <1>18 DEF TakeManagerLock
<1>19. ASSUME ManagerStopped PROVE SweepFinds'
  BY <1>19 DEF ManagerStopped
<1>20. ASSUME NEW k \in Clients, CloseHanded(k) PROVE SweepFinds'
  BY <1>20 DEF CloseHanded
<1>21. ASSUME UNCHANGED <<phase, unswept, handed, late, client, at, open, using>>
      PROVE  SweepFinds'
  BY <1>21
<1> QED
  BY ManagerSteps, <1>1, <1>2, <1>3, <1>4, <1>5, <1>6, <1>7, <1>8, <1>9,
     <1>10, <1>11, <1>12, <1>13, <1>14, <1>15, <1>16, <1>17, <1>18, <1>19,
     <1>20, <1>21
  DEF ServerSteps, CallSteps, OwnSteps, ConnectFails, Passes, IdleFires,
         LetsBe, LooksIn, Free, Rearms, Forgotten, StillUsed, Stop

(* No client is forgotten.                                                  *)
LEMMA LeaksStay ==
  ASSUME ManagerInv, ManagerNext, AllOwned
  PROVE  AllOwned'
<1> USE ManagerAssumption DEF ManagerInv, AllOwned, Owned, Waking, NotShared,
   StartsAlone, Probed, Eager, ManagerTypeOK, Clients, session, lifecycle,
   clients
<1>1. ASSUME NEW s \in Servers, Connects(s) PROVE AllOwned'
  BY <1>1 DEF Connects, Create, NewClient
<1>2. ASSUME NEW s \in Servers, ProbeEndsAs(s, "ok") PROVE AllOwned'
  BY <1>2 DEF ProbeEndsAs
<1>3. ASSUME NEW s \in Servers, ProbeEndsAs(s, "failed") PROVE AllOwned'
  BY <1>3 DEF ProbeEndsAs
<1>4. ASSUME NEW s \in Servers, PutsToSleep(s) PROVE AllOwned'
  BY <1>4 DEF PutsToSleep, LooksIn, Forgotten, StillUsed, Free
<1>5. ASSUME NEW s \in Servers, Sweep(s) PROVE AllOwned'
  BY <1>5 DEF Sweep, Free
<1>6. ASSUME NEW c \in ToolCalls, CheckStopped(c) PROVE AllOwned'
  BY <1>6 DEF CheckStopped, Goto
<1>7. ASSUME NEW c \in ToolCalls, FindSession(c) PROVE AllOwned'
  BY <1>7 DEF FindSession, Goto
<1>8. ASSUME NEW c \in ToolCalls, Joins(c) PROVE AllOwned'
  BY <1>8 DEF Joins, Enter, Goto, Free
<1>9. ASSUME NEW c \in ToolCalls, Wakes(c) PROVE AllOwned'
  BY <1>9 DEF Wakes, Create, NewClient, Free
<1>10. ASSUME NEW c \in ToolCalls, WakesNobody(c) PROVE AllOwned'
  BY <1>10 DEF WakesNobody, Free
<1>11. ASSUME NEW c \in ToolCalls, WakeFails(c) PROVE AllOwned'
  BY <1>11 DEF WakeFails, Goto
<1>12. ASSUME NEW c \in ToolCalls, WakeSucceeds(c) PROVE AllOwned'
  BY <1>12 DEF WakeSucceeds, Enter, Goto
<1>13. ASSUME NEW c \in ToolCalls, CallReturns(c) PROVE AllOwned'
  BY <1>13 DEF CallReturns, Goto
<1>14. ASSUME NEW c \in ToolCalls, Touch(c) PROVE AllOwned'
  BY <1>14 DEF Touch, Goto, Free
<1>15. ASSUME StartFails PROVE AllOwned'
  BY <1>15 DEF StartFails
<1>16. ASSUME StartSucceeds PROVE AllOwned'
  <2> SUFFICES ASSUME NEW k \in open' PROVE Owned(k)'
    BY DEF AllOwned
  <2>1. PICK s \in Servers : Probed(s) /\ probing[s] = k
    BY <1>16 DEF StartSucceeds, StartsAlone
  <2>2. probe[s] # "runs"
    <3>1. probe[s] \in {probe[t] : t \in Servers}
      OBVIOUS
    <3> QED
      BY <1>16, <3>1 DEF StartSucceeds
  <2>3. client'[s] = k
    BY <1>16, <2>1, <2>2 DEF StartSucceeds, Probed
  <2> QED
    BY <2>3 DEF Owned
<1>17. ASSUME NEW k \in Clients, CloseHanded(k) PROVE AllOwned'
  BY <1>17 DEF CloseHanded
<1>18. ASSUME UNCHANGED <<handed, client, at, open, using, probing>>
      PROVE  AllOwned'
  BY <1>18
<1> QED
  BY ManagerSteps, <1>1, <1>2, <1>3, <1>4, <1>5, <1>6, <1>7, <1>8, <1>9,
     <1>10, <1>11, <1>12, <1>13, <1>14, <1>15, <1>16, <1>17, <1>18
  DEF ServerSteps, CallSteps, OwnSteps, ConnectFails, Passes, IdleFires,
         LetsBe, LooksIn, Free, Rearms, Forgotten, StillUsed, StartProbes,
         Stop, TakeManagerLock, ManagerStopped

(* A standby server that runs is watched by a timer.                        *)
LEMMA WatchStays ==
  ASSUME ManagerInv, ManagerNext
  PROVE  IdleIsWatched'
<1> USE ManagerAssumption DEF ManagerInv, IdleIsWatched, Eager, ManagerTypeOK,
   Clients, session, lifecycle, clients
<1>1. ASSUME NEW s \in Servers, IdleFires(s) PROVE IdleIsWatched'
  BY <1>1 DEF IdleFires
<1>2. ASSUME NEW s \in Servers, LetsBe(s) PROVE IdleIsWatched'
  BY <1>2 DEF LetsBe, LooksIn, Free
<1>3. ASSUME NEW s \in Servers, Rearms(s) PROVE IdleIsWatched'
  BY <1>3 DEF Rearms, LooksIn, Free, Forgotten, StillUsed
<1>4. ASSUME NEW s \in Servers, PutsToSleep(s) PROVE IdleIsWatched'
  BY <1>4 DEF PutsToSleep, LooksIn, Forgotten, StillUsed, Free
<1>5. ASSUME NEW s \in Servers, Sweep(s) PROVE IdleIsWatched'
  BY <1>5 DEF Sweep, Free
<1>6. ASSUME NEW c \in ToolCalls, Joins(c) PROVE IdleIsWatched'
  BY <1>6 DEF Joins, Enter, Goto, Free
<1>7. ASSUME NEW c \in ToolCalls, Wakes(c) PROVE IdleIsWatched'
  BY <1>7 DEF Wakes, Create, NewClient, Free
<1>8. ASSUME NEW c \in ToolCalls, WakesNobody(c) PROVE IdleIsWatched'
  BY <1>8 DEF WakesNobody, Free
<1>9. ASSUME NEW c \in ToolCalls, WakeSucceeds(c) PROVE IdleIsWatched'
  BY <1>9 DEF WakeSucceeds, Enter, Goto
<1>10. ASSUME StartSucceeds PROVE IdleIsWatched'
  BY <1>10 DEF StartSucceeds
<1>11. ASSUME Stop PROVE IdleIsWatched'
  BY <1>11 DEF Stop
<1>12. ASSUME UNCHANGED <<client, stopped, idle, strays, woken>>
      PROVE  IdleIsWatched'
  BY <1>12
<1> QED
  BY ManagerSteps, <1>1, <1>2, <1>3, <1>4, <1>5, <1>6, <1>7, <1>8, <1>9,
     <1>10, <1>11, <1>12
  DEF ServerSteps, CallSteps, OwnSteps, Connects, Create, NewClient,
         ConnectFails, ProbeEndsAs, Passes, CheckStopped, Goto, FindSession,
         WakeFails, CallReturns, Touch, Free, StartProbes, StartFails,
         TakeManagerLock, ManagerStopped, CloseHanded

LEMMA ManagerStarts == ManagerInit => ManagerInv
<1> SUFFICES ASSUME ManagerInit PROVE ManagerInv
  OBVIOUS
<1> USE ManagerAssumption DEF ManagerInit
<1>1. ManagerTypeOK
  BY DEF ManagerTypeOK, Clients, States
<1>2. InUseCounts
  BY FS_EmptySet DEF InUseCounts, Calling
<1>3. CreatedBefore /\ NotShared /\ ServedByOpen /\ SweepFinds /\ StopsInOrder
  BY DEF CreatedBefore, NotShared, Waking, ServedByOpen, SweepFinds,
         StopsInOrder
<1>4. StartsAlone
  BY DEF StartsAlone, Eager
<1>5. NoClientLeaks /\ IdleIsWatched
  BY DEF NoClientLeaks, IdleIsWatched
<1> QED
  BY <1>1, <1>2, <1>3, <1>4, <1>5 DEF ManagerInv

LEMMA ManagerGoesOn == ManagerInv /\ [ManagerNext]_managerVars => ManagerInv'
<1>1. ASSUME ManagerInv, ManagerNext PROVE ManagerInv'
  <2>1. InUseCounts' /\ ManagerTypeOK'
    BY <1>1, CallsAreCounted, ManagerTypesStay
  <2>2. CreatedBefore' /\ NotShared' /\ StartsAlone' /\ StopsInOrder'
    BY <1>1, CreatedStay, NotSharedStays, AloneStays, OrderStays
  <2>3. ServedByOpen' /\ SweepFinds' /\ IdleIsWatched'
    BY <1>1, LeaksMean, ServedStays, SweepStays, WatchStays
    DEF ManagerInv
  <2>4. NoClientLeaks'
    BY <1>1, LeaksMean, LeaksStay, LeaksMeanThen DEF ManagerInv
  <2> QED
    BY <2>1, <2>2, <2>3, <2>4 DEF ManagerInv
<1>2. ASSUME ManagerInv, UNCHANGED managerVars PROVE ManagerInv'
  BY <1>2
  DEF managerVars, session, lifecycle, clients, ManagerInv, ManagerTypeOK,
      CreatedBefore, NotShared, Waking, StartsAlone, Probed, Eager,
      StopsInOrder, InUseCounts, Calling, ServedByOpen, SweepFinds,
      NoClientLeaks, IdleIsWatched
<1> QED
  BY <1>1, <1>2

(* manager.go:212-219, 263-271, 289-318, 343-364: no client is forgotten,   *)
(* Stop leaves none but those woken behind its back, no call is cut by the  *)
(* idle timer and no running standby server goes unwatched, for any number  *)
(* of servers, calls, clients and timers.                                   *)
THEOREM ServersAreAccountedFor ==
  ManagerSpec => []SessionsAccountedFor
<1>1. ASSUME ManagerInv PROVE SessionsAccountedFor
  <2>1. NoClientLeaks /\ IdleIsWatched
    BY <1>1 DEF ManagerInv
  <2>2. StopLeavesOnlyLateWakes
    BY <1>1 DEF ManagerInv, SweepFinds, StopsInOrder, StopLeavesOnlyLateWakes
  <2>3. CallsNotCut
    BY <1>1, ManagerAssumption
    DEF ManagerInv, ServedByOpen, ManagerTypeOK, CallsNotCut
  <2> QED
    BY <2>1, <2>2, <2>3
    DEF SessionsAccountedFor, ClientsAccountedFor, SessionsWatched
<1> QED
  BY <1>1, ManagerStarts, ManagerGoesOn, PTL DEF ManagerSpec

-----------------------------------------------------------------------------
(* The client (internal/mcp/client.go).  *)

(* Every request has its caller and its page, and so the ids do not run out.*)
AskedFor ==
  {r \in Callers \X (1 .. MaxPages) : r[2] <= page[r[1]]}
IdsCount == reqID = Cardinality(AskedFor)

Engaged == {"sending", "waiting"}
IdsApart ==
  /\ \A c \in Callers :
       /\ myID[c] <= reqID
       /\ pc[c] \in Engaged => myID[c] # 0 /\ page[c] # 0
  /\ \A c, d \in Callers : myID[c] = myID[d] /\ myID[c] # 0 => c = d

(* A request under an id some caller has now is the one it waits for.       *)
IsOf(m, c) == m.by = c /\ m.page = page[c]
AskedByOwner ==
  \A m \in asked :
    m.id <= reqID /\ \A c \in Callers : m.id = myID[c] => IsOf(m, c)

(* Messages answer what was asked, or are the server's own, and sit in the  *)
(* channel of their id.                                                     *)
Heard == asked \union (IF spoke THEN Own ELSE {})
Delivered ==
  /\ incoming \in Seq(Heard \union {Noise, Eof})
  /\ holding \in Heard \union {Noise}
  /\ reader = "dispatching" =>
       holding # Noise /\ holding.id \notin pending /\ holding.id <= reqID
  /\ \A i \in Ids : mailbox[i] # <<>> =>
       i \notin pending /\ mailbox[i] \in {<<m>> : m \in Heard \union {Gone}}
  /\ \A i \in Ids, m \in Heard : mailbox[i] = <<m>> => m.id = i

(* What a caller has read is of its last page, until it asks for the next,  *)
(* or the server's own.                                                     *)
ReadItsOwn ==
  \A c \in Callers : got[c] # Noise =>
    /\ \/ got[c].by = Server
       \/ got[c].by = c /\ got[c].page \in {page[c] - 1, page[c]}
    /\ pc[c] = "idle" =>
         /\ got[c].id = myID[c]
         /\ got[c].by = Server \/ got[c].page = page[c]

NoneForgotten ==
  \A c \in Callers :
    (pc[c] \in Engaged /\ myID[c] \notin pending) =>
       \/ mailbox[myID[c]] # <<>>
       \/ reader = "dispatching" /\ holding.id = myID[c]

ClientInv ==
  /\ ClientTypeOK /\ IdsCount /\ IdsApart /\ AskedByOwner /\ Delivered
  /\ ReadItsOwn /\ PendingIsAwaited /\ NoneForgotten

(* The ways through the actions that have several.  *)
Registers(c) ==
  /\ pc[c] = "idle" /\ page[c] < PageLimit(c)
  /\ reqID' = NextId
  /\ myID' = [myID EXCEPT ![c] = NextId]
  /\ pending' = pending \union {NextId}
  /\ mailbox' = [mailbox EXCEPT ![NextId] = <<>>]
  /\ page' = [page EXCEPT ![c] = @ + 1]
  /\ pc' = [pc EXCEPT ![c] = "sending"]
  /\ UNCHANGED <<wire, receiver, closer, got, callDone>>
FindsClosed(c) ==
  /\ pc[c] = "idle"
  /\ pc' = [pc EXCEPT ![c] = "done"]
  /\ UNCHANGED <<wire, receiver, table, closer, myID, page, got, callDone>>

ReadsAnswer(c) ==
  /\ pc[c] = "waiting"
  /\ \E m \in Letters :
       /\ mailbox[myID[c]] = <<m>>
       /\ got' = [got EXCEPT ![c] = m]
  /\ \E p \in {"idle", "done"} : pc' = [pc EXCEPT ![c] = p]
  /\ UNCHANGED <<wire, receiver, table, closer, myID, page, callDone>>
ReadsLoss(c) ==
  /\ pc[c] = "waiting" /\ mailbox[myID[c]] = <<Gone>>
  /\ pc' = [pc EXCEPT ![c] = "done"]
  /\ UNCHANGED <<wire, receiver, table, closer, myID, page, got, callDone>>

Matches ==
  /\ reader = "receiving" /\ incoming # <<>> /\ incoming' = Tail(incoming)
  /\ Head(incoming) # Eof /\ Expected(Head(incoming))
  /\ TakeOut(Head(incoming))
  /\ holding' = Head(incoming) /\ reader' = "dispatching"
  /\ UNCHANGED <<link, asked, spoke, said, reqID, mailbox, closer, callers>>
TakesNote ==
  /\ reader = "receiving" /\ reader' \in {"receiving", "failing"}
  /\ \/ incoming' = incoming
     \/ incoming # <<>> /\ incoming' = Tail(incoming)
  /\ UNCHANGED <<link, asked, spoke, said, holding, table, closer, callers>>

CallerSteps(c) ==
  \/ Registers(c) \/ FindsClosed(c) \/ Deliver(c) \/ Sent(c) \/ Abort(c)
  \/ ReadsAnswer(c) \/ ReadsLoss(c) \/ CancelRequest(c)
LinkSteps ==
  \/ ServerSays \/ StreamLost \/ Matches \/ TakesNote \/ Dispatch \/ FailAll
  \/ MarkClosed \/ CloseTransport \/ CloseReturns

(* A step is one of a caller's, or of the connection.  *)
LEMMA ClientSteps ==
  ASSUME ClientNext
  PROVE  (\E c \in Callers : CallerSteps(c)) \/ LinkSteps
<1>1. ASSUME NEW c \in Callers, Register(c)
      PROVE  Registers(c) \/ FindsClosed(c)
  BY <1>1 DEF Register, Registers, FindsClosed, Finished, NextId
<1>2. ASSUME NEW c \in Callers, Read(c)
      PROVE  ReadsAnswer(c) \/ ReadsLoss(c)
  BY <1>2 DEF Read, ReadsAnswer, ReadsLoss, Finished
<1>3. ASSUME Receive PROVE Matches \/ TakesNote
  BY <1>3 DEF Receive, Matches, TakesNote, table
<1> QED
  BY <1>1, <1>2, <1>3 DEF ClientNext, Caller, Loop, CallerSteps, LinkSteps

LEMMA FirstAndRest ==
  ASSUME NEW S, NEW s \in Seq(S), s # <<>>
  PROVE  Head(s) \in S /\ Tail(s) \in Seq(S)
  OBVIOUS

LEMMA AskedForFinite ==
  ASSUME ClientTypeOK
  PROVE  /\ IsFiniteSet(AskedFor)
         /\ Cardinality(AskedFor) \in 0 .. Cardinality(Callers) * MaxPages
<1>1. IsFiniteSet(1 .. MaxPages) /\ Cardinality(1 .. MaxPages) = MaxPages
  BY ClientAssumption, FS_Interval
<1>2. /\ IsFiniteSet(Callers \X (1 .. MaxPages))
      /\ Cardinality(Callers \X (1 .. MaxPages))
           = Cardinality(Callers) * MaxPages
  BY <1>1, ClientAssumption, FS_Product
<1>3. AskedFor \subseteq Callers \X (1 .. MaxPages)
  BY DEF AskedFor
<1> QED
  BY <1>2, <1>3, FS_Subset, FS_CardinalityType

(* The next request has an id that was never given out.                     *)
LEMMA FreshId ==
  ASSUME ClientInv, NEW c \in Callers, page[c] < PageLimit(c)
  PROVE  /\ Cardinality(AskedFor \union {<<c, page[c] + 1>>}) = reqID + 1
         /\ <<c, page[c] + 1>> \in Callers \X (1 .. MaxPages)
         /\ NextId \in Ids
<1> USE ClientAssumption DEF ClientInv
<1>1. page[c] \in Nat /\ page[c] + 1 \in 1 .. MaxPages
  BY DEF PageLimit, ClientTypeOK
<1>2. <<c, page[c] + 1>> \notin AskedFor
  BY <1>1 DEF AskedFor
<1>3. /\ IsFiniteSet(AskedFor)
      /\ Cardinality(AskedFor \union {<<c, page[c] + 1>>}) = reqID + 1
  BY <1>2, AskedForFinite, FS_AddElement DEF IdsCount
<1>4. IsFiniteSet(1 .. MaxPages) /\ Cardinality(1 .. MaxPages) = MaxPages
  BY FS_Interval
<1>5. /\ IsFiniteSet(Callers \X (1 .. MaxPages))
      /\ Cardinality(Callers \X (1 .. MaxPages))
           = Cardinality(Callers) * MaxPages
  BY <1>4, FS_Product
<1>6. AskedFor \union {<<c, page[c] + 1>>} \subseteq Callers \X (1 .. MaxPages)
  BY <1>1 DEF AskedFor
<1>7. reqID + 1 <= Cardinality(Callers) * MaxPages
  BY <1>3, <1>5, <1>6, FS_Subset
<1>8. reqID \in Nat /\ Cardinality(Callers) * MaxPages \in Nat
  BY AskedForFinite, FS_CardinalityType DEF IdsCount
<1> QED
  BY <1>1, <1>3, <1>7, <1>8 DEF NextId, Ids

(* A caller whose request is under way has an id and a page.  *)
LEMMA EngagedAsked ==
  ASSUME ClientInv, NEW c \in Callers, pc[c] \in Engaged
  PROVE  myID[c] \in Ids /\ page[c] \in 1 .. MaxPages
<1>1. myID[c] # 0 /\ page[c] # 0
  BY DEF ClientInv, IdsApart
<1>2. myID[c] \in Ids \union {0} /\ page[c] \in 0 .. MaxPages
  BY DEF ClientInv, ClientTypeOK
<1> QED
  BY <1>1, <1>2, ClientAssumption

LEMMA IdsAreCounted ==
  ASSUME ClientInv, ClientNext
  PROVE  IdsCount' /\ reqID' \in Ids \union {0} /\ page' \in [Callers -> 0 .. MaxPages]
<1> USE ClientAssumption DEF ClientInv
<1>1. ASSUME NEW c \in Callers, Registers(c)
      PROVE  IdsCount' /\ reqID' \in Ids \union {0} /\ page' \in [Callers -> 0 .. MaxPages]
  <2>1. page' = [page EXCEPT ![c] = @ + 1] /\ reqID' = reqID + 1
    BY <1>1 DEF Registers, NextId
  <2>2. /\ Cardinality(AskedFor \union {<<c, page[c] + 1>>}) = reqID + 1
        /\ <<c, page[c] + 1>> \in Callers \X (1 .. MaxPages)
        /\ reqID + 1 \in Ids
    BY <1>1, FreshId DEF Registers, NextId
  <2>3. AskedFor' = AskedFor \union {<<c, page[c] + 1>>}
    <3>1. ASSUME NEW d \in Callers, NEW p \in 1 .. MaxPages
          PROVE  p <= page'[d] <=> p <= page[d] \/ (d = c /\ p = page[c] + 1)
      BY <2>1 DEF ClientTypeOK
    <3> QED
      BY <2>2, <3>1 DEF AskedFor
  <2> QED
    BY <2>1, <2>2, <2>3 DEF IdsCount, ClientTypeOK
<1>2. ASSUME UNCHANGED <<reqID, page>>
      PROVE  IdsCount' /\ reqID' \in Ids \union {0} /\ page' \in [Callers -> 0 .. MaxPages]
  BY <1>2 DEF IdsCount, AskedFor, ClientTypeOK
<1> QED
  BY ClientSteps, <1>1, <1>2
  DEF CallerSteps, LinkSteps, FindsClosed, Deliver, Sent, Abort, ReadsAnswer,
      ReadsLoss, CancelRequest, ServerSays, StreamLost, Matches, TakesNote, Dispatch,
      FailAll, MarkClosed, CloseTransport, CloseReturns, wire, receiver, table,
      callers

(* The types.                                                               *)
LEMMA ClientTypesStay ==
  ASSUME ClientInv, ClientNext, reqID' \in Ids \union {0}, page' \in [Callers -> 0 .. MaxPages]
  PROVE  ClientTypeOK'
<1> USE ClientAssumption DEF ClientInv, ClientTypeOK, Ids, Requests, Letters,
   wire, receiver, table, callers
<1>1. ASSUME NEW c \in Callers, Registers(c) PROVE ClientTypeOK'
  BY <1>1, SMTT(30) DEF Registers, NextId
<1>2. ASSUME NEW c \in Callers, FindsClosed(c) PROVE ClientTypeOK'
  BY <1>2 DEF FindsClosed
<1>3. ASSUME NEW c \in Callers, Deliver(c) \/ Sent(c) PROVE ClientTypeOK'
  <2>1. Request(c) \in Requests
    BY <1>3 DEF Deliver, Sent, Request, IdsApart, Engaged
  <2>2. CASE Deliver(c)
    BY <2>1, <2>2 DEF Deliver
  <2>3. CASE Sent(c)
    BY <2>3 DEF Sent
  <2> QED
    BY <1>3, <2>2, <2>3
<1>4. ASSUME NEW c \in Callers, Abort(c) PROVE ClientTypeOK'
  BY <1>4 DEF Abort, GiveUp, Finished
<1>5. ASSUME NEW c \in Callers, ReadsAnswer(c) PROVE ClientTypeOK'
  BY <1>5, SMTT(30) DEF ReadsAnswer
<1>6. ASSUME NEW c \in Callers, ReadsLoss(c) PROVE ClientTypeOK'
  BY <1>6 DEF ReadsLoss
<1>7. ASSUME NEW c \in Callers, CancelRequest(c) PROVE ClientTypeOK'
  BY <1>7 DEF CancelRequest
<1>8. ASSUME ServerSays PROVE ClientTypeOK'
  BY <1>8 DEF ServerSays
<1>9. ASSUME StreamLost PROVE ClientTypeOK'
  BY <1>9 DEF StreamLost
<1>10. ASSUME Matches PROVE ClientTypeOK'
  <2>1. /\ Head(incoming) \in Letters
        /\ Tail(incoming) \in Seq(Letters \union {Noise, Eof})
    BY <1>10, FirstAndRest DEF Matches, Expected
  <2> QED
    BY <1>10, <2>1 DEF Matches, TakeOut
<1>11. ASSUME TakesNote PROVE ClientTypeOK'
  <2>1. incoming # <<>> => Tail(incoming) \in Seq(Letters \union {Noise, Eof})
    BY FirstAndRest
  <2>2. incoming' \in Seq(Letters \union {Noise, Eof})
    BY <1>11, <2>1 DEF TakesNote
  <2> QED
    BY <1>11, <2>2 DEF TakesNote
<1>12. ASSUME Dispatch PROVE ClientTypeOK'
  <2>1. holding \in Letters
    BY <1>12 DEF Dispatch, Delivered
  <2> QED
    BY <1>12, <2>1 DEF Dispatch
<1>13. ASSUME FailAll PROVE ClientTypeOK'
  BY <1>13 DEF FailAll
<1>14. ASSUME MarkClosed PROVE ClientTypeOK'
  BY <1>14 DEF MarkClosed
<1>15. ASSUME CloseTransport PROVE ClientTypeOK'
  BY <1>15 DEF CloseTransport
<1>16. ASSUME CloseReturns PROVE ClientTypeOK'
  BY <1>16 DEF CloseReturns
<1> QED
  BY ClientSteps, <1>1, <1>2, <1>3, <1>4, <1>5, <1>6, <1>7, <1>8, <1>9, <1>10,
     <1>11, <1>12, <1>13, <1>14, <1>15, <1>16
  DEF CallerSteps, LinkSteps

(* Nobody has an id of another.                                             *)
LEMMA IdsStayApart ==
  ASSUME ClientInv, ClientNext
  PROVE  IdsApart'
<1> USE ClientAssumption DEF ClientInv, IdsApart, Engaged, ClientTypeOK, Ids,
   Requests, wire, receiver, table, callers
<1>1. ASSUME NEW c \in Callers, Registers(c) PROVE IdsApart'
  BY <1>1 DEF Registers, NextId
<1>2. ASSUME NEW c \in Callers, FindsClosed(c) PROVE IdsApart'
  BY <1>2 DEF FindsClosed
<1>3. ASSUME NEW c \in Callers, Sent(c) PROVE IdsApart'
  BY <1>3 DEF Sent
<1>4. ASSUME NEW c \in Callers, Abort(c) PROVE IdsApart'
  BY <1>4 DEF Abort, GiveUp, Finished
<1>5. ASSUME NEW c \in Callers, ReadsAnswer(c) PROVE IdsApart'
  BY <1>5 DEF ReadsAnswer
<1>6. ASSUME NEW c \in Callers, ReadsLoss(c) PROVE IdsApart'
  BY <1>6 DEF ReadsLoss
<1>7. ASSUME UNCHANGED <<myID, pc, page, reqID>> PROVE IdsApart'
  BY <1>7
<1> QED
  BY ClientSteps, <1>1, <1>2, <1>3, <1>4, <1>5, <1>6, <1>7
  DEF CallerSteps, LinkSteps, Deliver, CancelRequest, ServerSays, StreamLost,
         Matches, Expected, TakeOut, TakesNote, Dispatch, FailAll, MarkClosed,
         CloseTransport, CloseReturns

(* What was asked was asked by whoever has its id.                          *)
LEMMA OwnersStay ==
  ASSUME ClientInv, ClientNext
  PROVE  AskedByOwner'
<1> USE ClientAssumption DEF ClientInv, AskedByOwner, IsOf, IdsApart, Engaged,
   ClientTypeOK, Ids, Requests, wire, receiver, table, callers
<1>1. ASSUME NEW c \in Callers, Registers(c) PROVE AskedByOwner'
  <2>1. reqID \in Nat /\ asked' = asked /\ reqID' = reqID + 1
    BY <1>1 DEF Registers, NextId
  <2>4. /\ myID' = [myID EXCEPT ![c] = reqID + 1]
        /\ page' = [page EXCEPT ![c] = @ + 1]
    BY <1>1 DEF Registers, NextId
  <2>2. ASSUME NEW m \in asked', NEW d \in Callers, m.id = myID'[d]
        PROVE  IsOf(m, d)'
    <3>1. d # c /\ m.id = myID[d]
      BY <2>4, <2>1, <2>2
    <3> QED
      BY <2>4, <2>1, <2>2, <3>1
  <2>3. \A m \in asked' : m.id <= reqID'
    BY <2>1
  <2> QED
    BY <2>2, <2>3
<1>2. ASSUME NEW c \in Callers, Deliver(c) PROVE AskedByOwner'
  <2> DEFINE req == Request(c)
  <2>1. asked' = asked \union {req} /\ UNCHANGED <<myID, page, reqID>>
    BY <1>2 DEF Deliver
  <2>2. myID[c] <= reqID /\ myID[c] # 0
    BY <1>2 DEF Deliver
  <2>3. \A d \in Callers : myID[d] = myID[c] => d = c
    BY <2>2
  <2>4. req.id <= reqID /\ \A d \in Callers : req.id = myID[d] => IsOf(req, d)
    BY <2>2, <2>3 DEF Request
  <2> QED
    BY <2>1, <2>4
<1>3. ASSUME UNCHANGED <<asked, myID, page, reqID>> PROVE AskedByOwner'
  BY <1>3
<1> QED
  BY ClientSteps, <1>1, <1>2, <1>3
  DEF CallerSteps, LinkSteps, FindsClosed, Sent, Abort, GiveUp, Finished,
         ReadsAnswer, ReadsLoss, CancelRequest, ServerSays, StreamLost,
         Matches, Expected, TakeOut, TakesNote, Dispatch, FailAll, MarkClosed,
         CloseTransport, CloseReturns

(* No letter is one of the marks.                                           *)
LEMMA LettersApart ==
  /\ MaxPages \in Nat /\ Noise # Eof /\ Server \notin Callers
  /\ Noise \notin Letters /\ Eof \notin Letters /\ Gone \notin Letters
  /\ Requests \subseteq Letters /\ Own \subseteq Letters
<1>1. Ids \subseteq Nat /\ 1 .. MaxPages \subseteq Nat /\ MaxPages \in Nat
  BY ClientAssumption DEF Ids
<1>2. Requests \subseteq [id : Nat, by : Callers \union {Server}, page : Nat]
  BY <1>1 DEF Requests
<1>3. ServerIds \subseteq Nat
  BY ClientAssumption, <1>1 DEF Ids
<1>4. Own \subseteq [id : Nat, by : Callers \union {Server}, page : Nat]
  <2>1. Server \in Callers \union {Server} /\ 0 \in Nat
    OBVIOUS
  <2>2. ASSUME NEW m \in Own
        PROVE  m \in [id : Nat, by : Callers \union {Server}, page : Nat]
    <3>1. PICK i \in ServerIds : m = [id |-> i, by |-> Server, page |-> 0]
      BY DEF Own
    <3> QED
      BY <1>3, <2>1, <3>1
  <2> QED
    BY <2>2
<1> QED
  BY <1>1, <1>2, <1>4, ClientAssumption DEF Letters

(* What the server has sent is a letter.                                    *)
LEMMA HeardAreLetters ==
  ASSUME ClientInv
  PROVE  /\ Heard \subseteq Letters
         /\ \A m \in Heard : m \in asked \/ (m \in Own /\ m.by = Server /\ spoke)
  BY LettersApart DEF Heard, ClientInv, ClientTypeOK, Own

(* Answers go to the channel of their id, which is out of the map by then.  *)
LEMMA DeliveriesStay ==
  ASSUME ClientInv, ClientNext
  PROVE  Delivered'
<1> USE ClientAssumption, LettersApart, HeardAreLetters
    DEF ClientInv, Delivered, ClientTypeOK, wire, receiver, table, callers
<1>0. ASSUME UNCHANGED <<asked, spoke>> PROVE Heard' = Heard
  BY <1>0 DEF Heard
<1>1. ASSUME NEW c \in Callers, Registers(c) PROVE Delivered'
  <2>1. /\ pending' = pending \union {NextId} /\ reqID' = NextId
        /\ mailbox' = [mailbox EXCEPT ![NextId] = <<>>]
        /\ UNCHANGED <<incoming, holding, reader>> /\ Heard' = Heard
    BY <1>0, <1>1 DEF Registers
  <2>3. ASSUME NEW i \in Ids
        PROVE  mailbox'[i] = IF i = NextId THEN <<>> ELSE mailbox[i]
    BY <2>1
  <2>4. reader = "dispatching" => /\ holding # Noise
                                  /\ holding.id \notin pending' /\ holding.id <= reqID'
    <3>1. reqID \in Nat /\ (holding # Noise => holding.id \in Nat)
      BY DEF Ids, Letters, Requests, Own
    <3> QED
      BY <2>1, <3>1 DEF NextId
  <2>5. \A m \in Heard : <<m>> # <<>>
    OBVIOUS
  <2> QED
    BY <2>1, <2>3, <2>4, <2>5
<1>2. ASSUME NEW c \in Callers, Deliver(c) PROVE Delivered'
  <2>1. Request(c) \in Requests /\ Heard' = Heard \union {Request(c)}
    <3>1. pc[c] = "sending"
      BY <1>2 DEF Deliver
    <3>2. myID[c] \in Ids /\ page[c] \in 1 .. MaxPages
      BY <3>1, EngagedAsked DEF Engaged
    <3> QED
      BY <1>2, <3>2 DEF Deliver, Request, Requests, Heard
  <2>2. UNCHANGED <<incoming, holding, reader, pending, mailbox, reqID>>
    BY <1>2 DEF Deliver
  <2>3. incoming \in Seq(Heard' \union {Noise, Eof})
    BY <2>1, Among
  <2>4. ASSUME NEW i \in Ids, NEW m \in Heard', mailbox[i] = <<m>>
        PROVE  m.id = i
    <3>1. PICK n \in Heard \union {Gone} : mailbox[i] = <<n>>
      <4>1. <<m>> # <<>>
        OBVIOUS
      <4> QED
        BY <2>4, <4>1
    <3>2. m = n /\ m # Gone
      BY <2>1, <2>4, <3>1
    <3> QED
      BY <2>4, <3>1, <3>2
  <2> QED
    BY <2>1, <2>2, <2>3, <2>4
<1>3. ASSUME NEW c \in Callers, Abort(c) PROVE Delivered'
  BY <1>0, <1>3 DEF Abort, GiveUp, Finished
<1>4. ASSUME ServerSays PROVE Delivered'
  <2>1. PICK m \in asked \union Own \union {Noise} :
          incoming' = Append(incoming, m) /\ spoke' = (spoke \/ m \in Own)
    BY <1>4 DEF ServerSays
  <2>2. UNCHANGED <<asked, holding, reader, pending, mailbox, reqID>>
    BY <1>4 DEF ServerSays
  <2>3. Heard \subseteq Heard' /\ m \in Heard' \union {Noise}
    BY <2>1, <2>2 DEF Heard
  <2>4. incoming' \in Seq(Heard' \union {Noise, Eof})
    <3>1. incoming \in Seq(Heard' \union {Noise, Eof})
      BY <2>3, Among
    <3> QED
      BY <2>1, <2>3, <3>1
  <2>5. ASSUME NEW i \in Ids, NEW n \in Heard', mailbox[i] = <<n>>
        PROVE  n.id = i
    <3>1. PICK k \in Heard \union {Gone} : mailbox[i] = <<k>>
      <4>1. <<n>> # <<>>
        OBVIOUS
      <4> QED
        BY <2>5, <4>1
    <3>2. Gone \notin Heard'
      BY <2>2 DEF Heard
    <3>3. n = k /\ n # Gone
      BY <2>5, <3>1, <3>2
    <3> QED
      BY <2>5, <3>1, <3>3
  <2> QED
    BY <2>2, <2>3, <2>4, <2>5
<1>5. ASSUME StreamLost PROVE Delivered'
  BY <1>0, <1>5 DEF StreamLost
<1>6. ASSUME Matches PROVE Delivered'
  <2>1. /\ incoming # <<>> /\ incoming' = Tail(incoming)
        /\ holding' = Head(incoming) /\ Head(incoming) # Noise
        /\ Head(incoming) # Eof /\ Head(incoming).id \in pending
        /\ pending' = pending \ {Head(incoming).id}
        /\ UNCHANGED <<mailbox, reqID>> /\ Heard' = Heard
    BY <1>0, <1>6 DEF Matches, Expected, TakeOut
  <2>2. /\ Head(incoming) \in Heard \union {Noise, Eof}
        /\ Tail(incoming) \in Seq(Heard \union {Noise, Eof})
    BY <2>1, FirstAndRest
  <2>3. Head(incoming).id <= reqID
    BY <2>1 DEF PendingIsAwaited, IdsApart
  <2> QED
    BY <2>1, <2>2, <2>3
<1>7. ASSUME TakesNote PROVE Delivered'
  <2>1. incoming # <<>> => Tail(incoming) \in Seq(Heard \union {Noise, Eof})
    BY FirstAndRest
  <2>2. incoming' \in Seq(Heard \union {Noise, Eof})
    BY <1>7, <2>1 DEF TakesNote
  <2> QED
    BY <1>0, <1>7, <2>2 DEF TakesNote
<1>8. ASSUME Dispatch PROVE Delivered'
  BY <1>0, <1>8 DEF Dispatch
<1>9. ASSUME FailAll PROVE Delivered'
  <2>1. /\ pending' = {} /\ UNCHANGED <<incoming, holding>> /\ Heard' = Heard
        /\ reader' # "dispatching"
    BY <1>0, <1>9 DEF FailAll
  <2>2. ASSUME NEW i \in Ids
        PROVE  mailbox'[i] = mailbox[i] \/ mailbox'[i] = <<Gone>>
    BY <1>9 DEF FailAll
  <2>3. \A m \in Heard : <<Gone>> # <<m>>
    <3>1. \A m \in Heard : Gone # m
      OBVIOUS
    <3> QED
      BY <3>1
  <2> QED
    BY <2>1, <2>2, <2>3
<1>10. ASSUME UNCHANGED <<asked, spoke, incoming, holding, reader, pending, mailbox,
                         reqID>>
      PROVE  Delivered'
  BY <1>0, <1>10
<1> QED
  BY ClientSteps, <1>1, <1>2, <1>3, <1>4, <1>5, <1>6, <1>7, <1>8, <1>9, <1>10
  DEF CallerSteps, LinkSteps, FindsClosed, Sent, ReadsAnswer, ReadsLoss,
         CancelRequest, MarkClosed, CloseTransport, CloseReturns

(* What is in the channel of a caller that waits is the answer to its       *)
(* present request, or the server's own.                                    *)
LEMMA WhatIsRead ==
  ASSUME ClientInv, NEW c \in Callers, pc[c] = "waiting",
         NEW m \in Letters, mailbox[myID[c]] = <<m>>
  PROVE  /\ m.id = myID[c]
         /\ \/ m \in asked /\ IsOf(m, c)
            \/ m \in Own /\ m.by = Server /\ spoke
<1>1. myID[c] \in Ids
  BY EngagedAsked DEF Engaged
<1>2. <<m>> # <<>>
  OBVIOUS
<1>3. PICK n \in Heard \union {Gone} : mailbox[myID[c]] = <<n>>
  BY <1>1, <1>2 DEF ClientInv, Delivered
<1>4. m = n /\ m # Gone
  BY <1>3, LettersApart
<1>5. m \in Heard /\ m.id = myID[c]
  BY <1>1, <1>3, <1>4 DEF ClientInv, Delivered
<1> QED
  BY <1>5, HeardAreLetters DEF ClientInv, AskedByOwner

(* What a caller reads is its own.                                          *)
LEMMA ReadingStays ==
  ASSUME ClientInv, ClientNext
  PROVE  ReadItsOwn'
<1> USE ClientAssumption DEF ClientInv, ReadItsOwn, IdsApart, Engaged,
   ClientTypeOK, wire, receiver, table, callers
<1>1. ASSUME NEW c \in Callers, Registers(c) PROVE ReadItsOwn'
  BY <1>1 DEF Registers, NextId
<1>2. ASSUME NEW c \in Callers, FindsClosed(c) PROVE ReadItsOwn'
  BY <1>2 DEF FindsClosed
<1>3. ASSUME NEW c \in Callers, Sent(c) PROVE ReadItsOwn'
  BY <1>3 DEF Sent
<1>4. ASSUME NEW c \in Callers, Abort(c) PROVE ReadItsOwn'
  BY <1>4 DEF Abort, GiveUp, Finished
<1>5. ASSUME NEW c \in Callers, ReadsAnswer(c) PROVE ReadItsOwn'
  <2>1. PICK m \in Letters : mailbox[myID[c]] = <<m>>
                            /\ got' = [got EXCEPT ![c] = m]
    BY <1>5 DEF ReadsAnswer
  <2>2. m.id = myID[c] /\ (m.by = Server \/ (m.by = c /\ m.page = page[c]))
    BY <1>5, <2>1, WhatIsRead DEF ReadsAnswer, IsOf
  <2>3. /\ page' = page /\ myID' = myID
        /\ \A d \in Callers : d # c => pc'[d] = pc[d]
    BY <1>5 DEF ReadsAnswer
  <2>4. \A d \in Callers : got'[d] = IF d = c THEN m ELSE got[d]
    BY <2>1
  <2> QED
    BY <2>2, <2>3, <2>4
<1>6. ASSUME NEW c \in Callers, ReadsLoss(c) PROVE ReadItsOwn'
  BY <1>6 DEF ReadsLoss
<1>7. ASSUME UNCHANGED <<got, page, pc, myID>> PROVE ReadItsOwn'
  BY <1>7
<1> QED
  BY ClientSteps, <1>1, <1>2, <1>3, <1>4, <1>5, <1>6, <1>7
  DEF CallerSteps, LinkSteps, Deliver, CancelRequest, ServerSays, StreamLost,
         Matches, Expected, TakeOut, TakesNote, Dispatch, FailAll, MarkClosed,
         CloseTransport, CloseReturns

(* An entry of the map is awaited.                                          *)
LEMMA AwaitedStay ==
  ASSUME ClientInv, ClientNext
  PROVE  PendingIsAwaited'
<1> USE ClientAssumption DEF ClientInv, PendingIsAwaited, Delivered, IdsApart,
   Engaged, ClientTypeOK, Ids, Requests, wire, receiver, table, callers
<1>1. ASSUME NEW c \in Callers, Registers(c) PROVE PendingIsAwaited'
  <2>1. /\ pending' = pending \union {reqID + 1} /\ pc[c] = "idle"
        /\ myID' = [myID EXCEPT ![c] = reqID + 1]
        /\ pc' = [pc EXCEPT ![c] = "sending"]
    BY <1>1 DEF Registers, NextId
  <2>2. ASSUME NEW i \in pending
        PROVE  \E d \in Callers : myID'[d] = i /\ pc'[d] \in Engaged
    <3>1. PICK d \in Callers : myID[d] = i /\ pc[d] \in Engaged
      OBVIOUS
    <3> QED
      BY <2>1, <3>1
  <2>3. myID'[c] = reqID + 1 /\ pc'[c] \in Engaged
    BY <2>1
  <2> QED
    BY <2>1, <2>2, <2>3
<1>2. ASSUME NEW c \in Callers, FindsClosed(c) PROVE PendingIsAwaited'
  BY <1>2 DEF FindsClosed
<1>3. ASSUME NEW c \in Callers, Sent(c) PROVE PendingIsAwaited'
  BY <1>3 DEF Sent
<1>4. ASSUME NEW c \in Callers, Abort(c) PROVE PendingIsAwaited'
  BY <1>4 DEF Abort, GiveUp, Finished
<1>5. ASSUME NEW c \in Callers, ReadsAnswer(c) PROVE PendingIsAwaited'
  <2>1. myID[c] \in Ids /\ mailbox[myID[c]] # <<>>
    BY <1>5 DEF ReadsAnswer
  <2>2. myID[c] \notin pending
    BY <2>1
  <2>3. /\ pending' = pending /\ myID' = myID
        /\ \A d \in Callers : d # c => pc'[d] = pc[d]
    BY <1>5 DEF ReadsAnswer
  <2> SUFFICES ASSUME NEW i \in pending
               PROVE  \E d \in Callers : myID[d] = i /\ pc'[d] \in Engaged
    BY <2>3
  <2>4. PICK d \in Callers : myID[d] = i /\ pc[d] \in Engaged
    OBVIOUS
  <2> QED
    BY <2>2, <2>3, <2>4
<1>6. ASSUME NEW c \in Callers, ReadsLoss(c) PROVE PendingIsAwaited'
  <2>1. myID[c] \in Ids /\ mailbox[myID[c]] # <<>>
    BY <1>6 DEF ReadsLoss
  <2>2. myID[c] \notin pending
    BY <2>1
  <2>3. /\ pending' = pending /\ myID' = myID
        /\ \A d \in Callers : d # c => pc'[d] = pc[d]
    BY <1>6 DEF ReadsLoss
  <2> SUFFICES ASSUME NEW i \in pending
               PROVE  \E d \in Callers : myID[d] = i /\ pc'[d] \in Engaged
    BY <2>3
  <2>4. PICK d \in Callers : myID[d] = i /\ pc[d] \in Engaged
    OBVIOUS
  <2> QED
    BY <2>2, <2>3, <2>4
<1>7. ASSUME Matches PROVE PendingIsAwaited'
  BY <1>7 DEF Matches, Expected, TakeOut
<1>8. ASSUME FailAll PROVE PendingIsAwaited'
  BY <1>8 DEF FailAll
<1>9. ASSUME UNCHANGED <<pending, myID, pc>> PROVE PendingIsAwaited'
  BY <1>9
<1> QED
  BY ClientSteps, <1>1, <1>2, <1>3, <1>4, <1>5, <1>6, <1>7, <1>8, <1>9
  DEF CallerSteps, LinkSteps, Deliver, CancelRequest, ServerSays, StreamLost,
         TakesNote, Dispatch, MarkClosed, CloseTransport, CloseReturns

(* Who waits has an entry in the map, or its answer.                        *)
LEMMA NoneIsForgotten ==
  ASSUME ClientInv, ClientNext
  PROVE  NoneForgotten'
<1> USE ClientAssumption DEF ClientInv, NoneForgotten, Delivered, IdsApart,
   Engaged, ClientTypeOK, Ids, Requests, wire, receiver, table, callers
<1>1. ASSUME NEW c \in Callers, Registers(c) PROVE NoneForgotten'
  BY <1>1 DEF Registers, NextId
<1>2. ASSUME NEW c \in Callers, FindsClosed(c) PROVE NoneForgotten'
  BY <1>2 DEF FindsClosed
<1>3. ASSUME NEW c \in Callers, Sent(c) PROVE NoneForgotten'
  BY <1>3 DEF Sent
<1>4. ASSUME NEW c \in Callers, Abort(c) PROVE NoneForgotten'
  BY <1>4 DEF Abort, GiveUp, Finished
<1>5. ASSUME NEW c \in Callers, ReadsAnswer(c) PROVE NoneForgotten'
  BY <1>5 DEF ReadsAnswer
<1>6. ASSUME NEW c \in Callers, ReadsLoss(c) PROVE NoneForgotten'
  BY <1>6 DEF ReadsLoss
<1>7. ASSUME Matches PROVE NoneForgotten'
  BY <1>7 DEF Matches, Expected, TakeOut
<1>8. ASSUME TakesNote PROVE NoneForgotten'
  BY <1>8 DEF TakesNote
<1>9. ASSUME Dispatch PROVE NoneForgotten'
  BY <1>9 DEF Dispatch
<1>10. ASSUME FailAll PROVE NoneForgotten'
  BY <1>10 DEF FailAll
<1>11. ASSUME UNCHANGED <<pending, mailbox, reader, holding, myID, pc>>
      PROVE  NoneForgotten'
  BY <1>11
<1> QED
  BY ClientSteps, <1>1, <1>2, <1>3, <1>4, <1>5, <1>6, <1>7, <1>8, <1>9, <1>10,
     <1>11
  DEF CallerSteps, LinkSteps, Deliver, CancelRequest, ServerSays, StreamLost,
         MarkClosed, CloseTransport, CloseReturns

LEMMA ClientStarts == ClientInit => ClientInv
<1> SUFFICES ASSUME ClientInit PROVE ClientInv
  OBVIOUS
<1> USE ClientAssumption DEF ClientInit
<1>1. ClientTypeOK
  <2>1. /\ mailbox \in [Ids -> {<<>>} \union {<<m>> : m \in Letters \union {Gone}}]
        /\ got \in [Callers -> Letters \union {Noise}]
        /\ incoming \in Seq(Letters \union {Noise, Eof})
    OBVIOUS
  <2>2. /\ page \in [Callers -> 0 .. MaxPages] /\ myID \in [Callers -> Ids \union {0}]
        /\ pc \in [Callers -> {"idle", "sending", "waiting", "done"}]
        /\ callDone \in [Callers -> BOOLEAN] /\ said \in 0 .. MaxMessages
    OBVIOUS
  <2> HIDE ClientAssumption
  <2> QED
    BY <2>1, <2>2 DEF ClientTypeOK
<1>2. IdsCount
  <2>1. AskedFor = {}
    BY DEF AskedFor
  <2> QED
    BY <2>1, FS_EmptySet DEF IdsCount
<1>3. IdsApart /\ AskedByOwner /\ Delivered
  BY DEF IdsApart, Engaged, AskedByOwner, Delivered, Heard
<1>4. ReadItsOwn /\ PendingIsAwaited /\ NoneForgotten
  BY DEF ReadItsOwn, PendingIsAwaited, NoneForgotten, Engaged
<1> QED
  BY <1>1, <1>2, <1>3, <1>4 DEF ClientInv

LEMMA ClientGoesOn == ClientInv /\ [ClientNext]_clientVars => ClientInv'
<1>1. ASSUME ClientInv, ClientNext PROVE ClientInv'
  <2>1. IdsCount' /\ ClientTypeOK'
    BY <1>1, IdsAreCounted, ClientTypesStay
  <2>2. IdsApart' /\ AskedByOwner' /\ Delivered'
    BY <1>1, IdsStayApart, OwnersStay, DeliveriesStay
  <2>3. ReadItsOwn' /\ PendingIsAwaited' /\ NoneForgotten'
    BY <1>1, ReadingStays, AwaitedStay, NoneIsForgotten
  <2> QED
    BY <2>1, <2>2, <2>3 DEF ClientInv
<1>2. ASSUME ClientInv, UNCHANGED clientVars PROVE ClientInv'
  <2> USE <1>2 DEF clientVars, wire, receiver, table, callers, ClientInv
  <2>1. ClientTypeOK'
    BY DEF ClientTypeOK
  <2>3. IdsCount'
    BY DEF IdsCount, AskedFor
  <2>4. IdsApart' /\ AskedByOwner'
    BY DEF IdsApart, AskedByOwner, IsOf
  <2>2. Delivered' /\ ReadItsOwn' /\ PendingIsAwaited' /\ NoneForgotten'
    BY DEF Delivered, Heard, ReadItsOwn, PendingIsAwaited, NoneForgotten
  <2> QED
    BY <2>1, <2>2, <2>3, <2>4
<1> QED
  BY <1>1, <1>2

(* What else the callers can rely on: only a stream that is lost or closed  *)
(* is told of as lost.                                                      *)
Linked == link \in {"none", "up"}
LossTold ==
  Linked => /\ incoming \in Seq(Letters \union {Noise})
            /\ reader \in {"receiving", "dispatching"}
            /\ \A i \in Ids : mailbox[i] # <<Gone>>

LEMMA ClientsStartConnected == ClientInit => LossTold
  BY DEF ClientInit, LossTold

LEMMA LossStaysTold ==
  ClientInv /\ LossTold /\ [ClientNext]_clientVars => LossTold'
<1> SUFFICES ASSUME ClientInv, LossTold, [ClientNext]_clientVars, Linked'
             PROVE  /\ incoming' \in Seq(Letters \union {Noise})
                    /\ reader' \in {"receiving", "dispatching"}
                    /\ \A i \in Ids : mailbox'[i] # <<Gone>>
  BY DEF LossTold
<1> USE DEF clientVars, wire, receiver, table, callers, Linked
<1>0. /\ mailbox \in [Ids -> {<<>>} \union {<<m>> : m \in Letters \union {Gone}}]
      /\ holding \in Letters \union {Noise} /\ Gone \notin Letters
      /\ Noise # Eof /\ Eof \notin Letters
      /\ asked \union Own \subseteq Letters
  BY LettersApart DEF ClientInv, ClientTypeOK
<1>1. Linked
  BY DEF ClientNext, Caller, Register, Deliver, Sent, Abort, Read, CancelRequest,
         ServerSays, StreamLost, Loop, Receive, Dispatch, FailAll, MarkClosed,
         CloseTransport, CloseReturns
<1>2. /\ incoming \in Seq(Letters \union {Noise})
      /\ reader \in {"receiving", "dispatching"}
      /\ \A i \in Ids : mailbox[i] # <<Gone>>
  BY <1>1 DEF LossTold
<1>3. ASSUME NEW c \in Callers, Registers(c)
      PROVE  /\ UNCHANGED <<incoming, reader>>
             /\ \A i \in Ids : mailbox'[i] # <<Gone>>
  BY <1>0, <1>2, <1>3 DEF Registers
<1>4. CASE ServerSays
  BY <1>0, <1>2, <1>4 DEF ServerSays
<1>5. CASE Receive
  <2>1. mailbox' = mailbox /\ link' = link
    BY <1>5 DEF Receive
  <2>2. incoming # <<>> => /\ Head(incoming) \in Letters \union {Noise}
                           /\ Tail(incoming) \in Seq(Letters \union {Noise})
    BY <1>2, FirstAndRest
  <2>3. incoming # <<>> /\ incoming' = Tail(incoming)
    BY <1>1, <1>5 DEF Receive
  <2>4. Head(incoming) # Eof
    BY <1>0, <2>2, <2>3
  <2>5. reader' \in {"receiving", "dispatching"}
    BY <1>1, <1>2, <1>5, <2>4 DEF Receive
  <2> QED
    BY <1>2, <2>1, <2>2, <2>3, <2>5
<1>6. CASE Dispatch
  <2>1. /\ reader' = "receiving" /\ UNCHANGED incoming
        /\ holding \in Letters
    BY <1>0, <1>6 DEF Dispatch, ClientInv, Delivered
  <2>2. \A i \in Ids : mailbox'[i] = mailbox[i] \/ mailbox'[i] = <<holding>>
    BY <1>0, <1>6 DEF Dispatch
  <2>3. <<holding>> # <<Gone>>
    BY <1>0, <2>1
  <2> QED
    BY <1>2, <2>1, <2>2, <2>3
<1>7. CASE UNCHANGED <<incoming, reader, mailbox>>
  BY <1>2, <1>7
<1>8. \/ \E c \in Callers : Registers(c)
      \/ ServerSays \/ Receive \/ Dispatch \/ UNCHANGED <<incoming, reader, mailbox>>
  BY <1>2 DEF ClientNext, Caller, Register, Registers, NextId, Deliver, Sent, Abort,
         Read, CancelRequest, StreamLost, Loop, FailAll, MarkClosed,
         CloseTransport, CloseReturns
<1> QED
  BY <1>2, <1>3, <1>4, <1>5, <1>6, <1>7, <1>8

(* The client as its callers see it.                                        *)
Stage == [c \in Callers |-> IF pc[c] = "sending" THEN "asking"
                            ELSE IF pc[c] = "waiting" THEN "asked" ELSE pc[c]]
Served == {<<m.by, m.page>> : m \in asked}
Answered == [c \in Callers |-> IF got[c] = Noise THEN 0 ELSE got[c].page]
Lost == link \in {"ended", "closed"}
exchangeVars ==
  <<Stage, page, Served, Answered, spoke, callDone, Lost, closer # "open">>

LEMMA ExchangeStarts == ClientInit => Exchange!Init
<1> SUFFICES ASSUME ClientInit PROVE Exchange!Init
  OBVIOUS
<1>1. Stage = [c \in Callers |-> "idle"] /\ Served = {}
  BY DEF ClientInit, Stage, Served
<1>2. Answered = [c \in Callers |-> 0]
  BY DEF ClientInit, Answered
<1>3. Lost = FALSE /\ (closer # "open") = FALSE
  BY DEF ClientInit, Lost
<1> QED
  BY <1>1, <1>2, <1>3
     DEF ClientInit, Exchange!Init, Stage, Served, Answered, Lost

LEMMA StageMoves ==
  ASSUME pc \in [Callers -> {"idle", "sending", "waiting", "done"}],
         NEW c \in Callers, NEW p, pc' = [pc EXCEPT ![c] = p],
         NEW s, s = (IF p = "sending" THEN "asking"
                     ELSE IF p = "waiting" THEN "asked" ELSE p)
  PROVE  Stage' = [Stage EXCEPT ![c] = s]
  BY DEF Stage

(* Each step of the client is one of the exchange, or is not seen there.    *)
LEMMA ClientIsExchange ==
  ClientInv /\ LossTold /\ [ClientNext]_clientVars
    => [Exchange!Next]_exchangeVars
<1> SUFFICES ASSUME ClientInv, LossTold, [ClientNext]_clientVars
             PROVE  Exchange!Next \/ UNCHANGED exchangeVars
  BY DEF exchangeVars
<1> USE DEF wire, receiver, table, callers
<1>0. /\ pc \in [Callers -> {"idle", "sending", "waiting", "done"}]
      /\ got \in [Callers -> Letters \union {Noise}]
      /\ page \in [Callers -> Nat] /\ callDone \in [Callers -> BOOLEAN]
      /\ asked \subseteq Requests /\ Noise \notin Letters
  <2>1. /\ page \in [Callers -> 0 .. MaxPages] /\ 0 .. MaxPages \subseteq Nat
    BY LettersApart DEF ClientInv, ClientTypeOK
  <2>2. page \in [Callers -> Nat]
    BY <2>1
  <2> QED
    BY <2>2, LettersApart DEF ClientInv, ClientTypeOK
<1>u. ASSUME UNCHANGED <<asked, got, page, callDone, link, closer>>
      PROVE  UNCHANGED <<Served, Answered, page, callDone, Lost, closer # "open">>
  BY <1>u DEF Served, Answered, Lost
<1>1. ASSUME NEW c \in Callers, Register(c) PROVE Exchange!Next
  <2>1. UNCHANGED <<Served, Answered, spoke, callDone, Lost, closer # "open">>
    BY <1>1 DEF Register, Served, Answered, Lost
  <2>2. pc[c] = "idle" /\ Stage[c] = "idle"
    BY <1>0, <1>1 DEF Register, Stage
  <2>3. CASE closer = "open" /\ page' = [page EXCEPT ![c] = @ + 1]
                             /\ pc' = [pc EXCEPT ![c] = "sending"]
    <3>1. Stage' = [Stage EXCEPT ![c] = "asking"]
      BY <1>0, <2>3, StageMoves
    <3>2. Exchange!Ask(c)
      BY <2>1, <2>2, <2>3, <3>1
         DEF Exchange!Ask, Stage, Served, Answered, Lost
    <3> QED
      BY <3>2 DEF Exchange!Next
  <2>4. CASE closer # "open" /\ Finished(c) /\ page' = page
    <3>1. Stage' = [Stage EXCEPT ![c] = "done"]
      BY <1>0, <2>4, StageMoves DEF Finished
    <3>2. Exchange!Refuse(c)
      BY <2>1, <2>2, <2>4, <3>1
         DEF Exchange!Refuse, Stage, Served, Answered, Lost
    <3> QED
      BY <3>2 DEF Exchange!Next
  <2> QED
    BY <1>1, <2>3, <2>4 DEF Register
<1>2. ASSUME NEW c \in Callers, Deliver(c) PROVE Exchange!Next
  <2>1. /\ pc[c] = "sending" /\ asked' = asked \union {Request(c)}
        /\ UNCHANGED <<pc, got, page, spoke, callDone, link, closer>>
    BY <1>2 DEF Deliver
  <2>2. UNCHANGED <<Stage, Answered, Lost, closer # "open">> /\ Stage[c] = "asking"
    BY <2>1 DEF Stage, Answered, Lost
  <2>3. Served' = Served \union {<<c, page[c]>>}
    <3> DEFINE r == Request(c)
    <3>1. asked' = asked \union {r} /\ r.by = c /\ r.page = page[c]
      BY <2>1 DEF Request
    <3> HIDE DEF r
    <3>2. {<<m.by, m.page>> : m \in asked \union {r}}
            = {<<m.by, m.page>> : m \in asked} \union {<<r.by, r.page>>}
      OBVIOUS
    <3> QED
      BY <3>1, <3>2 DEF Served
  <2>4. Exchange!Serve(c)
    BY <2>1, <2>2, <2>3
       DEF Exchange!Serve, Stage, Served, Answered, Lost
  <2> QED
    BY <2>4 DEF Exchange!Next
<1>14. ASSUME NEW c \in Callers, Sent(c) PROVE Exchange!Next
  <2>1. /\ pc[c] = "sending" /\ pc' = [pc EXCEPT ![c] = "waiting"]
        /\ UNCHANGED <<asked, got, page, spoke, callDone, link, closer>>
    BY <1>14 DEF Sent
  <2>2. <<c, page[c]>> \in Served
    <3>1. Request(c) \in asked /\ Request(c).by = c /\ Request(c).page = page[c]
      BY <1>14 DEF Sent, Request
    <3> QED
      BY <3>1 DEF Served
  <2>3. Stage' = [Stage EXCEPT ![c] = "asked"] /\ Stage[c] = "asking"
    BY <1>0, <2>1, StageMoves DEF Stage
  <2>4. Exchange!Confirm(c)
    BY <1>u, <2>1, <2>2, <2>3
       DEF Exchange!Confirm, Stage, Served, Answered, Lost
  <2> QED
    BY <2>4 DEF Exchange!Next
<1>3. ASSUME NEW c \in Callers, pc[c] \in {"sending", "waiting"}, Finished(c),
             pc[c] = "sending" \/ callDone[c] \/ Lost \/ closer # "open",
             UNCHANGED <<asked, got, page, spoke, callDone, link, closer>>
      PROVE  Exchange!Next
  <2>1. /\ Stage' = [Stage EXCEPT ![c] = "done"]
        /\ Stage[c] = IF pc[c] = "sending" THEN "asking" ELSE "asked"
    BY <1>0, <1>3, StageMoves DEF Finished, Stage
  <2>2. Exchange!Fail(c)
    BY <1>3, <1>u, <2>1
       DEF Exchange!Fail, Stage, Served, Answered, Lost
  <2> QED
    BY <2>2 DEF Exchange!Next
<1>4. ASSUME NEW c \in Callers, Abort(c) PROVE Exchange!Next
  <2>1. /\ pc[c] \in {"sending", "waiting"} /\ Finished(c)
        /\ UNCHANGED <<asked, got, page, spoke, callDone, link, closer>>
        /\ pc[c] = "waiting" => callDone[c] \/ closer # "open"
    BY <1>4 DEF Abort
  <2> QED
    BY <1>3, <2>1
<1>5. ASSUME NEW c \in Callers, ReadsAnswer(c) PROVE Exchange!Next
  <2>1. PICK m \in Letters : mailbox[myID[c]] = <<m>>
                            /\ got' = [got EXCEPT ![c] = m]
    BY <1>5 DEF ReadsAnswer
  <2>2. PICK p \in {"idle", "done"} : pc' = [pc EXCEPT ![c] = p]
    BY <1>5 DEF ReadsAnswer
  <2>3. /\ pc[c] = "waiting"
        /\ UNCHANGED <<asked, page, spoke, callDone, link, closer>>
    BY <1>5 DEF ReadsAnswer
  <2>4. UNCHANGED <<Served, Lost, closer # "open">>
    BY <2>3 DEF Served, Lost
  <2>5. Stage' = [Stage EXCEPT ![c] = p] /\ Stage[c] = "asked"
    BY <1>0, <2>2, <2>3, StageMoves DEF Stage
  <2>6. ASSUME NEW n, m.page = n PROVE Answered' = [Answered EXCEPT ![c] = n]
    <3>1. m # Noise
      BY <1>0
    <3>2. \A d \in Callers : got'[d] = IF d = c THEN m ELSE got[d]
      BY <1>0, <2>1
    <3> QED
      BY <2>6, <3>1, <3>2 DEF Answered
  <2>7. CASE m \in asked /\ IsOf(m, c)
    <3>1. <<c, page[c]>> \in Served
      BY <2>7 DEF Served, IsOf
    <3>2. Answered' = [Answered EXCEPT ![c] = page[c]]
      BY <2>6, <2>7 DEF IsOf
    <3>3. Exchange!Answer(c)
      BY <2>2, <2>3, <2>4, <2>5, <3>1, <3>2
         DEF Exchange!Answer, Stage, Served, Answered, Lost
    <3> QED
      BY <3>3 DEF Exchange!Next
  <2>8. CASE m \in Own /\ spoke
    <3>1. Answered' = [Answered EXCEPT ![c] = 0]
      BY <2>6, <2>8 DEF Own
    <3>2. Exchange!Mislead(c)
      BY <2>2, <2>3, <2>4, <2>5, <2>8, <3>1
         DEF Exchange!Mislead, Stage, Served, Answered, Lost
    <3> QED
      BY <3>2 DEF Exchange!Next
  <2> QED
    BY <2>1, <2>3, <2>7, <2>8, WhatIsRead
<1>6. ASSUME NEW c \in Callers, ReadsLoss(c) PROVE Exchange!Next
  <2>1. /\ pc[c] = "waiting" /\ mailbox[myID[c]] = <<Gone>> /\ Finished(c)
        /\ UNCHANGED <<asked, got, page, spoke, callDone, link, closer>>
    BY <1>6 DEF ReadsLoss, Finished
  <2>2. myID[c] \in Ids
    BY <2>1, EngagedAsked DEF Engaged
  <2>3. Lost
    BY <2>1, <2>2 DEF LossTold, Linked, Lost, ClientInv, ClientTypeOK
  <2> QED
    BY <1>3, <2>1, <2>3
<1>7. ASSUME NEW c \in Callers, CancelRequest(c) PROVE Exchange!Next
  <2>1. /\ callDone' = [callDone EXCEPT ![c] = TRUE]
        /\ UNCHANGED <<Stage, page, Served, Answered, spoke, Lost, closer # "open">>
    BY <1>7 DEF CancelRequest, Stage, Served, Answered, Lost
  <2>2. Exchange!GiveUp(c)
    BY <2>1 DEF Exchange!GiveUp, Stage, Served, Answered, Lost
  <2> QED
    BY <2>2 DEF Exchange!Next
<1>8. ASSUME UNCHANGED <<pc, asked, got, page, spoke, callDone, closer>>, Lost'
      PROVE  Exchange!Next
  <2>1. UNCHANGED <<Stage, Served, Answered, closer # "open">>
    BY <1>8 DEF Stage, Served, Answered
  <2>2. Exchange!Lose
    BY <1>8, <2>1 DEF Exchange!Lose, Stage, Served, Answered, Lost
  <2> QED
    BY <2>2 DEF Exchange!Next
<1>9. ASSUME UNCHANGED <<pc, asked, got, page, spoke, callDone, link>>, closer' # "open"
      PROVE  Exchange!Next
  <2>1. UNCHANGED <<Stage, Served, Answered, Lost>>
    BY <1>9 DEF Stage, Served, Answered, Lost
  <2>2. Exchange!Close
    BY <1>9, <2>1 DEF Exchange!Close, Stage, Served, Answered, Lost
  <2> QED
    BY <2>2 DEF Exchange!Next
<1>10. ASSUME UNCHANGED <<pc, asked, got, page, spoke, callDone, link, closer>>
       PROVE  UNCHANGED exchangeVars
  BY <1>10 DEF exchangeVars, Stage, Served, Answered, Lost
<1>11. \/ \E c \in Callers : \/ Register(c) \/ Deliver(c) \/ Sent(c) \/ Abort(c)
                             \/ ReadsAnswer(c) \/ ReadsLoss(c) \/ CancelRequest(c)
       \/ ServerSays \/ StreamLost \/ CloseTransport \/ MarkClosed \/ CloseReturns
       \/ UNCHANGED <<pc, asked, got, page, spoke, callDone, link, closer>>
  BY DEF ClientNext, Caller, Read, ReadsAnswer, ReadsLoss, Finished, ServerSays,
         Loop, Receive, Dispatch, FailAll, clientVars
<1>12. ASSUME StreamLost \/ CloseTransport
       PROVE  Exchange!Next
  <2>1. CASE StreamLost
    BY <1>8, <2>1 DEF StreamLost, Lost
  <2>2. CASE CloseTransport
    <3>1. /\ UNCHANGED <<pc, asked, got, page, spoke, callDone>>
          /\ closer' = "waiting" /\ closer = "marked" /\ Lost'
      BY <2>2 DEF CloseTransport, Lost
    <3>2. UNCHANGED <<Stage, Served, Answered>> /\ (closer # "open") = TRUE
          /\ (closer' # "open") = TRUE
      BY <3>1 DEF Stage, Served, Answered
    <3>3. Exchange!Lose
      BY <3>1, <3>2 DEF Exchange!Lose, Stage, Served, Answered, Lost
    <3> QED
      BY <3>3 DEF Exchange!Next
  <2> QED
    BY <1>12, <2>1, <2>2
<1>13. ASSUME MarkClosed \/ CloseReturns PROVE Exchange!Next
  BY <1>9, <1>13 DEF MarkClosed, CloseReturns
<1>15. ASSUME ServerSays PROVE Exchange!Next \/ UNCHANGED exchangeVars
  <2>1. UNCHANGED <<pc, asked, got, page, callDone, link, closer>>
    BY <1>15 DEF ServerSays
  <2>2. CASE spoke' = spoke
    BY <1>10, <2>1, <2>2
  <2>3. CASE spoke' = TRUE
    <3>1. UNCHANGED <<Stage, Served, Answered, Lost, closer # "open">>
      BY <2>1 DEF Stage, Served, Answered, Lost
    <3>2. Exchange!SpeakUnasked
      BY <2>1, <2>3, <3>1
         DEF Exchange!SpeakUnasked, Stage, Served, Answered, Lost
    <3> QED
      BY <3>2 DEF Exchange!Next
  <2>4. spoke \in BOOLEAN /\ spoke' \in BOOLEAN
    BY <1>15 DEF ServerSays, ClientInv, ClientTypeOK
  <2>5. spoke' = spoke \/ spoke' = TRUE
    BY <1>15, <2>4 DEF ServerSays
  <2> QED
    BY <2>2, <2>3, <2>5
<1> QED
  BY <1>1, <1>2, <1>4, <1>5, <1>6, <1>7, <1>10, <1>11, <1>12, <1>13, <1>14, <1>15

(* client.go:100-205: a caller reads the answer to its own request, or what *)
(* the server sent of its own under the id the caller waits for; an entry   *)
(* in the map of pending requests has a caller that waits, and a caller     *)
(* that waits has an entry or its answer, for any number of callers, pages  *)
(* and messages, and whenever the stream is lost or closed.                 *)
THEOREM CallersGetTheirAnswers ==
  ClientSpec => []ClientAnswers
<1>1. ASSUME ClientInv PROVE ClientAnswers
  <2>1. AnswerIsOwn /\ PendingIsAwaited
    BY <1>1 DEF ClientInv, ReadItsOwn, AnswerIsOwn
  <2>2. NobodyForgotten
    BY <1>1 DEF ClientInv, NoneForgotten, NobodyForgotten, Engaged
  <2> QED
    BY <2>1, <2>2 DEF ClientAnswers
<1> QED
  BY <1>1, ClientStarts, ClientGoesOn, PTL DEF ClientSpec

(* client.go:100-233: for any number of callers, pages and messages, a      *)
(* client implements the exchange its callers know: whatever the server     *)
(* says, late, twice or out of order, and whenever the stream is lost or    *)
(* closed, an operation ends with the answer to its own request, which the  *)
(* server received, or with an error: for any cause while it is sent, and   *)
(* for a reason of its own side once it was.  What a server sends of its    *)
(* own may be taken for the answer.                                         *)
THEOREM ClientsImplementExchange == ClientSpec => ImplementsExchange
<1> DEFINE exchange ==
             <<[c \in Callers |-> IF pc[c] = "sending" THEN "asking"
                                  ELSE IF pc[c] = "waiting" THEN "asked"
                                  ELSE pc[c]],
               page, {<<m.by, m.page>> : m \in asked},
               [c \in Callers |-> IF got[c] = Noise THEN 0 ELSE got[c].page],
               spoke, callDone, link \in {"ended", "closed"}, closer # "open">>
           I == ClientInv /\ LossTold
<1>1. ClientInit => I /\ Exchange!Init
  BY ClientStarts, ClientsStartConnected, ExchangeStarts
<1>2. I /\ [ClientNext]_clientVars => I'
  BY ClientGoesOn, LossStaysTold
<1>3. I /\ [ClientNext]_clientVars => [Exchange!Next]_exchange
  BY ClientIsExchange DEF exchangeVars, Stage, Served, Answered, Lost
<1> HIDE DEF I
<1> QED
  BY <1>1, <1>2, <1>3, PTL DEF ClientSpec, ImplementsExchange, Exchange!Spec

-----------------------------------------------------------------------------
(* The cron engine (internal/cron/engine.go).  *)

Told == wake = 1 \/ owed # {}

(* What the loop found due it launches before it looks again, and the       *)
(* earliest next run it noted is the earliest, or it is about to be told.   *)
LoopKnows ==
  /\ loop # "arm" => ready = {}
  /\ loop = "arm" =>
       \A j \in added :
         \/ nextRun[j] = Zero \/ Told
         \/ earliest # Zero /\ earliest <= nextRun[j]

(* How often a job was found due: it was launched, or is about to be.       *)
Found(j) == launches[j] + IF j \in ready THEN 1 ELSE 0

(* Each time took a period, and the next run is a period after the last.    *)
PeriodsPass ==
  \A j \in Jobs : plan[j].every > 0 =>
    /\ Found(j) * plan[j].every < now
    /\ j \in added => Found(j) * plan[j].every + plan[j].every < nextRun[j]

(* Each time took a match of its own, before the next run.                  *)
Lasting(j) == plan[j].every = 0 /\ \E x \in plan[j].at : x > LastTick
Past(j) == {x \in plan[j].at : x <= now /\ x < nextRun[j]}
MatchesPass ==
  \A j \in Jobs : Lasting(j) =>
    /\ j \notin added => Found(j) = 0
    /\ j \in added => nextRun[j] \in plan[j].at /\ Found(j) <= Cardinality(Past(j))

(* Only a stopped engine is closed, and only one that was on has a loop.    *)
StopsOnce ==
  /\ closed <=> stopper # "no"
  /\ loop # "off" => running \/ closed

CronInv ==
  /\ CronTypeOK /\ LoopKnows /\ PeriodsPass /\ MatchesPass /\ StopsOnce
  /\ SleepsNoLongerThanDue /\ StopIsFinal

(* The helpers.  *)
LEMMA LeastIs ==
  ASSUME NEW S, S \subseteq Nat, S # {}
  PROVE  Least(S) \in S /\ \A y \in S : Least(S) <= y
<1>1. \E x \in S : \A y \in S : ~ (<<y, x>> \in OpToRel(<, Nat))
  BY WFMin, NatLessThanWellFounded
<1>2. PICK x \in S : \A y \in S : ~ (<<y, x>> \in OpToRel(<, Nat))
  BY <1>1
<1>3. \A y \in S : x <= y
  <2>1. OpToRel(<, Nat) = {p \in Nat \X Nat : p[1] < p[2]}
    BY DEF OpToRel
  <2>2. ASSUME NEW y \in S PROVE ~ (y < x)
    <3>1. <<y, x>> \in Nat \X Nat /\ ~ (<<y, x>> \in OpToRel(<, Nat))
      BY <1>2
    <3> QED
      BY <2>1, <3>1
  <2> QED
    BY <2>2
<1> QED
  BY <1>3 DEF Least

LEMMA NextPeriod ==
  ASSUME NEW n \in Nat, NEW e \in Nat
  PROVE  n * e \in Nat /\ (n + 1) * e = n * e + e
  BY SMT

LEMMA PlanIs ==
  ASSUME CronTypeOK, NEW j \in Jobs
  PROVE  plan[j].every \in Nat /\ plan[j].at \subseteq Nat \ {0}
  BY EngineAssumption DEF CronTypeOK

LEMMA ScheduledIs ==
  ASSUME CronTypeOK, NEW j \in Jobs, NEW t \in Nat
  PROVE  /\ Scheduled(j, t) \in Nat
         /\ plan[j].every > 0 => Scheduled(j, t) = t + plan[j].every
         /\ (plan[j].every = 0 /\ \E x \in plan[j].at : x > t) =>
              Scheduled(j, t) \in plan[j].at /\ Scheduled(j, t) > t
<1> DEFINE later == {x \in plan[j].at : x > t}
<1>1. plan[j].every \in Nat /\ plan[j].at \subseteq Nat \ {0}
  BY PlanIs
<1>2. later \subseteq Nat /\ \A x \in later : x \in plan[j].at /\ x > t
  BY <1>1
<1>3. later # {} => Least(later) \in later
  BY <1>2, LeastIs
<1> QED
  BY <1>1, <1>2, <1>3 DEF Scheduled, Zero

LEMMA FiniteUpTo ==
  ASSUME NEW n \in Nat
  PROVE  IsFiniteSet(1 .. n)
  BY FS_Interval

(* The matches a job has had are finitely many.  *)
LEMMA PastIsFinite ==
  ASSUME CronTypeOK, NEW j \in Jobs
  PROVE  /\ IsFiniteSet({x \in plan[j].at : x <= now})
         /\ IsFiniteSet(Past(j)) /\ Cardinality(Past(j)) \in Nat
         /\ Cardinality(Past(j)) <= Cardinality({x \in plan[j].at : x <= now})
<1>1. now \in Nat /\ IsFiniteSet(1 .. now)
  BY EngineAssumption, FiniteUpTo DEF CronTypeOK
<1>2. {x \in plan[j].at : x <= now} \subseteq 1 .. now
  BY <1>1, PlanIs
<1>3. Past(j) \subseteq {x \in plan[j].at : x <= now}
  BY DEF Past
<1> QED
  BY <1>1, <1>2, <1>3, FS_Subset, FS_CardinalityType

LEMMA FoundCounts ==
  ASSUME CronTypeOK, NEW j \in Jobs
  PROVE  /\ launches[j] \in Nat /\ Found(j) \in Nat
         /\ j \notin ready => Found(j) = launches[j]
         /\ j \in ready => Found(j) = launches[j] + 1
  BY DEF CronTypeOK, Found

(* More matches are past when the clock is on and the next run is later.  *)
LEMMA PastGrows ==
  ASSUME CronTypeOK, CronTypeOK', NEW j \in Jobs, plan' = plan, now <= now',
         nextRun[j] <= nextRun'[j]
  PROVE  Cardinality(Past(j)) <= Cardinality(Past(j)')
<1>1. /\ plan[j].at \subseteq Nat
      /\ now \in Nat /\ now' \in Nat
      /\ nextRun[j] \in Nat /\ nextRun'[j] \in Nat
  BY PlanIs, EngineAssumption DEF CronTypeOK
<1>2. Past(j) \subseteq Past(j)'
  BY <1>1 DEF Past
<1>3. IsFiniteSet({x \in plan'[j].at : x <= now'})
  <2>1. plan'[j].at \subseteq Nat \ {0}
    BY PlanIs
  <2>2. {x \in plan'[j].at : x <= now'} \subseteq 1 .. now'
    BY <1>1, <2>1
  <2>3. IsFiniteSet(1 .. now')
    BY <1>1, FiniteUpTo
  <2> QED
    BY <2>2, <2>3, FS_Subset
<1>4. Past(j)' \subseteq {x \in plan'[j].at : x <= now'}
  BY DEF Past
<1> QED
  BY <1>2, <1>3, <1>4, FS_Subset

LEMMA CronTypesStay ==
  ASSUME CronInv, [CronNext]_cronVars
  PROVE  CronTypeOK'
<1> USE EngineAssumption
    DEF CronInv, CronTypeOK, cronVars, jobVars, loopVars, runVars, lifeVars
<1>1. ASSUME NEW j \in Jobs, AddJob(j) PROVE CronTypeOK'
  <2>1. Scheduled(j, now) \in Nat
    BY ScheduledIs
  <2> QED
    BY <1>1, <2>1 DEF AddJob
<1>2. ASSUME NEW j \in Jobs, TriggerWake(j) PROVE CronTypeOK'
  BY <1>2 DEF TriggerWake
<1>3. ASSUME NEW j \in Jobs, RunEnds(j) PROVE CronTypeOK'
  BY <1>3 DEF RunEnds
<1>4. ASSUME Scan PROVE CronTypeOK'
  <2>1. \A j \in Jobs : Scheduled(j, now) \in Nat /\ Asked(j) \in Nat
    BY ScheduledIs DEF Asked
  <2>2. nextRun' \in [Jobs -> Nat]
    BY <1>4, <2>1 DEF Scan, Zero
  <2>3. earliest' \in Nat
    <3> DEFINE times == {nextRun'[j] : j \in added} \ {Zero}
    <3>1. times \subseteq Nat
      BY <2>2
    <3>2. times # {} => Least(times) \in Nat
      BY <3>1, LeastIs
    <3> QED
      BY <1>4, <3>2 DEF Scan, Zero
  <2>4. ready' \subseteq added'
    BY <1>4 DEF Scan, Due
  <2> QED
    BY <1>4, <2>2, <2>3, <2>4 DEF Scan
<1>5. ASSUME Arm PROVE CronTypeOK'
  BY <1>5 DEF Arm, Zero
<1>6. ASSUME Select PROVE CronTypeOK'
  BY <1>6 DEF Select, LeaveLoop, TakeWake, TimerFires
<1>7. ASSUME StartEngine \/ Interrupt \/ StopEngine \/ StopReturns
      PROVE  CronTypeOK'
  BY <1>7 DEF StartEngine, Interrupt, StopEngine, StopReturns
<1>8. ASSUME Tick PROVE CronTypeOK'
  BY <1>8 DEF Tick
<1>9. ASSUME UNCHANGED cronVars PROVE CronTypeOK'
  BY <1>9
<1> QED
  BY <1>1, <1>2, <1>3, <1>4, <1>5, <1>6, <1>7, <1>8, <1>9 DEF CronNext

LEMMA StopStaysOnce ==
  ASSUME CronInv, [CronNext]_cronVars
  PROVE  StopsOnce'
  BY DEF CronInv, CronTypeOK, StopsOnce, CronNext, cronVars, jobVars,
         loopVars, runVars, lifeVars, AddJob, TriggerWake, RunEnds,
         StartEngine, Scan, Arm, Select, LeaveLoop, TakeWake, TimerFires,
         Interrupt, StopEngine, StopReturns, Tick

(* What the loop knows changes by AddJob, Scan and the launch only.  *)
LEMMA LoopGoesOnKnowing ==
  ASSUME CronInv, [CronNext]_cronVars
  PROVE  LoopKnows'
<1>1. CronTypeOK /\ CronTypeOK'
  BY CronTypesStay DEF CronInv
<1>2. ASSUME NEW j \in Jobs, AddJob(j) PROVE LoopKnows'
  BY <1>2 DEF AddJob, CronInv, LoopKnows, Told, loopVars
<1>3. ASSUME NEW j \in Jobs, TriggerWake(j) PROVE LoopKnows'
  BY <1>3 DEF TriggerWake, CronInv, LoopKnows, Told, loopVars
<1>4. ASSUME Scan PROVE LoopKnows'
  <2> DEFINE times == {nextRun'[j] : j \in added} \ {Zero}
  <2>1. earliest' = IF times = {} THEN Zero ELSE Least(times)
    BY <1>4 DEF Scan
  <2>2. times \subseteq Nat /\ Zero \notin times
    BY <1>1, <1>4 DEF Scan, CronTypeOK
  <2>3. ASSUME NEW j \in added, nextRun'[j] # Zero
        PROVE  earliest' # Zero /\ earliest' <= nextRun'[j]
    <3>1. nextRun'[j] \in times
      BY <2>3
    <3>2. Least(times) \in times /\ \A t \in times : Least(times) <= t
      BY <2>2, <3>1, LeastIs
    <3> QED
      BY <2>1, <2>2, <3>1, <3>2
  <2>4. added' = added /\ loop' = "arm"
    BY <1>4 DEF Scan
  <2> HIDE DEF times
  <2> QED
    BY <2>3, <2>4 DEF LoopKnows
<1>5. ASSUME Arm PROVE LoopKnows'
  BY <1>5 DEF Arm, LoopKnows
<1>6. ASSUME Select PROVE LoopKnows'
  BY <1>6 DEF Select, LeaveLoop, TakeWake, TimerFires, CronInv, LoopKnows
<1>7. ASSUME StartEngine PROVE LoopKnows'
  BY <1>1, <1>7 DEF StartEngine, CronInv, LoopKnows, StopsOnce
<1>8. ASSUME \/ \E j \in Jobs : RunEnds(j)
             \/ Interrupt \/ StopEngine \/ StopReturns \/ Tick
             \/ UNCHANGED cronVars
      PROVE  LoopKnows'
  <2>1. UNCHANGED <<loop, ready, earliest, added, nextRun, wake, owed>>
    BY <1>8 DEF RunEnds, Interrupt, StopEngine, StopReturns, Tick,
                cronVars, loopVars, jobVars
  <2> QED
    BY <2>1 DEF CronInv, LoopKnows, Told
<1> QED
  BY <1>2, <1>3, <1>4, <1>5, <1>6, <1>7, <1>8 DEF CronNext

(* The timer is set to what the loop knows; later jobs tell the loop.  *)
LEMMA TimerStaysInTime ==
  ASSUME CronInv, [CronNext]_cronVars
  PROVE  SleepsNoLongerThanDue'
<1>1. CronTypeOK /\ CronTypeOK'
  BY CronTypesStay DEF CronInv
<1>2. ASSUME NEW j \in Jobs, AddJob(j) PROVE SleepsNoLongerThanDue'
  BY <1>2 DEF AddJob, SleepsNoLongerThanDue
<1>3. ASSUME NEW j \in Jobs, TriggerWake(j) PROVE SleepsNoLongerThanDue'
  BY <1>3 DEF TriggerWake, SleepsNoLongerThanDue
<1>4. ASSUME Arm PROVE SleepsNoLongerThanDue'
  <2> SUFFICES ASSUME NEW j \in added, nextRun[j] # Zero, ~ Told
               PROVE  timer' <= nextRun[j] \/ timer' <= now
    BY <1>4 DEF Arm, SleepsNoLongerThanDue, jobVars, Told
  <2>1. earliest # Zero /\ earliest <= nextRun[j]
    BY <1>4 DEF Arm, CronInv, LoopKnows
  <2>2. now \in Nat /\ earliest \in Nat /\ nextRun[j] \in Nat
    BY <1>1, EngineAssumption DEF CronTypeOK
  <2> QED
    BY <1>4, <2>1, <2>2 DEF Arm
<1>5. ASSUME Tick PROVE SleepsNoLongerThanDue'
  <2>1. now \in Nat /\ timer \in Nat
    BY <1>1, EngineAssumption DEF CronTypeOK
  <2> QED
    BY <1>5, <2>1
       DEF Tick, CronInv, SleepsNoLongerThanDue, jobVars, loopVars
<1>6. ASSUME Scan \/ Select \/ StartEngine PROVE SleepsNoLongerThanDue'
  <2>1. loop' # "wait"
    BY <1>6 DEF Scan, Select, LeaveLoop, TakeWake, TimerFires, StartEngine
  <2> QED
    BY <2>1 DEF SleepsNoLongerThanDue
<1>7. ASSUME \/ \E j \in Jobs : RunEnds(j)
             \/ Interrupt \/ StopEngine \/ StopReturns
             \/ UNCHANGED cronVars
      PROVE  SleepsNoLongerThanDue'
  <2>1. UNCHANGED <<loop, timer, now, added, nextRun, wake, owed>>
    BY <1>7 DEF RunEnds, Interrupt, StopEngine, StopReturns,
                cronVars, loopVars, jobVars
  <2> QED
    BY <2>1 DEF CronInv, SleepsNoLongerThanDue
<1> QED
  BY <1>2, <1>3, <1>4, <1>5, <1>6, <1>7 DEF CronNext

LEMMA StopStaysFinal ==
  ASSUME CronInv, [CronNext]_cronVars
  PROVE  StopIsFinal'
<1> USE DEF CronInv, CronTypeOK, StopIsFinal, StopsOnce
<1>1. ASSUME NEW j \in Jobs, RunEnds(j) PROVE StopIsFinal'
  BY <1>1 DEF RunEnds, loopVars, lifeVars
<1>2. ASSUME Arm \/ Scan \/ Select PROVE StopIsFinal'
  BY <1>2 DEF Arm, Scan, Select, LeaveLoop, TakeWake, TimerFires, lifeVars
<1>3. ASSUME StartEngine \/ StopEngine \/ StopReturns PROVE StopIsFinal'
  BY <1>3 DEF StartEngine, StopEngine, StopReturns, runVars, loopVars
<1>4. ASSUME \/ \E j \in Jobs : AddJob(j) \/ TriggerWake(j)
             \/ Interrupt \/ Tick \/ UNCHANGED cronVars
      PROVE  StopIsFinal'
  BY <1>4 DEF AddJob, TriggerWake, Interrupt, Tick, cronVars, loopVars,
              runVars, lifeVars
<1> QED
  BY <1>1, <1>2, <1>3, <1>4 DEF CronNext

(* The next run of a job changes by AddJob, and by the pass that finds it   *)
(* due: no other step counts as finding it.                                 *)
LEMMA OthersFindNothing ==
  ASSUME CronInv, [CronNext]_cronVars, ~ Scan,
         \A j \in Jobs : ~ AddJob(j)
  PROVE  /\ UNCHANGED <<plan, added, nextRun>> /\ now <= now'
         /\ \A j \in Jobs : Found(j)' = Found(j)
<1>1. CronTypeOK /\ (loop # "arm" => ready = {})
  BY DEF CronInv, LoopKnows
<1>2. now \in Nat
  BY <1>1, EngineAssumption DEF CronTypeOK
<1>3. ASSUME Arm
      PROVE  /\ UNCHANGED <<plan, added, nextRun, now>>
             /\ \A j \in Jobs : Found(j)' = Found(j)
  <2>1. \A j \in Jobs : launches[j] \in Nat
    BY <1>1 DEF CronTypeOK
  <2> QED
    BY <1>3, <2>1 DEF Arm, Found, jobVars
<1>4. ASSUME ~ Arm
      PROVE  UNCHANGED <<plan, added, nextRun, launches, ready>> /\ now <= now'
  BY <1>2, <1>4 DEF CronNext, cronVars, jobVars, loopVars, runVars, lifeVars,
       TriggerWake, RunEnds, StartEngine, Select, Interrupt, StopEngine,
       StopReturns, Tick
<1> QED
  BY <1>2, <1>3, <1>4 DEF Found

(* A new job gets its first run; the others stay.  *)
LEMMA AddingFindsNothing ==
  ASSUME CronInv, NEW i \in Jobs, AddJob(i)
  PROVE  /\ UNCHANGED <<plan, now>> /\ added' = added \union {i}
         /\ i \notin added /\ nextRun'[i] = Scheduled(i, now)
         /\ \A j \in Jobs : /\ Found(j)' = Found(j)
                            /\ j # i => nextRun'[j] = nextRun[j]
  BY DEF CronInv, CronTypeOK, AddJob, Found, loopVars, runVars

(* A pass: what is due moves on, what is not stays.  *)
LEMMA PassFinds ==
  ASSUME CronInv, Scan, NEW j \in Jobs
  PROVE  /\ UNCHANGED <<plan, now, added>>
         /\ j \notin added => Found(j)' = Found(j)
         /\ (j \in added /\ nextRun[j] # Zero /\ nextRun[j] <= now) =>
              /\ Found(j)' = Found(j) + 1
              /\ nextRun'[j] = Scheduled(j, now)
         /\ (j \in added /\ nextRun[j] # Zero /\ ~ (nextRun[j] <= now)) =>
              Found(j)' = Found(j) /\ nextRun'[j] = nextRun[j]
<1>1. CronTypeOK /\ ready = {} /\ launches[j] \in Nat
  BY DEF CronInv, LoopKnows, Scan, CronTypeOK
<1>2. /\ UNCHANGED <<plan, now, added, launches>>
      /\ ready' = Due
      /\ nextRun'[j] = IF j \in Due THEN Scheduled(j, now)
                       ELSE IF j \in added THEN Asked(j) ELSE Zero
  BY DEF Scan, runVars
<1>3. nextRun[j] # Zero => Asked(j) = nextRun[j]
  BY DEF Asked
<1>4. j \in Due <=> (j \in added /\ Asked(j) <= now)
  BY DEF Due
<1> QED
  BY <1>1, <1>2, <1>3, <1>4 DEF Found

(* A job with a period has had one for each time it was found due.  *)
LEMMA PeriodsGoOn ==
  ASSUME CronInv, [CronNext]_cronVars
  PROVE  PeriodsPass'
<1> SUFFICES ASSUME NEW j \in Jobs, plan'[j].every > 0
    PROVE  /\ Found(j)' * plan'[j].every < now'
           /\ j \in added' =>
                Found(j)' * plan'[j].every + plan'[j].every < nextRun'[j]
  BY DEF PeriodsPass
<1>1. CronTypeOK /\ CronTypeOK'
  BY CronTypesStay DEF CronInv
<1>2. plan' = plan
  BY DEF CronNext, cronVars, AddJob, TriggerWake, RunEnds, StartEngine, Scan,
         Arm, Select, Interrupt, StopEngine, StopReturns, Tick
<1>3. /\ plan[j].every \in Nat \ {0} /\ Found(j) \in Nat
      /\ now \in Nat /\ nextRun[j] \in Nat /\ now' \in Nat
  BY <1>1, <1>2, PlanIs, FoundCounts, EngineAssumption DEF CronTypeOK
<1> DEFINE e == plan[j].every
           took == Found(j) * e
<1>4. took \in Nat /\ (Found(j) + 1) * e = took + e
  BY <1>3, NextPeriod
<1>5. took < now /\ (j \in added => took + e < nextRun[j])
  BY <1>2 DEF CronInv, PeriodsPass
<1>6. Scheduled(j, now) = now + e
  BY <1>1, <1>2, <1>3, ScheduledIs
<1> HIDE DEF took
<1>7. ASSUME NEW i \in Jobs, AddJob(i)
      PROVE  /\ Found(j)' = Found(j) /\ now' = now
             /\ j \in added' => took + e < nextRun'[j]
  BY <1>3, <1>4, <1>5, <1>6, <1>7, AddingFindsNothing
<1>8. ASSUME Scan
      PROVE  /\ now' = now
             /\ \/ /\ Found(j)' = Found(j)
                   /\ j \in added' => took + e < nextRun'[j]
                \/ /\ Found(j)' = Found(j) + 1 /\ took + e < now
                   /\ nextRun'[j] = now + e
  BY <1>3, <1>4, <1>5, <1>6, <1>8, PassFinds DEF Zero
<1>9. ASSUME ~ Scan, \A i \in Jobs : ~ AddJob(i)
      PROVE  /\ UNCHANGED <<added, nextRun>> /\ now <= now'
             /\ Found(j)' = Found(j)
  BY <1>9, OthersFindNothing
<1>10. Found(j) * e = took
  BY DEF took
<1> QED
  BY <1>2, <1>3, <1>4, <1>5, <1>7, <1>8, <1>9, <1>10

(* A job that matches at given times has had one for each time it was due.  *)
LEMMA MatchesGoOn ==
  ASSUME CronInv, [CronNext]_cronVars
  PROVE  MatchesPass'
<1>1. CronTypeOK /\ CronTypeOK'
  BY CronTypesStay DEF CronInv
<1>2. plan' = plan
  BY DEF CronNext, cronVars, AddJob, TriggerWake, RunEnds, StartEngine, Scan,
         Arm, Select, Interrupt, StopEngine, StopReturns, Tick
<1> SUFFICES ASSUME NEW j \in Jobs, Lasting(j)
    PROVE  /\ j \notin added' => Found(j)' = 0
           /\ j \in added' => /\ nextRun'[j] \in plan[j].at
                              /\ Found(j)' <= Cardinality(Past(j)')
  BY <1>2 DEF MatchesPass, Lasting
<1>3. /\ j \notin added => Found(j) = 0
      /\ j \in added => /\ nextRun[j] \in plan[j].at
                        /\ Found(j) <= Cardinality(Past(j))
  BY DEF CronInv, MatchesPass
<1>4. /\ plan[j].at \subseteq Nat \ {0} /\ Found(j) \in Nat
      /\ now \in Nat /\ nextRun[j] \in Nat /\ now' \in Nat
      /\ nextRun'[j] \in Nat
  BY <1>1, PlanIs, FoundCounts, EngineAssumption DEF CronTypeOK
<1>5. Scheduled(j, now) \in plan[j].at /\ Scheduled(j, now) > now
  <2>1. plan[j].every = 0 /\ \E x \in plan[j].at : x > now
    BY <1>1, <1>4, EngineAssumption DEF Lasting, CronTypeOK
  <2> QED
    BY <1>1, <1>4, <2>1, ScheduledIs
<1>6. /\ Cardinality(Past(j)) \in Nat /\ Cardinality(Past(j)') \in Nat
      /\ IsFiniteSet(Past(j)) /\ IsFiniteSet(Past(j)')
  <2>1. Past(j)' \subseteq 1 .. now'
    BY <1>2, <1>4 DEF Past
  <2>2. IsFiniteSet(1 .. now')
    BY <1>4, FiniteUpTo
  <2>3. IsFiniteSet(Past(j)') /\ Cardinality(Past(j)') \in Nat
    BY <2>1, <2>2, FS_Subset, FS_CardinalityType
  <2> QED
    BY <1>1, <2>3, PastIsFinite
<1>7. nextRun[j] <= nextRun'[j] /\ now <= now' =>
        Cardinality(Past(j)) <= Cardinality(Past(j)')
  BY <1>1, <1>2, PastGrows
<1>8. ASSUME NEW i \in Jobs, AddJob(i)
      PROVE  /\ j \notin added' => Found(j)' = 0
             /\ j \in added' => /\ nextRun'[j] \in plan[j].at
                                /\ Found(j)' <= Cardinality(Past(j)')
  BY <1>3, <1>4, <1>5, <1>6, <1>7, <1>8, AddingFindsNothing
<1>9. ASSUME Scan
      PROVE  /\ j \notin added' => Found(j)' = 0
             /\ j \in added' => /\ nextRun'[j] \in plan[j].at
                                /\ Found(j)' <= Cardinality(Past(j)')
  <2>1. UNCHANGED <<plan, now, added>>
    BY <1>9, PassFinds
  <2>2. CASE j \notin added
    BY <1>3, <1>9, <2>1, <2>2, PassFinds
  <2>3. CASE j \in added /\ ~ (nextRun[j] <= now)
    BY <1>3, <1>4, <1>6, <1>7, <1>9, <2>1, <2>3, PassFinds DEF Zero
  <2>4. CASE j \in added /\ nextRun[j] <= now
    <3>1. Found(j)' = Found(j) + 1 /\ nextRun'[j] = Scheduled(j, now)
      BY <1>3, <1>4, <1>9, <2>4, PassFinds DEF Zero
    <3>2. Past(j) \union {nextRun[j]} \subseteq Past(j)'
      BY <1>3, <1>4, <1>5, <2>1, <2>4, <3>1 DEF Past
    <3>3. nextRun[j] \notin Past(j)
      BY <1>4 DEF Past
    <3>4. Cardinality(Past(j)) + 1 <= Cardinality(Past(j)')
      <4>1. Cardinality(Past(j) \union {nextRun[j]}) = Cardinality(Past(j)) + 1
        BY <1>6, <3>3, FS_AddElement
      <4> QED
        BY <1>6, <3>2, <4>1, FS_Subset
    <3> QED
      BY <1>3, <1>4, <1>5, <1>6, <2>1, <2>4, <3>1, <3>4
  <2> QED
    BY <2>2, <2>3, <2>4
<1>10. ASSUME ~ Scan, \A i \in Jobs : ~ AddJob(i)
       PROVE  /\ j \notin added' => Found(j)' = 0
              /\ j \in added' => /\ nextRun'[j] \in plan[j].at
                                 /\ Found(j)' <= Cardinality(Past(j)')
  <2>1. /\ UNCHANGED <<plan, added, nextRun>> /\ now <= now'
        /\ Found(j)' = Found(j)
    BY <1>10, OthersFindNothing
  <2> QED
    BY <1>3, <1>4, <1>6, <1>7, <2>1
<1> QED
  BY <1>8, <1>9, <1>10

LEMMA CronStarts == CronInit => CronInv
<1> SUFFICES ASSUME CronInit PROVE CronInv
  OBVIOUS
<1> USE EngineAssumption DEF CronInit, Zero
<1>1. CronTypeOK
  <2>1. 1 \in 1 .. LastTick
    BY SMT
  <2>2. /\ {ctxDone, running, closed} \subseteq BOOLEAN
        /\ [j \in Jobs |-> 0] \in [Jobs -> Nat]
    OBVIOUS
  <2> QED
    BY <2>1, <2>2 DEF CronTypeOK
<1>2. \A j \in Jobs : Found(j) = 0
  BY DEF Found
<1>3. PeriodsPass
  <2> SUFFICES ASSUME NEW j \in Jobs
               PROVE  Found(j) * plan[j].every < now
    BY DEF PeriodsPass
  <2> QED
    BY <1>1, <1>2, PlanIs
<1>4. MatchesPass
  BY <1>2 DEF MatchesPass
<1> QED
  BY <1>1, <1>3, <1>4
     DEF CronInv, LoopKnows, StopsOnce, SleepsNoLongerThanDue, StopIsFinal

LEMMA CronGoesOn == CronInv /\ [CronNext]_cronVars => CronInv'
<1> SUFFICES ASSUME CronInv, [CronNext]_cronVars
             PROVE  CronInv'
  OBVIOUS
<1>1. CronTypeOK'
  BY CronTypesStay
<1>2. LoopKnows' /\ StopsOnce' /\ SleepsNoLongerThanDue' /\ StopIsFinal'
  BY LoopGoesOnKnowing, StopStaysOnce, TimerStaysInTime, StopStaysFinal
<1>3. PeriodsPass' /\ MatchesPass'
  BY PeriodsGoOn, MatchesGoOn
<1> QED
  BY <1>1, <1>2, <1>3 DEF CronInv

(* engine.go:119-260: the loop never sleeps past a run, a job runs at most  *)
(* once for each of its times, and when Stop returns nothing is in flight,  *)
(* for any number of jobs, any schedules, and however AddJob, wakes, the    *)
(* timer, an interrupt and Stop fall together.                              *)
THEOREM JobsRunInTime ==
  CronSpec => []CronOnTime
<1>1. ASSUME CronInv PROVE RunsOncePerDue
  <2> SUFFICES ASSUME NEW j \in Jobs
      PROVE  /\ plan[j].every > 0 => launches[j] * plan[j].every < now
             /\ Lasting(j) =>
                  launches[j] <= Cardinality({x \in plan[j].at : x <= now})
    BY DEF RunsOncePerDue, Lasting
  <2>1. CronTypeOK /\ PeriodsPass /\ MatchesPass
    BY <1>1 DEF CronInv
  <2>2. launches[j] \in Nat /\ Found(j) \in {launches[j], launches[j] + 1}
    BY <2>1, FoundCounts
  <2>3. plan[j].every \in Nat /\ now \in Nat
    BY <2>1, PlanIs, EngineAssumption DEF CronTypeOK
  <2>4. ASSUME plan[j].every > 0 PROVE launches[j] * plan[j].every < now
    <3>1. Found(j) * plan[j].every < now
      BY <2>1, <2>4 DEF PeriodsPass
    <3>2. /\ launches[j] * plan[j].every \in Nat
          /\ (launches[j] + 1) * plan[j].every
               = launches[j] * plan[j].every + plan[j].every
      BY <2>2, <2>3, NextPeriod
    <3> QED
      BY <2>2, <2>3, <3>1, <3>2
  <2>5. ASSUME Lasting(j)
        PROVE  launches[j] <= Cardinality({x \in plan[j].at : x <= now})
    <3>1. /\ Cardinality(Past(j)) \in Nat
          /\ Cardinality(Past(j))
               <= Cardinality({x \in plan[j].at : x <= now})
          /\ Cardinality({x \in plan[j].at : x <= now}) \in Nat
      BY <2>1, PastIsFinite, FS_CardinalityType
    <3>2. Found(j) <= Cardinality(Past(j))
      <4>1. /\ j \notin added => Found(j) = 0
            /\ j \in added => Found(j) <= Cardinality(Past(j))
        BY <2>1, <2>5 DEF MatchesPass
      <4> QED
        BY <3>1, <4>1
    <3> QED
      BY <2>2, <3>1, <3>2
  <2> QED
    BY <2>4, <2>5
<1>2. CronInv => CronOnTime
  BY <1>1 DEF CronInv, CronOnTime
<1> QED
  BY <1>2, CronStarts, CronGoesOn, PTL DEF CronSpec

-----------------------------------------------------------------------------
(* The three beside each other, as the run has them: whichever a behaviour  *)
(* is about, all of them keep their types; no id, client number, count of   *)
(* uses or time leaves its range (manager.go, client.go, engine.go).        *)
THEOREM BackgroundKeepsTypes == BackgroundSpec => []BackgroundTypeOK
<1> DEFINE I == CronInv /\ ClientInv /\ ManagerInv
<1>1. BackgroundInit => I
  BY CronStarts, ClientStarts, ManagerStarts DEF BackgroundInit
<1>2. ASSUME I, [BackgroundNext]_<<part, cronVars, clientVars, managerVars>>
      PROVE  I'
  <2>1. /\ [CronNext]_cronVars /\ [ClientNext]_clientVars
        /\ [ManagerNext]_managerVars
    BY <1>2 DEF BackgroundNext
  <2> QED
    BY <1>2, <2>1, CronGoesOn, ClientGoesOn, ManagerGoesOn
<1>3. I => BackgroundTypeOK
  BY DEF CronInv, ClientInv, ManagerInv, BackgroundTypeOK
<1> HIDE DEF I
<1> QED
  BY <1>1, <1>2, <1>3, PTL DEF BackgroundSpec

(* The parts keep beside each other what each keeps for itself: jobs run in *)
(* time (engine.go), callers get their answers, as an exchange promises     *)
(* them (client.go), and sessions are accounted for (manager.go).           *)
THEOREM BackgroundHolds ==
  BackgroundSpec => /\ [](CronOnTime /\ ClientAnswers /\ SessionsAccountedFor)
                    /\ ImplementsExchange
<1>1. BackgroundInit => CronInit /\ ClientInit /\ ManagerInit
  BY DEF BackgroundInit
<1>2. [BackgroundNext]_<<part, cronVars, clientVars, managerVars>> =>
        [CronNext]_cronVars /\ [ClientNext]_clientVars /\ [ManagerNext]_managerVars
  BY DEF BackgroundNext
<1>3. BackgroundSpec => CronSpec /\ ClientSpec /\ ManagerSpec
  BY <1>1, <1>2, PTL DEF BackgroundSpec, CronSpec, ClientSpec, ManagerSpec
<1> QED
  BY <1>3, JobsRunInTime, CallersGetTheirAnswers, ClientsImplementExchange,
     ServersAreAccountedFor, PTL
=============================================================================
