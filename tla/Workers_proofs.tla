--------------------------- MODULE Workers_proofs ----------------------------
(***************************************************************************)
(* What a turn waits for: the sub-agent engine (SubagentEngine), a request  *)
(* over the chain of providers (FallbackStream) and the pipes of an MCP     *)
(* server's process (StdioTransport), for any number of calls, providers,   *)
(* tokens and lines, and channels and pipes of any size.                    *)
(***************************************************************************)
EXTENDS MCWorkers, SequenceLemmas

-----------------------------------------------------------------------------
(* The engine (internal/subagents/engine.go).  For every set of calls and    *)
(* every configuration its semaphore counts its holders, nested calls stay  *)
(* inside their callers, no child runs below depth 2, and the engine        *)
(* implements the bounded pool.                                             *)

(* Only a call that passed the depth check is in flight. *)
DepthBelowLimit == \A c \in InFlight : depth[c] < DepthLimit

IInv == TypeOK /\ SlotsMatchHolders /\ NestedInsideCaller /\ DepthBelowLimit

(* The clamps keep the capacity in 1..10 and the depth limit in 1..2. *)
LEMMA Clamped == Capacity \in 1 .. 10 /\ DepthLimit \in 1 .. 2
  BY EngineAssumption DEF EngineAssumption, Capacity, DepthLimit

(* The holders are finitely many. *)
LEMMA HoldersFinite == IsFiniteSet(Holders) /\ Cardinality(Holders) \in Nat
<1>1. Holders \subseteq Calls
  BY DEF Holders
<1>2. IsFiniteSet(Calls)
  BY EngineAssumption DEF EngineAssumption
<1>3. IsFiniteSet(Holders)
  BY <1>1, <1>2, FS_Subset
<1>. QED
  BY <1>3, FS_CardinalityType

(* One call more, or one less, among the holders moves their number by one; *)
(* the last holder leaves a positive number behind before it goes.          *)
LEMMA OneMoreHolder ==
  ASSUME NEW c \in Calls, c \notin Holders, Holders' = Holders \union {c}
  PROVE  Cardinality(Holders') = Cardinality(Holders) + 1
  BY HoldersFinite, FS_AddElement

LEMMA OneHolderLess ==
  ASSUME NEW c \in Calls, c \in Holders, Holders' = Holders \ {c}
  PROVE  /\ Cardinality(Holders') = Cardinality(Holders) - 1
         /\ Cardinality(Holders) > 0
<1>1. Cardinality(Holders \ {c}) = Cardinality(Holders) - 1
  BY HoldersFinite, FS_RemoveElement
<1>2. Cardinality(Holders) # 0
  BY HoldersFinite, FS_EmptySet
<1>. QED
  BY <1>1, <1>2, HoldersFinite

LEMMA InitEstablishes == Init => IInv
<1>. SUFFICES ASSUME Init PROVE IInv
  OBVIOUS
<1>1. Holders = {} /\ InFlight = {}
  BY DEF Init, Holders, InFlight
<1>2. TypeOK
  BY Clamped DEF Init, TypeOK, Places, Results, Learnt, ContextDepths
<1>3. SlotsMatchHolders
  BY <1>1, FS_EmptySet DEF Init, SlotsMatchHolders
<1>. QED
  BY <1>1, <1>2, <1>3 DEF IInv, NestedInsideCaller, DepthBelowLimit

(* Entering the select, or being turned away at the door, moves no slot. *)
LEMMA EnterKeepsHolders ==
  ASSUME TypeOK, NEW c \in Calls, NEW d, NEW p, NEW blank,
         Enter(c, d, p, blank)
  PROVE  Holders' = Holders
<1>1. pc[c] = "idle" /\ pc' \in {[pc EXCEPT ![c] = "select"],
                                 [pc EXCEPT ![c] = "returned"]}
  BY DEF Enter, Leave
<1>. QED
  BY <1>1 DEF Holders, TypeOK

LEMMA LeaveKeepsTypes ==
  ASSUME TypeOK, NEW c \in Calls, NEW r \in Results, Leave(c, r)
  PROVE  /\ pc' \in [Calls -> Places]
         /\ caller' \in [Calls -> Calls \union {Outside}]
         /\ depth' \in [Calls -> ContextDepths]
         /\ expired' \in [Calls -> BOOLEAN]
         /\ result' \in [Calls -> Results]
  BY DEF Leave, TypeOK, Places, ContextDepths

(* A call that no nested call depends on may leave. *)
LEMMA LeaveKeepsNesting ==
  ASSUME TypeOK, NestedInsideCaller, DepthBelowLimit,
         NEW c \in Calls, NEW r, Leave(c, r), NestedOf(c) = {}
  PROVE  NestedInsideCaller' /\ DepthBelowLimit'
<1>1. InFlight' \subseteq InFlight \ {c}
  BY DEF Leave, InFlight, TypeOK
<1>2. \A k \in Calls \ {c} : /\ pc'[k] = pc[k] /\ depth'[k] = depth[k]
                             /\ caller'[k] = caller[k]
  BY DEF Leave, TypeOK
<1>3. \A n \in InFlight : caller[n] # c
  BY DEF NestedOf
<1>4. InFlight \subseteq Calls /\ \A n \in InFlight : caller[n] \in Calls \union {Outside}
  BY DEF InFlight, TypeOK
<1>. QED
  BY <1>1, <1>2, <1>3, <1>4 DEF NestedInsideCaller, DepthBelowLimit

(* Only a call in its child's turn has nested calls. *)
LEMMA NestedOnlyInStep ==
  ASSUME NestedInsideCaller, NEW c \in Calls, pc[c] # "step"
  PROVE  NestedOf(c) = {}
  BY EngineAssumption
     DEF NestedInsideCaller, NestedOf, InFlight, EngineAssumption

THEOREM InvariantKept == IInv /\ [Next]_vars => IInv'
<1>. SUFFICES ASSUME IInv, [Next]_vars PROVE IInv'
  OBVIOUS
<1>. USE Clamped DEF IInv
<1>0. ASSUME NEW c \in Calls, NEW d \in ContextDepths,
             NEW p \in Calls \union {Outside}, NEW blank, Enter(c, d, p, blank),
             p # Outside => pc[p] = "step" /\ d = depth[p] + 1
      PROVE IInv'
  <2>1. CASE Leave(c, "rejected")
    <3>1. TypeOK'
      BY <1>0, <2>1, LeaveKeepsTypes DEF Enter, TypeOK, Results
    <3>2. NestedInsideCaller' /\ DepthBelowLimit'
      BY <1>0, <2>1, NestedOnlyInStep, LeaveKeepsNesting DEF Enter
    <3>3. SlotsMatchHolders'
      BY <1>0, EnterKeepsHolders DEF SlotsMatchHolders, Enter
    <3>. QED BY <3>1, <3>2, <3>3
  <2>2. CASE ~Leave(c, "rejected")
    <3>0. /\ d < DepthLimit
          /\ pc' = [pc EXCEPT ![c] = "select"]
          /\ depth' = [depth EXCEPT ![c] = d]
          /\ caller' = [caller EXCEPT ![c] = p]
          /\ UNCHANGED <<expired, result, sem, learnt>>
          /\ pc[c] = "idle"
      BY <1>0, <2>2 DEF Enter
    <3>1. TypeOK'
      BY <3>0, <1>0 DEF TypeOK, Places
    <3>2. SlotsMatchHolders'
      BY <1>0, <3>0, EnterKeepsHolders DEF SlotsMatchHolders
    <3>3. NestedInsideCaller'
      <4>. SUFFICES ASSUME NEW n \in InFlight', caller'[n] # Outside
                    PROVE  /\ pc'[caller'[n]] = "step"
                           /\ depth'[n] = depth'[caller'[n]] + 1
        BY DEF NestedInsideCaller
      <4>1. CASE n = c
        BY <1>0, <3>0, <4>1, EngineAssumption
           DEF InFlight, TypeOK, EngineAssumption
      <4>2. CASE n # c
        BY <3>0, <4>2 DEF InFlight, NestedInsideCaller, TypeOK
      <4>. QED BY <4>1, <4>2
    <3>4. DepthBelowLimit'
      BY <3>0 DEF DepthBelowLimit, InFlight, TypeOK
    <3>. QED BY <3>1, <3>2, <3>3, <3>4
  <2>. QED BY <2>1, <2>2
<1>1. ASSUME NEW c \in Calls, SpawnFromOutside(c) PROVE IInv'
  BY <1>0, <1>1 DEF SpawnFromOutside
<1>2. ASSUME NEW c \in Calls, NEW p \in Calls, SpawnFromChild(c, p) PROVE IInv'
  <2>1. Enter(c, depth[p] + 1, p, FALSE) /\ pc[p] = "step"
    BY <1>2 DEF SpawnFromChild
  <2>2. depth[p] + 1 \in ContextDepths
    <3>1. ~(depth[p] + 1 >= DepthLimit)
      BY <1>2 DEF SpawnFromChild, MayDelegate
    <3>2. depth[p] \in 0 .. 2 /\ DepthLimit \in 1 .. 2
      BY DEF TypeOK, ContextDepths
    <3>. QED BY <3>1, <3>2 DEF ContextDepths
  <2>. QED BY <1>0, <2>1, <2>2
<1>3. ASSUME NEW c \in Calls, Acquire(c) PROVE IInv'
  <2>1. TypeOK'
    BY <1>3 DEF Acquire, TypeOK, Places
  <2>2. SlotsMatchHolders'
    <3>1. c \notin Holders /\ Holders' = Holders \union {c}
      BY <1>3 DEF Acquire, Holders, TypeOK
    <3>. QED
      BY <1>3, <3>1, OneMoreHolder DEF Acquire, SlotsMatchHolders
  <2>3. NestedInsideCaller' /\ DepthBelowLimit'
    BY <1>3 DEF Acquire, NestedInsideCaller, DepthBelowLimit, InFlight, TypeOK
  <2>. QED BY <2>1, <2>2, <2>3
<1>4. ASSUME NEW c \in Calls, GiveUp(c) PROVE IInv'
  <2>1. TypeOK'
    BY <1>4, LeaveKeepsTypes DEF GiveUp, TypeOK, Results
  <2>2. SlotsMatchHolders'
    <3>1. Holders' = Holders
      BY <1>4 DEF GiveUp, Leave, Holders, TypeOK
    <3>. QED BY <1>4, <3>1 DEF GiveUp, SlotsMatchHolders
  <2>3. NestedInsideCaller' /\ DepthBelowLimit'
    BY <1>4, NestedOnlyInStep, LeaveKeepsNesting DEF GiveUp
  <2>. QED BY <2>1, <2>2, <2>3
<1>5. ASSUME NEW c \in Calls, Expire(c) PROVE IInv'
  BY <1>5 DEF Expire, TypeOK, SlotsMatchHolders, Holders,
              NestedInsideCaller, DepthBelowLimit, InFlight
<1>6. ASSUME NEW c \in Calls, StepFails(c) PROVE IInv'
  <2>1. SlotsMatchHolders' /\ sem' \in 0 .. Capacity
    <3>1. c \in Holders /\ Holders' = Holders \ {c}
      BY <1>6 DEF StepFails, Leave, Holders, TypeOK
    <3>2. /\ Cardinality(Holders') = Cardinality(Holders) - 1
          /\ Cardinality(Holders) > 0
      BY <3>1, OneHolderLess
    <3>3. sem = Cardinality(Holders) /\ sem \in 0 .. Capacity /\ sem' = sem - 1
      BY <1>6 DEF StepFails, SlotsMatchHolders, TypeOK
    <3>. QED
      BY <3>2, <3>3 DEF SlotsMatchHolders
  <2>2. TypeOK'
    BY <1>6, <2>1, LeaveKeepsTypes DEF StepFails, TypeOK, Results
  <2>3. NestedInsideCaller' /\ DepthBelowLimit'
    BY <1>6, LeaveKeepsNesting DEF StepFails
  <2>. QED BY <2>1, <2>2, <2>3
<1>7. ASSUME NEW c \in Calls, StepReplies(c) PROVE IInv'
  <2>1. TypeOK'
    BY <1>7 DEF StepReplies, TypeOK, Places
  <2>2. SlotsMatchHolders'
    <3>1. Holders' = Holders
      BY <1>7 DEF StepReplies, Holders, TypeOK
    <3>. QED BY <1>7, <3>1 DEF StepReplies, SlotsMatchHolders
  <2>3. NestedInsideCaller' /\ DepthBelowLimit'
    BY <1>7 DEF StepReplies, NestedOf, NestedInsideCaller, DepthBelowLimit,
                InFlight, TypeOK
  <2>. QED BY <2>1, <2>2, <2>3
<1>8. ASSUME NEW c \in Calls, Distil(c) PROVE IInv'
  <2>1. SlotsMatchHolders' /\ sem' \in 0 .. Capacity
    <3>1. c \in Holders /\ Holders' = Holders \ {c}
      BY <1>8 DEF Distil, Leave, Holders, TypeOK
    <3>2. /\ Cardinality(Holders') = Cardinality(Holders) - 1
          /\ Cardinality(Holders) > 0
      BY <3>1, OneHolderLess
    <3>3. sem = Cardinality(Holders) /\ sem \in 0 .. Capacity /\ sem' = sem - 1
      BY <1>8 DEF Distil, SlotsMatchHolders, TypeOK
    <3>. QED
      BY <3>2, <3>3 DEF SlotsMatchHolders
  <2>2. TypeOK'
    BY <1>8, <2>1, LeaveKeepsTypes DEF Distil, TypeOK, Results
  <2>3. NestedInsideCaller' /\ DepthBelowLimit'
    BY <1>8, NestedOnlyInStep, LeaveKeepsNesting DEF Distil
  <2>. QED BY <2>1, <2>2, <2>3
<1>9. CASE UNCHANGED vars
  BY <1>9 DEF vars, TypeOK, SlotsMatchHolders, Holders,
              NestedInsideCaller, DepthBelowLimit, InFlight
<1>. QED
  BY <1>1, <1>2, <1>3, <1>4, <1>5, <1>6, <1>7, <1>8, <1>9 DEF Next, CallStep

(* The semaphore counts exactly the calls that hold a slot, and never more  *)
(* than its capacity, for every configuration (Spawn, lines 120 to 125).    *)
THEOREM SlotsAreCounted == Spec => []SlotsMatchHolders
<1>1. IInv => SlotsMatchHolders
  BY DEF IInv
<1>. QED
  BY InitEstablishes, InvariantKept, <1>1, PTL DEF Spec

(* Every variable keeps its type; sem never leaves the channel's capacity.  *)
THEOREM TypesAreKept == Spec => []TypeOK
<1>1. IInv => TypeOK
  BY DEF IInv
<1>. QED
  BY InitEstablishes, InvariantKept, <1>1, PTL DEF Spec

(* A nested call is in flight only while its caller sits in its child's     *)
(* turn, and no child brain runs below depth 2, whatever max_depth says     *)
(* (Spawn, lines 84 to 94 and 127 to 135).                                  *)
THEOREM NestingIsSafe == Spec => []NestingIsBounded
<1>1. IInv => NestedInsideCaller
  BY DEF IInv
<1>2. IInv => DepthNeverExceedsTwo
  BY Clamped DEF IInv, DepthBelowLimit, DepthNeverExceedsTwo, InFlight, Holders,
                 TypeOK, ContextDepths
<1>3. IInv => NestingIsBounded
  BY <1>1, <1>2 DEF NestingIsBounded
<1>. QED
  BY InitEstablishes, InvariantKept, <1>3, PTL DEF Spec

(* Every step of the engine is a step of the bounded pool, or changes       *)
(* nothing the pool sees: taking a slot admits, the returns after the slot  *)
(* finish, and those before it turn away.                                   *)
THEOREM EngineImplementsPool == Spec => ImplementsPool
<1>1. Init => Pool!Init
  BY DEF Init, Pool!Init, Holders
<1>2. IInv /\ [Next]_vars => [Pool!Next]_(<<Holders, {c \in Calls : pc[c] = "returned"}>>)
  <2>. SUFFICES ASSUME IInv, [Next]_vars
                PROVE  \/ Pool!Next
                       \/ /\ Holders' = Holders
                          /\ {k \in Calls : pc[k] = "returned"}'
                               = {k \in Calls : pc[k] = "returned"}
    OBVIOUS
  <2>. DEFINE Over == {k \in Calls : pc[k] = "returned"}
  <2>0. pc \in [Calls -> Places]
    BY DEF IInv, TypeOK
  <2>1. ASSUME NEW c \in Calls, NEW d, NEW p, NEW blank, Enter(c, d, p, blank)
        PROVE  \/ Pool!TurnAway(c)
               \/ Holders' = Holders /\ Over' = Over
    <3>1. CASE pc' = [pc EXCEPT ![c] = "select"]
      BY <2>0, <2>1, <3>1 DEF Enter, Holders
    <3>2. CASE pc' = [pc EXCEPT ![c] = "returned"]
      BY <2>0, <2>1, <3>2 DEF Enter, Holders, Pool!TurnAway
    <3>. QED BY <2>1, <3>1, <3>2 DEF Enter, Leave
  <2>2. ASSUME NEW c \in Calls, SpawnFromOutside(c)
        PROVE  Pool!Next \/ (Holders' = Holders /\ Over' = Over)
    BY <2>1, <2>2 DEF SpawnFromOutside, Pool!Next
  <2>3. ASSUME NEW c \in Calls, NEW p \in Calls, SpawnFromChild(c, p)
        PROVE  Pool!Next \/ (Holders' = Holders /\ Over' = Over)
    BY <2>1, <2>3 DEF SpawnFromChild, Pool!Next
  <2>4. ASSUME NEW c \in Calls, Acquire(c) PROVE Pool!Admit(c)
    <3>1. c \notin Holders \union Over
      BY <2>0, <2>4 DEF Acquire, Holders
    <3>2. Pool!Cardinality(Holders) < Capacity
      BY <2>4
         DEF Acquire, IInv, SlotsMatchHolders, Cardinality, Pool!Cardinality
    <3>3. Holders' = Holders \union {c} /\ Over' = Over
      BY <2>0, <2>4 DEF Acquire, Holders
    <3>. QED BY <3>1, <3>2, <3>3 DEF Pool!Admit
  <2>5. ASSUME NEW c \in Calls, GiveUp(c) PROVE Pool!TurnAway(c)
    BY <2>0, <2>5 DEF GiveUp, Leave, Holders, Pool!TurnAway
  <2>6. ASSUME NEW c \in Calls, StepFails(c) \/ Distil(c) PROVE Pool!Finish(c)
    <3>1. c \in Holders /\ pc' = [pc EXCEPT ![c] = "returned"]
      BY <2>0, <2>6 DEF StepFails, Distil, Leave, Holders
    <3>2. Holders' = Holders \ {c} /\ Over' = Over \union {c}
      BY <2>0, <3>1 DEF Holders
    <3> QED
      BY <3>1, <3>2 DEF Pool!Finish
  <2>7. ASSUME NEW c \in Calls, Expire(c) \/ StepReplies(c)
        PROVE  Holders' = Holders /\ Over' = Over
    BY <2>0, <2>7 DEF Expire, StepReplies, Holders
  <2>8. CASE UNCHANGED vars
    BY <2>8 DEF vars, Holders
  <2>. QED
    BY <2>2, <2>3, <2>4, <2>5, <2>6, <2>7, <2>8 DEF Next, CallStep, Pool!Next
<1>. QED
  BY InitEstablishes, InvariantKept, <1>1, <1>2, PTL
  DEF Spec, ImplementsPool, Pool!Spec

-----------------------------------------------------------------------------
(* The chain of providers (internal/adapters/llm/fallback.go).  *)

(* What is known of the adapter that is being read: as long as nothing went *)
(* wrong its fate is open, an error it sends is its fate, and its close is  *)
(* the end of a whole answer.                                               *)
Current == adapter[trying]
AnswerOpen(p) ==
  /\ adapter[p] \in {"reading", "sending", "ended"}
  /\ adapter[p] = "reading" => fate[p] = "open"
  /\ adapter[p] = "sending" =>
       fate[p] = (IF sends[p] = "token" THEN "open" ELSE sends[p])
  /\ adapter[p] = "ended" => fate[p] = "complete"

WhereTheChainIs ==
  /\ at \in {"reading", "holding"} =>
       mode = "stream" /\ trying \in Chain /\ AnswerOpen(trying)
  /\ at = "choosing" =>
       /\ ~spoken
       /\ trying \in Chain =>
            Current = "unused" /\ streamed[trying] = 0 /\ fate[trying] = "open"
  /\ at = "draining" =>
       /\ ~spoken /\ mode = "stream"
       /\ trying \in Chain /\ fate[trying] = "transient"
       /\ Current \in {"closing", "ended"}
  /\ (at \in {"failing", "done"} /\ ~abandoned /\ trying \in Chain) =>
       Current \in {"unused", "closing", "ended"}
  /\ (at = "done" /\ ~failed /\ ~abandoned) =>
       trying \in Chain /\ fate[trying] = "complete"
Speaks ==
  /\ ~spoken /\ mode = "stream" => delivered = <<>> /\ at # "holding"
  /\ at = "choosing" => delivered = <<>>
  /\ abandoned => at = "done"
  /\ \A p \in Chain : adapter[p] = "unused" => streamed[p] = 0
ChainInv == StreamTypeOK /\ OneProviderSpeaks /\ WhereTheChainIs /\ Speaks


LEMMA ChainStarts == StreamInit => ChainInv
<1> SUFFICES ASSUME StreamInit PROVE ChainInv
  OBVIOUS
<1> USE ChainAssumption DEF StreamInit, Chain, Errors
<1>1. StreamTypeOK
  <2>1. 1 \in 1 .. ChainLength + 1 /\ <<>> \in Seq(Chain)
    OBVIOUS
  <2>2. /\ adapter \in [Chain -> {"unused", "reading", "sending", "closing", "ended"}]
        /\ sends \in [Chain -> {"token"} \union Errors]
        /\ streamed \in [Chain -> 0 .. MaxText]
        /\ fate \in [Chain -> {"open", "complete"} \union Errors]
    OBVIOUS
  <2> QED
    BY <2>1, <2>2 DEF StreamTypeOK
<1>2. OneProviderSpeaks
  BY DEF OneProviderSpeaks, Underway
<1>3. WhereTheChainIs /\ Speaks
  BY DEF WhereTheChainIs, AnswerOpen, Current, Speaks
<1> QED
  BY <1>1, <1>2, <1>3 DEF ChainInv

(* What a step of the chain keeps, action by action.  *)
LEMMA ChainGoesOn == ChainInv /\ [StreamNext]_streamVars => ChainInv'
<1> SUFFICES ASSUME ChainInv, [StreamNext]_streamVars PROVE ChainInv'
  OBVIOUS
<1> USE ChainAssumption DEF adapters, outcome, Errors
<1>1. ASSUME CancelStream PROVE ChainInv'
  <2> USE <1>1 DEF CancelStream
  <2>1. StreamTypeOK'
    BY DEF ChainInv, StreamTypeOK, Chain, WhereTheChainIs, AnswerOpen
  <2>2. OneProviderSpeaks'
    BY DEF ChainInv, StreamTypeOK, OneProviderSpeaks, Underway,
           WhereTheChainIs, Current, AnswerOpen, Speaks, Chain
  <2>3. WhereTheChainIs'
    BY DEF ChainInv, StreamTypeOK, OneProviderSpeaks, Underway,
           WhereTheChainIs, Current, AnswerOpen, Speaks, Chain
  <2>4. Speaks'
    BY DEF ChainInv, StreamTypeOK, WhereTheChainIs, Speaks, Chain, AnswerOpen
  <2> QED
    BY <2>1, <2>2, <2>3, <2>4 DEF ChainInv
<1>2. ASSUME NEW p \in Chain, AdapterReads(p) PROVE ChainInv'
  <2>1. /\ adapter[p] = "reading" /\ adapter' = [adapter EXCEPT ![p] = "sending"]
        /\ UNCHANGED <<mode, at, trying, spoken, delivered, failed, cancelled,
                       abandoned>>
    BY <1>2 DEF AdapterReads
  <2>2. p = trying /\ (at \in {"reading", "holding"} \/ abandoned)
    <3>1. ~(p < trying) /\ ~(p > trying)
      BY <2>1 DEF ChainInv, OneProviderSpeaks
    <3>2. p = trying
      BY <3>1 DEF ChainInv, StreamTypeOK, Chain
    <3> QED
      BY <2>1, <3>2 DEF ChainInv, StreamTypeOK, WhereTheChainIs, Current
  <2>3. ASSUME NEW e \in Errors, sends' = [sends EXCEPT ![p] = e],
               fate' = [fate EXCEPT ![p] = e], streamed' = streamed
        PROVE  ChainInv'
    <3> USE <2>1, <2>2, <2>3
    <3>1. StreamTypeOK'
      BY DEF ChainInv, StreamTypeOK
    <3>2. OneProviderSpeaks'
      BY DEF ChainInv, StreamTypeOK, OneProviderSpeaks, Underway, Chain
    <3>3. WhereTheChainIs' /\ Speaks'
      BY DEF ChainInv, StreamTypeOK, WhereTheChainIs, Current, AnswerOpen,
             Speaks, Chain
    <3> QED
      BY <3>1, <3>2, <3>3 DEF ChainInv
  <2>4. ASSUME streamed[p] < MaxText,
               streamed' = [streamed EXCEPT ![p] = @ + 1],
               sends' = [sends EXCEPT ![p] = "token"], fate' = fate
        PROVE  ChainInv'
    <3> USE <2>1, <2>2, <2>4
    <3>1. StreamTypeOK'
      BY DEF ChainInv, StreamTypeOK
    <3>2. OneProviderSpeaks'
      BY DEF ChainInv, StreamTypeOK, OneProviderSpeaks, Underway, Chain
    <3>3. WhereTheChainIs' /\ Speaks'
      BY DEF ChainInv, StreamTypeOK, WhereTheChainIs, Current, AnswerOpen,
             Speaks, Chain
    <3> QED
      BY <3>1, <3>2, <3>3 DEF ChainInv
  <2> QED
    BY <1>2, <2>3, <2>4 DEF AdapterReads
<1>3. ASSUME NEW p \in Chain, AdapterEnds(p) PROVE ChainInv'
  <2> USE <1>3 DEF AdapterEnds
  <2>1. StreamTypeOK'
    BY DEF ChainInv, StreamTypeOK, Chain, WhereTheChainIs, AnswerOpen
  <2>2. OneProviderSpeaks'
    BY DEF ChainInv, StreamTypeOK, OneProviderSpeaks, Underway,
           WhereTheChainIs, Current, AnswerOpen, Speaks, Chain
  <2>3. WhereTheChainIs'
    BY DEF ChainInv, StreamTypeOK, OneProviderSpeaks, Underway,
           WhereTheChainIs, Current, AnswerOpen, Speaks, Chain
  <2>4. Speaks'
    BY DEF ChainInv, StreamTypeOK, WhereTheChainIs, Speaks, Chain, AnswerOpen
  <2> QED
    BY <2>1, <2>2, <2>3, <2>4 DEF ChainInv
<1>4. ASSUME GiveUpChain PROVE ChainInv'
  <2> USE <1>4 DEF GiveUpChain
  <2>1. StreamTypeOK'
    BY DEF ChainInv, StreamTypeOK, Chain, WhereTheChainIs, AnswerOpen
  <2>2. OneProviderSpeaks'
    BY DEF ChainInv, StreamTypeOK, OneProviderSpeaks, Underway,
           WhereTheChainIs, Current, AnswerOpen, Speaks, Chain
  <2>3. WhereTheChainIs'
    BY DEF ChainInv, StreamTypeOK, OneProviderSpeaks, Underway,
           WhereTheChainIs, Current, AnswerOpen, Speaks, Chain
  <2>4. Speaks'
    BY DEF ChainInv, StreamTypeOK, WhereTheChainIs, Speaks, Chain, AnswerOpen
  <2> QED
    BY <2>1, <2>2, <2>3, <2>4 DEF ChainInv
<1>5. ASSUME ProviderRefuses PROVE ChainInv'
  <2> USE <1>5 DEF ProviderRefuses
  <2>1. StreamTypeOK'
    BY DEF ChainInv, StreamTypeOK, Chain, WhereTheChainIs, AnswerOpen
  <2>2. OneProviderSpeaks'
    BY DEF ChainInv, StreamTypeOK, OneProviderSpeaks, Underway,
           WhereTheChainIs, Current, AnswerOpen, Speaks, Chain
  <2>3. WhereTheChainIs'
    BY DEF ChainInv, StreamTypeOK, OneProviderSpeaks, Underway,
           WhereTheChainIs, Current, AnswerOpen, Speaks, Chain
  <2>4. Speaks'
    BY DEF ChainInv, StreamTypeOK, WhereTheChainIs, Speaks, Chain, AnswerOpen
  <2> QED
    BY <2>1, <2>2, <2>3, <2>4 DEF ChainInv
<1>6. ASSUME ChatAnswers PROVE ChainInv'
  <2> USE <1>6 DEF ChatAnswers
  <2>1. StreamTypeOK'
    BY DEF ChainInv, StreamTypeOK, Chain, WhereTheChainIs, AnswerOpen
  <2>2. OneProviderSpeaks'
    BY DEF ChainInv, StreamTypeOK, OneProviderSpeaks, Underway,
           WhereTheChainIs, Current, AnswerOpen, Speaks, Chain
  <2>3. WhereTheChainIs'
    BY DEF ChainInv, StreamTypeOK, OneProviderSpeaks, Underway,
           WhereTheChainIs, Current, AnswerOpen, Speaks, Chain
  <2>4. Speaks'
    BY DEF ChainInv, StreamTypeOK, WhereTheChainIs, Speaks, Chain, AnswerOpen
  <2> QED
    BY <2>1, <2>2, <2>3, <2>4 DEF ChainInv
<1>7. ASSUME StreamOpens PROVE ChainInv'
  <2> USE <1>7 DEF StreamOpens
  <2>1. StreamTypeOK'
    BY DEF ChainInv, StreamTypeOK, Chain, WhereTheChainIs, AnswerOpen
  <2>2. OneProviderSpeaks'
    BY DEF ChainInv, StreamTypeOK, OneProviderSpeaks, Underway,
           WhereTheChainIs, Current, AnswerOpen, Speaks, Chain
  <2>3. WhereTheChainIs'
    BY DEF ChainInv, StreamTypeOK, OneProviderSpeaks, Underway,
           WhereTheChainIs, Current, AnswerOpen, Speaks, Chain
  <2>4. Speaks'
    BY DEF ChainInv, StreamTypeOK, WhereTheChainIs, Speaks, Chain, AnswerOpen
  <2> QED
    BY <2>1, <2>2, <2>3, <2>4 DEF ChainInv
<1>8. ASSUME ReadEvent PROVE ChainInv'
  <2>1. /\ at = "reading" /\ adapter[trying] = "sending" /\ trying \in Chain
        /\ mode = "stream" /\ ~abandoned
        /\ fate[trying] = (IF sends[trying] = "token" THEN "open"
                          ELSE sends[trying])
        /\ UNCHANGED <<mode, trying, sends, streamed, fate, delivered, failed,
                       cancelled, abandoned>>
    BY <1>8 DEF ReadEvent, ChainInv, WhereTheChainIs, AnswerOpen, Speaks
  <2>2. StreamTypeOK'
    BY <1>8, <2>1 DEF ReadEvent, Taken, ChainInv, StreamTypeOK
  <2>3. streamed[trying] =
          Len(delivered) + (IF sends[trying] = "token" THEN 1 ELSE 0)
    BY <2>1 DEF ChainInv, OneProviderSpeaks, Underway
  <2>4. CASE sends[trying] = "token"
    <3>1. /\ adapter' = [adapter EXCEPT ![trying] = "reading"]
          /\ at' = "holding" /\ spoken' = TRUE
      BY <1>8, <2>4 DEF ReadEvent, Taken
    <3> USE <2>1, <2>3, <2>4, <3>1
    <3>2. OneProviderSpeaks'
      BY DEF ChainInv, StreamTypeOK, OneProviderSpeaks, Underway, Chain
    <3>3. WhereTheChainIs' /\ Speaks'
      BY DEF ChainInv, StreamTypeOK, WhereTheChainIs, AnswerOpen, Speaks
    <3> QED
      BY <2>2, <3>2, <3>3 DEF ChainInv
  <2>5. CASE sends[trying] # "token"
    <3>1. /\ adapter' = [adapter EXCEPT ![trying] = "closing"]
          /\ \/ ~spoken /\ fate[trying] = "transient" /\ at' = "draining"
             \/ at' = "failing"
          /\ spoken' = spoken
      BY <1>8, <2>1, <2>5 DEF ReadEvent, Taken, FailsOver
    <3> USE <2>1, <2>3, <2>5, <3>1
    <3>2. OneProviderSpeaks'
      BY DEF ChainInv, StreamTypeOK, OneProviderSpeaks, Underway, Chain
    <3>3. WhereTheChainIs' /\ Speaks'
      BY DEF ChainInv, StreamTypeOK, WhereTheChainIs, Current, AnswerOpen,
             Speaks
    <3> QED
      BY <2>2, <3>2, <3>3 DEF ChainInv
  <2> QED
    BY <2>4, <2>5
<1>9. ASSUME ReadClose PROVE ChainInv'
  <2> USE <1>9 DEF ReadClose
  <2>1. StreamTypeOK'
    BY DEF ChainInv, StreamTypeOK, Chain, WhereTheChainIs, AnswerOpen
  <2>2. OneProviderSpeaks'
    BY DEF ChainInv, StreamTypeOK, OneProviderSpeaks, Underway,
           WhereTheChainIs, Current, AnswerOpen, Speaks, Chain
  <2>3. WhereTheChainIs'
    BY DEF ChainInv, StreamTypeOK, OneProviderSpeaks, Underway,
           WhereTheChainIs, Current, AnswerOpen, Speaks, Chain
  <2>4. Speaks'
    BY DEF ChainInv, StreamTypeOK, WhereTheChainIs, Speaks, Chain, AnswerOpen
  <2> QED
    BY <2>1, <2>2, <2>3, <2>4 DEF ChainInv
<1>10. ASSUME Drain PROVE ChainInv'
  <2>1. /\ at = "draining" /\ adapter[trying] = "ended" /\ at' = "choosing"
        /\ trying' = trying + 1
        /\ UNCHANGED <<mode, adapter, sends, streamed, fate, spoken, delivered,
                       failed, cancelled, abandoned>>
    BY <1>10 DEF Drain
  <2>2. /\ trying \in Chain /\ fate[trying] = "transient" /\ streamed[trying] = 0
        /\ delivered = <<>> /\ ~spoken /\ ~abandoned
    BY <2>1 DEF ChainInv, StreamTypeOK, OneProviderSpeaks, Underway,
                WhereTheChainIs, Speaks, Chain
  <2>3. StreamTypeOK'
    BY <2>1, <2>2 DEF ChainInv, StreamTypeOK, Chain
  <2>4. ASSUME trying + 1 \in Chain
        PROVE  /\ adapter[trying + 1] = "unused" /\ fate[trying + 1] = "open"
               /\ streamed[trying + 1] = 0
    BY <2>2, <2>4 DEF ChainInv, OneProviderSpeaks, Speaks, Chain
  <2>5. OneProviderSpeaks'
    <3>1. \A q \in Chain : q < trying' => q < trying \/ q = trying
      BY <2>1, <2>2 DEF Chain
    <3>2. \A q \in Chain : q > trying' => q > trying
      BY <2>1, <2>2 DEF Chain
    <3>3. trying' \in Chain => streamed[trying'] = Len(delivered') + 0
      BY <2>1, <2>2, <2>4
    <3>4. trying' \in Chain => adapter'[trying'] # "sending"
      BY <2>1, <2>4
    <3>5. \A q \in Chain : q < trying' =>
            /\ fate'[q] = "transient" /\ streamed'[q] = 0
            /\ adapter'[q] \in {"unused", "ended"}
      BY <2>1, <2>2, <3>1 DEF ChainInv, OneProviderSpeaks
    <3>6. \A q \in Chain : q > trying' =>
            adapter'[q] = "unused" /\ fate'[q] = "open"
      BY <2>1, <3>2 DEF ChainInv, OneProviderSpeaks
    <3>7. \A i \in DOMAIN delivered' : delivered'[i] = trying'
      BY <2>1, <2>2
    <3> QED
      BY <2>1, <3>3, <3>4, <3>5, <3>6, <3>7 DEF OneProviderSpeaks, Underway
  <2>6. WhereTheChainIs' /\ Speaks'
    BY <2>1, <2>2, <2>4 DEF ChainInv, WhereTheChainIs, Current, Speaks
  <2> QED
    BY <2>3, <2>5, <2>6 DEF ChainInv
<1>11. ASSUME HandOn PROVE ChainInv'
  <2> USE <1>11 DEF HandOn
  <2>1. StreamTypeOK'
    BY DEF ChainInv, StreamTypeOK, Chain, WhereTheChainIs, AnswerOpen
  <2>2. OneProviderSpeaks'
    BY SMTT(30) DEF ChainInv, StreamTypeOK, OneProviderSpeaks, Underway,
           WhereTheChainIs, Current, AnswerOpen, Speaks, Chain
  <2>3. WhereTheChainIs'
    BY DEF ChainInv, StreamTypeOK, OneProviderSpeaks, Underway,
           WhereTheChainIs, Current, AnswerOpen, Speaks, Chain
  <2>4. Speaks'
    BY DEF ChainInv, StreamTypeOK, WhereTheChainIs, Speaks, Chain, AnswerOpen
  <2> QED
    BY <2>1, <2>2, <2>3, <2>4 DEF ChainInv
<1>12. ASSUME LeaveHeld PROVE ChainInv'
  <2> USE <1>12 DEF LeaveHeld
  <2>1. StreamTypeOK'
    BY DEF ChainInv, StreamTypeOK, Chain, WhereTheChainIs, AnswerOpen
  <2>2. OneProviderSpeaks'
    BY DEF ChainInv, StreamTypeOK, OneProviderSpeaks, Underway,
           WhereTheChainIs, Current, AnswerOpen, Speaks, Chain
  <2>3. WhereTheChainIs'
    BY DEF ChainInv, StreamTypeOK, OneProviderSpeaks, Underway,
           WhereTheChainIs, Current, AnswerOpen, Speaks, Chain
  <2>4. Speaks'
    BY DEF ChainInv, StreamTypeOK, WhereTheChainIs, Speaks, Chain, AnswerOpen
  <2> QED
    BY <2>1, <2>2, <2>3, <2>4 DEF ChainInv
<1>13. ASSUME HandOnError PROVE ChainInv'
  <2> USE <1>13 DEF HandOnError
  <2>1. StreamTypeOK'
    BY DEF ChainInv, StreamTypeOK, Chain, WhereTheChainIs, AnswerOpen
  <2>2. OneProviderSpeaks'
    BY DEF ChainInv, StreamTypeOK, OneProviderSpeaks, Underway,
           WhereTheChainIs, Current, AnswerOpen, Speaks, Chain
  <2>3. WhereTheChainIs'
    BY DEF ChainInv, StreamTypeOK, OneProviderSpeaks, Underway,
           WhereTheChainIs, Current, AnswerOpen, Speaks, Chain
  <2>4. Speaks'
    BY DEF ChainInv, StreamTypeOK, WhereTheChainIs, Speaks, Chain, AnswerOpen
  <2> QED
    BY <2>1, <2>2, <2>3, <2>4 DEF ChainInv
<1>14. CASE UNCHANGED streamVars
  BY <1>14
     DEF streamVars, ChainInv, StreamTypeOK, OneProviderSpeaks, Underway,
         WhereTheChainIs, Current, AnswerOpen, Speaks, Chain
<1> QED
  BY <1>1, <1>2, <1>3, <1>4, <1>5, <1>6, <1>7, <1>8, <1>9, <1>10, <1>11,
     <1>12, <1>13, <1>14
     DEF StreamNext, Between, Within, Adapter

(* What was sent grows at its end.                                          *)
LEMMA GrownByOne ==
  ASSUME NEW S, NEW s \in Seq(S), NEW r \in Seq(S), NEW e \in S,
         Len(r) = Len(s) + 1, r[Len(s) + 1] = e,
         \A i \in 1 .. Len(s) : r[i] = s[i]
  PROVE  r = Append(s, e)
<1>1. /\ Append(s, e) \in Seq(S) /\ Len(Append(s, e)) = Len(s) + 1
      /\ \A i \in 1 .. Len(s) : Append(s, e)[i] = s[i]
      /\ Append(s, e)[Len(s) + 1] = e /\ Len(s) \in Nat
  BY OneMore
<1>2. \A i \in 1 .. Len(s) + 1 : r[i] = Append(s, e)[i]
  BY <1>1
<1> QED
  BY <1>1, <1>2, SeqEqual

LEMMA Repeated ==
  ASSUME NEW S, NEW n \in Nat, NEW e \in S
  PROVE  /\ [i \in 1 .. n |-> e] \in Seq(S) /\ Len([i \in 1 .. n |-> e]) = n
         /\ n = 0 => [i \in 1 .. n |-> e] = <<>>
         /\ [i \in 1 .. n + 1 |-> e] = Append([i \in 1 .. n |-> e], e)
<1>1. \A k \in Nat : /\ [i \in 1 .. k |-> e] \in Seq(S)
                     /\ Len([i \in 1 .. k |-> e]) = k
  OBVIOUS
<1>2. n + 1 \in Nat
  OBVIOUS
<1>3. [i \in 1 .. n + 1 |-> e] = Append([i \in 1 .. n |-> e], e)
  <2> DEFINE s == [i \in 1 .. n |-> e]
             r == [i \in 1 .. n + 1 |-> e]
  <2>1. s \in Seq(S) /\ r \in Seq(S) /\ Len(s) = n /\ Len(r) = n + 1
    BY <1>1, <1>2
  <2>2. r[n + 1] = e /\ \A i \in 1 .. n : r[i] = s[i]
    OBVIOUS
  <2> HIDE DEF s, r
  <2>3. r = Append(s, e)
    BY <2>1, <2>2, GrownByOne
  <2> QED
    BY <2>3 DEF s, r
<1>4. n = 0 => [i \in 1 .. n |-> e] = <<>>
  OBVIOUS
<1> QED
  BY <1>1, <1>3, <1>4

(* Nothing was sent as long as the chain may still choose.                  *)
LEMMA SilentSoFar ==
  ASSUME ChainInv
  PROVE  /\ (at \in {"choosing", "draining"} \/ mode # "stream") =>
              AnswerSent = <<>>
         /\ AnswerSent \in Seq(Chain) /\ AnswerHeard \in Seq(Chain)
         /\ (mode = "stream" /\ trying \in Chain) =>
              streamed[trying] \in Nat /\ Len(AnswerSent) = streamed[trying]
<1>1. AnswerHeard \in Seq(Chain)
  BY DEF ChainInv, StreamTypeOK, AnswerHeard
<1>2. CASE mode # "stream" \/ trying \notin Chain
  BY <1>1, <1>2 DEF AnswerSent
<1>3. CASE mode = "stream" /\ trying \in Chain
  <2>1. streamed[trying] \in Nat /\ AnswerSent = [i \in 1 .. streamed[trying] |-> trying]
    BY <1>3, ChainAssumption
       DEF ChainInv, StreamTypeOK, AnswerSent, ChainAssumption
  <2>2. at = "choosing" => streamed[trying] = 0
    BY <1>3 DEF ChainInv, WhereTheChainIs
  <2>3. at = "draining" => streamed[trying] = 0
    <3> SUFFICES ASSUME at = "draining" PROVE streamed[trying] = 0
      OBVIOUS
    <3>1. ~abandoned /\ delivered = <<>> /\ Underway(trying) = 0
      BY <1>3 DEF ChainInv, WhereTheChainIs, Speaks, Underway, Current
    <3> QED
      BY <1>3, <3>1 DEF ChainInv, OneProviderSpeaks
  <2> QED
    BY <1>1, <1>3, <2>1, <2>2, <2>3, Repeated
<1> QED
  BY <1>2, <1>3

(* The same when the chain has come to choose.                              *)
LEMMA SilentWhenChoosing ==
  ASSUME ChainInv', at' = "choosing"
  PROVE  AnswerSent' = <<>>
<1>1. trying' \in Chain => streamed'[trying'] = 0
  BY DEF ChainInv, WhereTheChainIs
<1> QED
  BY <1>1 DEF AnswerSent

(* Each step of a request over the chain is one of the stream its listener  *)
(* knows, or is not seen there.                                             *)
answerVars == <<AnswerSent, AnswerHeard, AnswerEnd, cancelled>>

LEMMA ChainStartsAsStream == StreamInit => Answer!Init
<1> SUFFICES ASSUME StreamInit PROVE Answer!Init
  OBVIOUS
<1>1. ChainInv
  BY ChainStarts
<1>2. AnswerSent = <<>>
  BY <1>1, SilentSoFar DEF StreamInit
<1> QED
  BY <1>2 DEF StreamInit, Answer!Init, AnswerHeard, AnswerEnd

LEMMA ChainIsStream ==
  ChainInv /\ ChainInv' /\ [StreamNext]_streamVars => [Answer!Next]_answerVars
<1> SUFFICES ASSUME ChainInv, ChainInv', [StreamNext]_streamVars
             PROVE  Answer!Next \/ UNCHANGED answerVars
  BY DEF answerVars
<1> DEFINE Unseen == UNCHANGED <<AnswerSent, AnswerHeard, AnswerEnd, cancelled>>
<1>0. Unseen => UNCHANGED answerVars
  BY DEF answerVars
<1>1. CASE CancelStream
  <2>1. UNCHANGED <<AnswerSent, AnswerHeard, AnswerEnd>> /\ cancelled'
    BY <1>1 DEF CancelStream, adapters, outcome, AnswerSent, AnswerHeard, AnswerEnd
  <2>2. cancelled' = TRUE
    BY <1>1 DEF CancelStream
  <2> QED
    BY <2>1, <2>2 DEF Answer!Next, Answer!Stop
<1>2. ASSUME NEW p \in Chain, AdapterReads(p)
      PROVE  Answer!Next \/ UNCHANGED answerVars
  <2>1. /\ adapter[p] = "reading"
        /\ UNCHANGED <<mode, at, trying, spoken, delivered, failed, cancelled,
                       abandoned>>
    BY <1>2 DEF AdapterReads, outcome
  <2>2. UNCHANGED <<AnswerHeard, AnswerEnd, cancelled>>
    BY <2>1 DEF AnswerHeard, AnswerEnd
  <2>3. p = trying /\ (at \in {"reading", "holding"} \/ abandoned)
    <3>1. ~(p < trying) /\ ~(p > trying)
      BY <2>1 DEF ChainInv, OneProviderSpeaks
    <3>2. p = trying
      BY <3>1, ChainAssumption DEF ChainAssumption, ChainInv, StreamTypeOK, Chain
    <3> QED
      BY <2>1, <3>2 DEF ChainInv, StreamTypeOK, WhereTheChainIs, Current
  <2>4. AnswerEnd # "whole"
    BY <2>1, <2>3 DEF AnswerEnd
  <2>5. CASE UNCHANGED streamed \/ mode # "stream"
    <3>1. UNCHANGED AnswerSent
      BY <2>1, <2>5 DEF AnswerSent
    <3> QED
      BY <1>0, <2>2, <3>1
  <2>6. CASE mode = "stream" /\ streamed' = [streamed EXCEPT ![p] = @ + 1]
    <3>1. /\ streamed[p] \in Nat /\ streamed'[p] = streamed[p] + 1
          /\ trying' = trying
      BY <1>2, <2>1, <2>6, ChainAssumption
         DEF ChainAssumption, ChainInv, StreamTypeOK
    <3>2. PICK n : n = streamed[p]
      OBVIOUS
    <3>3. /\ AnswerSent = [i \in 1 .. n |-> p]
          /\ AnswerSent' = [i \in 1 .. n + 1 |-> p]
      BY <1>2, <2>1, <2>3, <2>6, <3>1, <3>2 DEF AnswerSent
    <3>4. AnswerSent' = Append(AnswerSent, p)
      BY <1>2, <3>1, <3>2, <3>3, Repeated
    <3>5. Answer!Send(p)
      BY <2>2, <2>4, <3>4 DEF Answer!Send
    <3> QED
      BY <1>2, <3>5 DEF Answer!Next
  <2> QED
    BY <1>2, <2>5, <2>6 DEF AdapterReads
<1>3. ASSUME NEW p \in Chain, AdapterEnds(p)
      PROVE  Answer!Next \/ UNCHANGED answerVars
  BY <1>3 DEF AdapterEnds, outcome, AnswerSent, AnswerHeard, AnswerEnd, answerVars
<1>4. CASE GiveUpChain \/ StreamOpens
  BY <1>4 DEF GiveUpChain, StreamOpens, adapters, outcome, AnswerSent,
              AnswerHeard, AnswerEnd, answerVars
<1>5. CASE ProviderRefuses
  <2>1. /\ at = "choosing" /\ at' \in {"choosing", "failing"}
        /\ UNCHANGED <<mode, streamed, delivered, failed, cancelled, abandoned>>
        /\ at' = "choosing" \/ trying' = trying
    BY <1>5 DEF ProviderRefuses, outcome
  <2>2. UNCHANGED <<AnswerHeard, AnswerEnd, cancelled>>
    BY <2>1 DEF AnswerHeard, AnswerEnd
  <2>3. AnswerSent = <<>>
    BY <2>1, SilentSoFar
  <2>4. AnswerSent' = AnswerSent
    <3>1. CASE at' = "choosing"
      <4>1. AnswerSent' = <<>>
        BY <3>1, SilentWhenChoosing
      <4> QED
        BY <2>3, <4>1
    <3>2. CASE trying' = trying
      BY <2>1, <3>2 DEF AnswerSent
    <3> QED
      BY <2>1, <3>1, <3>2
  <2> QED
    BY <1>0, <2>2, <2>4
<1>6. CASE ChatAnswers
  <2>1. /\ mode = "chat" /\ at = "choosing" /\ at' = "done"
        /\ UNCHANGED <<mode, trying, streamed, failed, cancelled, abandoned>>
    BY <1>6 DEF ChatAnswers
  <2>2. /\ AnswerSent = <<>> /\ AnswerHeard = <<>>
        /\ UNCHANGED <<AnswerSent, AnswerHeard, cancelled>>
    BY <2>1, SilentSoFar DEF AnswerSent, AnswerHeard
  <2>3. AnswerEnd = "open" /\ AnswerEnd' \in {"whole", "broken"}
    <3>1. ~abandoned
      BY <2>1 DEF ChainInv, Speaks
    <3> QED
      BY <2>1, <3>1 DEF AnswerEnd, ChainInv, StreamTypeOK
  <2> QED
    BY <2>2, <2>3 DEF Answer!Next, Answer!End
<1>7. CASE ReadEvent
  BY <1>7 DEF ReadEvent, outcome, AnswerSent, AnswerHeard, AnswerEnd, answerVars
<1>8. CASE ReadClose
  <2>1. /\ at = "reading" /\ at' = "done" /\ adapter[trying] = "ended"
        /\ mode = "stream" /\ trying \in Chain /\ ~abandoned
        /\ UNCHANGED <<mode, trying, streamed, delivered, failed, cancelled,
                       abandoned>>
    BY <1>8 DEF ReadClose, adapters, outcome, ChainInv, WhereTheChainIs, Speaks
  <2>2. UNCHANGED <<AnswerSent, AnswerHeard, cancelled>>
    BY <2>1 DEF AnswerSent, AnswerHeard
  <2>3. AnswerEnd = "open" /\ AnswerEnd' \in {"whole", "broken"}
    BY <2>1 DEF AnswerEnd, ChainInv, StreamTypeOK
  <2>4. AnswerHeard = AnswerSent
    <3>1. streamed[trying] = Len(delivered)
      BY <2>1 DEF ChainInv, StreamTypeOK, OneProviderSpeaks, Underway
    <3>2. \A i \in 1 .. Len(delivered) : delivered[i] = AnswerSent[i]
      BY <2>1, <3>1 DEF ChainInv, OneProviderSpeaks, AnswerSent, StreamTypeOK
    <3> QED
      BY <2>1, <3>1, <3>2, SilentSoFar, SeqEqual DEF AnswerHeard
  <2> QED
    BY <2>2, <2>3, <2>4 DEF Answer!Next, Answer!End
<1>9. CASE Drain
  <2>1. /\ at = "draining" /\ at' = "choosing"
        /\ UNCHANGED <<mode, delivered, failed, cancelled, abandoned>>
    BY <1>9 DEF Drain, adapters, outcome
  <2>2. AnswerSent = <<>> /\ AnswerSent' = <<>>
    BY <2>1, SilentSoFar, SilentWhenChoosing
  <2>3. UNCHANGED <<AnswerHeard, AnswerEnd, cancelled>>
    BY <2>1 DEF AnswerHeard, AnswerEnd
  <2> QED
    BY <1>0, <2>2, <2>3
<1>10. CASE HandOn
  <2>1. /\ at = "holding" /\ at' = "reading" /\ mode = "stream"
        /\ trying \in Chain /\ ~abandoned
        /\ delivered' = Append(delivered, trying)
        /\ UNCHANGED <<mode, trying, streamed, failed, cancelled, abandoned>>
    BY <1>10 DEF HandOn, adapters, ChainInv, WhereTheChainIs, Speaks
  <2>2. UNCHANGED <<AnswerSent, AnswerEnd, cancelled>> /\ AnswerEnd = "open"
    BY <2>1 DEF AnswerSent, AnswerEnd
  <2>3. Len(delivered) \in Nat /\ streamed[trying] > Len(delivered)
    BY <2>1, SilentSoFar DEF ChainInv, StreamTypeOK, OneProviderSpeaks, Underway
  <2>4. /\ Len(AnswerHeard) < Len(AnswerSent)
        /\ AnswerSent[Len(AnswerHeard) + 1] = trying
    BY <2>1, <2>3, SilentSoFar DEF AnswerHeard, AnswerSent
  <2>5. AnswerHeard' = Append(AnswerHeard, trying)
    BY <2>1 DEF AnswerHeard
  <2> QED
    BY <2>2, <2>4, <2>5 DEF Answer!Next, Answer!Hear
<1>11. CASE LeaveHeld
  <2>1. /\ at = "holding" /\ at' = "done" /\ cancelled /\ abandoned'
        /\ UNCHANGED <<mode, trying, streamed, delivered, failed, cancelled>>
    BY <1>11 DEF LeaveHeld, adapters, outcome
  <2>2. UNCHANGED <<AnswerSent, AnswerHeard, cancelled>>
    BY <2>1 DEF AnswerSent, AnswerHeard
  <2>3. AnswerEnd = "open" /\ AnswerEnd' \in {"cut", "broken"}
    BY <2>1 DEF AnswerEnd, ChainInv, StreamTypeOK
  <2> QED
    BY <2>1, <2>2, <2>3 DEF Answer!Next, Answer!End
<1>12. CASE HandOnError
  <2>1. /\ at = "failing" /\ at' = "done" /\ failed'
        /\ UNCHANGED <<mode, trying, streamed, delivered, cancelled>>
    BY <1>12 DEF HandOnError, adapters
  <2>2. UNCHANGED <<AnswerSent, AnswerHeard, cancelled>>
    BY <2>1 DEF AnswerSent, AnswerHeard
  <2>3. AnswerEnd = "open" /\ AnswerEnd' = "broken"
    BY <2>1 DEF AnswerEnd
  <2> QED
    BY <2>2, <2>3 DEF Answer!Next, Answer!End
<1>13. CASE UNCHANGED streamVars
  BY <1>13 DEF streamVars, adapters, outcome, AnswerSent, AnswerHeard, AnswerEnd,
               answerVars
<1> QED
  BY <1>1, <1>2, <1>3, <1>4, <1>5, <1>6, <1>7, <1>8, <1>9, <1>10, <1>11,
     <1>12, <1>13
     DEF StreamNext, Between, Within, Adapter

-----------------------------------------------------------------------------
(* The pipe from a server (internal/mcp/transport/stdio.go).  *)

(* What the loop holds of the lines written, and what was handed on.        *)
InHand == IF outLoop = "putting" /\ hand # 0 THEN 1 ELSE 0
PutSoFar == Len(heard) + Len(inbox)

(* A line is its place among all that were written, wherever it is.         *)
LinesInPlace ==
  /\ \A i \in DOMAIN heard : heard[i] # 0 => heard[i] = i
  /\ \A i \in DOMAIN inbox : inbox[i] # 0 => inbox[i] = Len(heard) + i
  /\ InHand = 1 => hand = PutSoFar + 1
  /\ \A i \in DOMAIN stdout : stdout[i] = wrote - Len(stdout) + i
  /\ outLoop # "ended" => wrote = PutSoFar + InHand + Len(stdout)
  /\ doing = "out" => wrote < MaxLines

(* The end of the stream is behind all lines, and nothing follows it.       *)
EndIsLast ==
  /\ \A i \in DOMAIN heard : heard[i] = 0 =>
       /\ i = Len(heard) /\ inbox = <<>> /\ ~ear /\ outLoop = "ended"
       /\ closing = "open" => child = "dead" /\ i = wrote + 1
  /\ \A i \in DOMAIN inbox : inbox[i] = 0 =>
       /\ i = Len(inbox) /\ outLoop = "ended"
       /\ closing = "open" => child = "dead" /\ Len(heard) + i = wrote + 1
  /\ (outLoop = "putting" /\ hand = 0 /\ closing = "open") =>
       child = "dead" /\ stdout = <<>>
PipeInv == StdioTypeOK /\ LinesInPlace /\ EndIsLast

LEMMA PipeStarts == StdioInit => PipeInv
<1> SUFFICES ASSUME StdioInit PROVE PipeInv
  OBVIOUS
<1> USE StdioAssumption DEF StdioInit
<1>1. StdioTypeOK
  <2>1. /\ wrote \in 0 .. MaxLines /\ stdin \in 0 .. PipeCap
        /\ stderr \in 0 .. PipeCap /\ queued \in 0 .. MaxSends
    OBVIOUS
  <2>2. /\ stdout \in Seq(Lines) /\ Len(stdout) <= PipeCap
        /\ inbox \in Seq(Lines \union {0}) /\ Len(inbox) <= InboxCap
        /\ heard \in Seq(Lines \union {0})
    OBVIOUS
  <2>3. /\ hand \in Lines \union {0} /\ ear \in BOOLEAN /\ writing \in BOOLEAN
    OBVIOUS
  <2> QED
    BY <2>1, <2>2, <2>3 DEF StdioTypeOK
<1>2. LinesInPlace
  BY DEF LinesInPlace, PutSoFar, InHand
<1>3. EndIsLast
  BY DEF EndIsLast
<1> QED
  BY <1>1, <1>2, <1>3 DEF PipeInv

LEMMA PipeGoesOn == PipeInv /\ [StdioNext]_stdioVars => PipeInv'
<1> SUFFICES ASSUME PipeInv, [StdioNext]_stdioVars PROVE PipeInv'
  OBVIOUS
<1> USE StdioAssumption DEF childVars, pipes, readers, ears, calling, Lines
<1>1. ASSUME ChildReads PROVE PipeInv'
  <2> USE <1>1 DEF ChildReads, PipesClosed
  <2>1. StdioTypeOK'
    BY DEF PipeInv, StdioTypeOK, LinesInPlace
  <2>2. LinesInPlace'
    BY DEF PipeInv, StdioTypeOK, LinesInPlace, PutSoFar, InHand, EndIsLast
  <2>3. EndIsLast'
    BY DEF PipeInv, StdioTypeOK, LinesInPlace, PutSoFar, InHand, EndIsLast
  <2> QED
    BY <2>1, <2>2, <2>3 DEF PipeInv
<1>2. ASSUME ChildWrites PROVE PipeInv'
  <2>1. /\ child = "alive" /\ doing' = "nothing"
        /\ UNCHANGED <<child, stdin, outLoop, hand, errLoop, inbox, ear, heard,
                       queued, writing, closing>>
    BY <1>2 DEF ChildWrites
  <2>4. doing = "out" => wrote < MaxLines
    BY DEF PipeInv, LinesInPlace
  <2>2. ASSUME stderr < PipeCap, stderr' = stderr + 1,
               UNCHANGED <<stdout, wrote>>
        PROVE  PipeInv'
    <3>1. StdioTypeOK'
      BY <2>1, <2>2 DEF PipeInv, StdioTypeOK
    <3>2. LinesInPlace' /\ EndIsLast'
      BY <2>1, <2>2 DEF PipeInv, LinesInPlace, PutSoFar, InHand, EndIsLast
    <3> QED
      BY <3>1, <3>2 DEF PipeInv
  <2>3. ASSUME Len(stdout) < PipeCap, wrote < MaxLines,
               stdout' = Append(stdout, wrote + 1), wrote' = wrote + 1,
               stderr' = stderr
        PROVE  PipeInv'
    <3>1. stdout \in Seq(Lines) /\ wrote \in Nat /\ wrote + 1 \in Lines
      BY <2>3 DEF PipeInv, StdioTypeOK
    <3>2. /\ stdout' \in Seq(Lines) /\ Len(stdout') = Len(stdout) + 1
          /\ Len(stdout) \in Nat
          /\ DOMAIN stdout = 1 .. Len(stdout)
          /\ DOMAIN stdout' = 1 .. Len(stdout) + 1
          /\ \A i \in 1 .. Len(stdout) : stdout'[i] = stdout[i]
          /\ stdout'[Len(stdout) + 1] = wrote + 1
      BY <2>3, <3>1, OneMore
    <3>3. StdioTypeOK'
      BY <2>1, <2>3, <3>1, <3>2 DEF PipeInv, StdioTypeOK
    <3>4. LinesInPlace'
      <4>1. PutSoFar' = PutSoFar /\ InHand' = InHand
        BY <2>1 DEF PutSoFar, InHand
      <4>2. PutSoFar \in Nat /\ InHand \in Nat
        BY DEF PipeInv, StdioTypeOK, PutSoFar, InHand
      <4>3. ASSUME NEW i \in DOMAIN stdout'
            PROVE  stdout'[i] = wrote' - Len(stdout') + i
        <5>1. CASE i = Len(stdout) + 1
          BY <2>3, <3>1, <3>2, <5>1
        <5>2. CASE i \in DOMAIN stdout
          <6>1. stdout'[i] = wrote - Len(stdout) + i
            BY <3>2, <5>2 DEF PipeInv, LinesInPlace
          <6> QED
            BY <2>3, <3>1, <3>2, <6>1
        <5> QED
          BY <3>2, <4>3, <5>1, <5>2
      <4>4. outLoop' # "ended" => wrote' = PutSoFar' + InHand' + Len(stdout')
        <5>1. outLoop # "ended" => wrote = PutSoFar + InHand + Len(stdout)
          BY DEF PipeInv, LinesInPlace
        <5> QED
          BY <2>1, <2>3, <3>1, <3>2, <4>1, <4>2, <5>1
      <4> QED
        BY <2>1, <4>1, <4>3, <4>4 DEF PipeInv, LinesInPlace
    <3>5. EndIsLast'
      BY <2>1, <2>3 DEF PipeInv, EndIsLast
    <3> QED
      BY <3>3, <3>4, <3>5 DEF PipeInv
  <2> QED
    BY <1>2, <2>2, <2>3, <2>4 DEF ChildWrites
<1>3. ASSUME ChildDies PROVE PipeInv'
  <2> USE <1>3 DEF ChildDies, PipesClosed
  <2>1. StdioTypeOK'
    BY DEF PipeInv, StdioTypeOK, LinesInPlace
  <2>2. LinesInPlace'
    BY DEF PipeInv, StdioTypeOK, LinesInPlace, PutSoFar, InHand, EndIsLast
  <2>3. EndIsLast'
    BY DEF PipeInv, StdioTypeOK, LinesInPlace, PutSoFar, InHand, EndIsLast
  <2> QED
    BY <2>1, <2>2, <2>3 DEF PipeInv
<1>4. ASSUME NEW k \in {"out", "note"}, ChildBegins(k) PROVE PipeInv'
  <2> USE <1>4 DEF ChildBegins, PipesClosed
  <2>1. StdioTypeOK'
    BY DEF PipeInv, StdioTypeOK, LinesInPlace
  <2>2. LinesInPlace'
    BY DEF PipeInv, StdioTypeOK, LinesInPlace, PutSoFar, InHand, EndIsLast
  <2>3. EndIsLast'
    BY DEF PipeInv, StdioTypeOK, LinesInPlace, PutSoFar, InHand, EndIsLast
  <2> QED
    BY <2>1, <2>2, <2>3 DEF PipeInv
<1>5. ASSUME ReadLine PROVE PipeInv'
  <2>1. /\ outLoop = "reading" /\ stdout # <<>> /\ outLoop' = "putting"
        /\ hand' = Head(stdout) /\ stdout' = Tail(stdout)
        /\ UNCHANGED <<child, doing, wrote, stdin, stderr, errLoop, inbox, ear,
                       heard, queued, writing, closing>>
    BY <1>5 DEF ReadLine
  <2>2. stdout \in Seq(Lines)
    BY DEF PipeInv, StdioTypeOK
  <2>3. /\ stdout' \in Seq(Lines) /\ Len(stdout') = Len(stdout) - 1
        /\ Len(stdout) \in Nat \ {0} /\ DOMAIN stdout = 1 .. Len(stdout)
        /\ DOMAIN stdout' = 1 .. Len(stdout) - 1
        /\ \A i \in 1 .. Len(stdout) - 1 : stdout'[i] = stdout[i + 1]
        /\ hand' = stdout[1] /\ hand' \in Lines
    BY <2>1, <2>2, OneLess
  <2>4. StdioTypeOK'
    BY <2>1, <2>3 DEF PipeInv, StdioTypeOK
  <2>5. hand' # 0 /\ InHand' = 1 /\ InHand = 0 /\ PutSoFar' = PutSoFar
    BY <2>1, <2>3 DEF InHand, PutSoFar
  <2>6. wrote \in Nat /\ PutSoFar \in Nat
    BY DEF PipeInv, StdioTypeOK, PutSoFar
  <2>7. LinesInPlace'
    <3>1. wrote = PutSoFar + Len(stdout)
      BY <2>1, <2>3, <2>5, <2>6 DEF PipeInv, LinesInPlace
    <3>2. \A i \in DOMAIN stdout : stdout[i] = wrote - Len(stdout) + i
      BY DEF PipeInv, LinesInPlace
    <3>3. hand' = PutSoFar' + 1
      <4>1. stdout[1] = wrote - Len(stdout) + 1
        <5>1. 1 \in DOMAIN stdout
          BY <2>3
        <5> QED
          BY <3>2, <5>1
      <4> QED
        BY <2>3, <2>5, <2>6, <3>1, <4>1
    <3>4. ASSUME NEW i \in DOMAIN stdout'
          PROVE  stdout'[i] = wrote' - Len(stdout') + i
      <4>1. i + 1 \in DOMAIN stdout /\ stdout'[i] = stdout[i + 1]
        BY <2>3, <3>4, SMTT(30)
      <4>2. stdout[i + 1] = wrote - Len(stdout) + (i + 1)
        BY <3>2, <4>1
      <4> QED
        BY <2>1, <2>3, <2>6, <4>1, <4>2
    <3>5. wrote' = PutSoFar' + InHand' + Len(stdout')
      BY <2>1, <2>3, <2>5, <2>6, <3>1
    <3>6. UNCHANGED <<heard, inbox, doing, wrote>>
      BY <2>1
    <3> QED
      BY <3>3, <3>4, <3>5, <3>6 DEF PipeInv, LinesInPlace
  <2>8. EndIsLast'
    BY <2>1, <2>5 DEF PipeInv, EndIsLast
  <2> QED
    BY <2>4, <2>7, <2>8 DEF PipeInv
<1>6. ASSUME ReadFails PROVE PipeInv'
  <2> USE <1>6 DEF ReadFails, PipesClosed
  <2>1. StdioTypeOK'
    BY DEF PipeInv, StdioTypeOK, LinesInPlace
  <2>2. LinesInPlace'
    BY DEF PipeInv, StdioTypeOK, LinesInPlace, PutSoFar, InHand, EndIsLast
  <2>3. EndIsLast'
    BY DEF PipeInv, StdioTypeOK, LinesInPlace, PutSoFar, InHand, EndIsLast
  <2> QED
    BY <2>1, <2>2, <2>3 DEF PipeInv
<1>7. ASSUME Put PROVE PipeInv'
  <2>1. /\ outLoop = "putting" /\ hand \in Lines \union {0}
        /\ inbox \in Seq(Lines \union {0}) /\ Len(heard) \in Nat
        /\ Len(stdout) \in Nat /\ wrote \in Nat
        /\ UNCHANGED <<child, doing, wrote, stdin, stdout, stderr, hand, errLoop,
                       ear, heard, queued, writing, closing>>
    BY <1>7 DEF Put, PipeInv, StdioTypeOK
  <2>2. ASSUME closing # "open", outLoop' = "ended", inbox' = inbox
        PROVE  PipeInv'
    <3>1. StdioTypeOK'
      BY <2>1, <2>2 DEF PipeInv, StdioTypeOK
    <3>2. LinesInPlace' /\ EndIsLast'
      BY <2>1, <2>2 DEF PipeInv, LinesInPlace, PutSoFar, InHand, EndIsLast
    <3> QED
      BY <3>1, <3>2 DEF PipeInv
  <2>3. ASSUME Len(inbox) < InboxCap, inbox' = Append(inbox, hand),
               outLoop' = IF hand = 0 THEN "ended" ELSE "reading"
        PROVE  PipeInv'
    <3>1. /\ inbox' \in Seq(Lines \union {0}) /\ Len(inbox') = Len(inbox) + 1
          /\ Len(inbox) \in Nat /\ DOMAIN inbox = 1 .. Len(inbox)
          /\ DOMAIN inbox' = 1 .. Len(inbox) + 1
          /\ \A i \in 1 .. Len(inbox) : inbox'[i] = inbox[i]
          /\ inbox'[Len(inbox) + 1] = hand
      BY <2>1, <2>3, OneMore
    <3>2. StdioTypeOK'
      BY <2>1, <2>3, <3>1 DEF PipeInv, StdioTypeOK
    <3>3. InHand = (IF hand = 0 THEN 0 ELSE 1) /\ InHand' = 0
      BY <2>1, <2>3 DEF InHand
    <3>4. PutSoFar = Len(heard) + Len(inbox) /\ PutSoFar' = PutSoFar + 1
      BY <2>1, <3>1 DEF PutSoFar
    <3>5. LinesInPlace'
      <4>1. /\ hand # 0 => hand = PutSoFar + 1
            /\ wrote = PutSoFar + InHand + Len(stdout)
            /\ \A i \in DOMAIN inbox : inbox[i] # 0 => inbox[i] = Len(heard) + i
        BY <2>1, <3>3 DEF PipeInv, LinesInPlace
      <4>2. \A i \in DOMAIN inbox' : inbox'[i] # 0 => inbox'[i] = Len(heard') + i
        <5> SUFFICES ASSUME NEW i \in DOMAIN inbox', inbox'[i] # 0
                     PROVE  inbox'[i] = Len(heard) + i
          BY <2>1
        <5>1. CASE i = Len(inbox) + 1
          <6>1. hand = Len(heard) + Len(inbox) + 1
            BY <3>1, <3>4, <4>1, <5>1
          <6> QED
            BY <2>1, <3>1, <5>1, <6>1
        <5>2. CASE i \in DOMAIN inbox
          BY <3>1, <4>1, <5>2
        <5> QED
          BY <3>1, <5>1, <5>2
      <4>3. outLoop' # "ended" => wrote' = PutSoFar' + InHand' + Len(stdout')
        BY <2>1, <2>3, <3>1, <3>3, <3>4, <4>1
      <4>4. UNCHANGED <<heard, stdout, doing, wrote>>
        BY <2>1
      <4> QED
        BY <3>3, <4>2, <4>3, <4>4 DEF PipeInv, LinesInPlace
    <3>6. (hand = 0 /\ closing = "open") =>
            child = "dead" /\ Len(heard) + Len(inbox) + 1 = wrote + 1
      <4>1. ASSUME hand = 0, closing = "open"
            PROVE  child = "dead" /\ Len(stdout) = 0
        BY <2>1, <4>1 DEF PipeInv, EndIsLast
      <4>2. wrote = PutSoFar + InHand + Len(stdout)
        BY <2>1 DEF PipeInv, LinesInPlace
      <4> QED
        BY <2>1, <3>1, <3>3, <3>4, <4>1, <4>2
    <3>7. \A i \in DOMAIN heard : heard[i] # 0
      BY <2>1 DEF PipeInv, EndIsLast
    <3>8. \A i \in DOMAIN inbox : inbox[i] # 0
      BY <2>1 DEF PipeInv, EndIsLast
    <3>9. EndIsLast'
      BY <2>1, <2>3, <3>1, <3>6, <3>7, <3>8, SMTT(30) DEF EndIsLast
    <3> QED
      BY <3>2, <3>5, <3>9 DEF PipeInv
  <2> QED
    BY <1>7, <2>2, <2>3 DEF Put
<1>8. ASSUME DrainLine PROVE PipeInv'
  <2> USE <1>8 DEF DrainLine, PipesClosed
  <2>1. StdioTypeOK'
    BY DEF PipeInv, StdioTypeOK, LinesInPlace
  <2>2. LinesInPlace'
    BY DEF PipeInv, StdioTypeOK, LinesInPlace, PutSoFar, InHand, EndIsLast
  <2>3. EndIsLast'
    BY DEF PipeInv, StdioTypeOK, LinesInPlace, PutSoFar, InHand, EndIsLast
  <2> QED
    BY <2>1, <2>2, <2>3 DEF PipeInv
<1>9. ASSUME ReceiveLine PROVE PipeInv'
  <2>1. /\ ear /\ heard \in Seq(Lines \union {0})
        /\ inbox \in Seq(Lines \union {0}) /\ wrote \in Nat
        /\ UNCHANGED <<child, doing, wrote, stdin, stdout, stderr, outLoop, hand,
                       errLoop, queued, writing, closing>>
    BY <1>9 DEF ReceiveLine, PipeInv, StdioTypeOK
  <2>2. ASSUME ear' = FALSE, UNCHANGED <<inbox, heard>>
        PROVE  PipeInv'
    <3>1. StdioTypeOK'
      BY <2>1, <2>2 DEF PipeInv, StdioTypeOK
    <3>2. LinesInPlace' /\ EndIsLast'
      BY <2>1, <2>2 DEF PipeInv, LinesInPlace, PutSoFar, InHand, EndIsLast
    <3> QED
      BY <3>1, <3>2 DEF PipeInv
  <2>3. ASSUME inbox # <<>>, inbox' = Tail(inbox),
               heard' = Append(heard, Head(inbox)), ear' = (Head(inbox) # 0)
        PROVE  PipeInv'
    <3>1. /\ inbox' \in Seq(Lines \union {0}) /\ Len(inbox') = Len(inbox) - 1
          /\ Len(inbox) \in Nat \ {0} /\ DOMAIN inbox = 1 .. Len(inbox)
          /\ DOMAIN inbox' = 1 .. Len(inbox) - 1
          /\ \A i \in 1 .. Len(inbox) - 1 : inbox'[i] = inbox[i + 1]
          /\ Head(inbox) = inbox[1] /\ inbox[1] \in Lines \union {0}
      BY <2>1, <2>3, OneLess
    <3>2. /\ heard' \in Seq(Lines \union {0}) /\ Len(heard') = Len(heard) + 1
          /\ Len(heard) \in Nat /\ DOMAIN heard = 1 .. Len(heard)
          /\ DOMAIN heard' = 1 .. Len(heard) + 1
          /\ \A i \in 1 .. Len(heard) : heard'[i] = heard[i]
          /\ heard'[Len(heard) + 1] = inbox[1]
      BY <2>1, <2>3, <3>1, OneMore
    <3>3. StdioTypeOK'
      BY <2>1, <2>3, <3>1, <3>2 DEF PipeInv, StdioTypeOK
    <3>4. PutSoFar \in Nat /\ PutSoFar' = PutSoFar /\ InHand' = InHand
      BY <2>1, <3>1, <3>2 DEF PutSoFar, InHand
    <3>5. LinesInPlace'
      <4>1. inbox[1] # 0 => inbox[1] = Len(heard) + 1
        BY <3>1 DEF PipeInv, LinesInPlace
      <4>2. \A i \in DOMAIN heard' : heard'[i] # 0 => heard'[i] = i
        BY <3>2, <4>1 DEF PipeInv, LinesInPlace
      <4>3. \A i \in DOMAIN inbox' : inbox'[i] # 0 => inbox'[i] = Len(heard') + i
        <5> SUFFICES ASSUME NEW i \in DOMAIN inbox', inbox'[i] # 0
                     PROVE  inbox'[i] = Len(heard') + i
          OBVIOUS
        <5>1. i + 1 \in DOMAIN inbox /\ inbox'[i] = inbox[i + 1]
          BY <3>1
        <5>2. inbox[i + 1] = Len(heard) + (i + 1)
          BY <5>1 DEF PipeInv, LinesInPlace
        <5> QED
          BY <3>1, <3>2, <5>1, <5>2
      <4> QED
        BY <2>1, <3>4, <4>2, <4>3 DEF PipeInv, LinesInPlace
    <3>6. \A i \in DOMAIN heard : heard[i] # 0
      BY <2>1 DEF PipeInv, EndIsLast
    <3>7. inbox[1] = 0 =>
            /\ Len(inbox) = 1 /\ outLoop = "ended"
            /\ closing = "open" => child = "dead" /\ Len(heard) + 1 = wrote + 1
      BY <3>1 DEF PipeInv, EndIsLast
    <3>8. inbox[1] = 0 => inbox' = <<>> /\ ~ear'
      <4>1. Len(inbox') = 0 => inbox' = <<>>
        BY <3>1
      <4>2. inbox[1] = 0 => Len(inbox') = 0
        <5>1. Len(inbox') = Len(inbox) - 1
          BY <3>1
        <5> QED
          BY <3>7, <5>1
      <4>3. inbox[1] = 0 => ear' = FALSE
        BY <2>3, <3>1
      <4> QED
        BY <4>1, <4>2, <4>3
    <3>9. \A i \in DOMAIN heard' : heard'[i] = 0 =>
            /\ i = Len(heard') /\ inbox' = <<>> /\ ~ear' /\ outLoop' = "ended"
            /\ closing' = "open" => child' = "dead" /\ i = wrote' + 1
      BY <2>1, <3>2, <3>6, <3>7, <3>8, SMTT(30)
    <3>10. \A i \in DOMAIN inbox' : inbox'[i] = 0 =>
             /\ i = Len(inbox') /\ outLoop' = "ended"
             /\ closing' = "open" =>
                  child' = "dead" /\ Len(heard') + i = wrote' + 1
      <4> SUFFICES ASSUME NEW i \in DOMAIN inbox', inbox'[i] = 0
                   PROVE  /\ i = Len(inbox') /\ outLoop' = "ended"
                          /\ closing' = "open" =>
                               child' = "dead" /\ Len(heard') + i = wrote' + 1
        OBVIOUS
      <4>1. i + 1 \in DOMAIN inbox /\ inbox[i + 1] = 0
        BY <3>1
      <4>2. /\ i + 1 = Len(inbox) /\ outLoop = "ended"
            /\ closing = "open" =>
                 child = "dead" /\ Len(heard) + (i + 1) = wrote + 1
        BY <4>1 DEF PipeInv, EndIsLast
      <4>3. i \in Nat /\ Len(heard) \in Nat /\ Len(inbox) \in Nat
        BY <3>1, <3>2
      <4>4. i = Len(inbox') /\ Len(heard') + i = Len(heard) + (i + 1)
        <5>1. /\ i + 1 = Len(inbox) /\ Len(inbox') = Len(inbox) - 1
              /\ Len(heard') = Len(heard) + 1
          BY <3>1, <3>2, <4>2
        <5> QED
          BY ONLY <4>3, <5>1
      <4> QED
        BY <2>1, <4>2, <4>4
    <3>11. EndIsLast'
      BY <2>1, <3>9, <3>10 DEF PipeInv, EndIsLast
    <3> QED
      BY <3>3, <3>5, <3>11 DEF PipeInv
  <2> QED
    BY <1>9, <2>2, <2>3 DEF ReceiveLine
<1>10. ASSUME SendBegins PROVE PipeInv'
  <2> USE <1>10 DEF SendBegins, PipesClosed
  <2>1. StdioTypeOK'
    BY DEF PipeInv, StdioTypeOK, LinesInPlace
  <2>2. LinesInPlace'
    BY DEF PipeInv, StdioTypeOK, LinesInPlace, PutSoFar, InHand, EndIsLast
  <2>3. EndIsLast'
    BY DEF PipeInv, StdioTypeOK, LinesInPlace, PutSoFar, InHand, EndIsLast
  <2> QED
    BY <2>1, <2>2, <2>3 DEF PipeInv
<1>11. ASSUME SendLocks PROVE PipeInv'
  <2>1. UNCHANGED <<childVars, stdout, stderr, readers, ears, closing>>
    BY <1>11 DEF SendLocks
  <2>2. /\ stdin' \in 0 .. PipeCap /\ queued' \in 0 .. MaxSends
        /\ writing' \in BOOLEAN
    <3>1. /\ stdin \in 0 .. PipeCap /\ queued \in 0 .. MaxSends
          /\ PipeCap \in Nat /\ MaxSends \in Nat
      BY DEF PipeInv, StdioTypeOK
    <3>2. writing' \in BOOLEAN
      BY <1>11 DEF SendLocks
    <3>3. stdin' \in 0 .. PipeCap /\ queued' \in 0 .. MaxSends
      BY <1>11, <3>1 DEF SendLocks
    <3> QED
      BY <3>2, <3>3
  <2>3. StdioTypeOK'
    BY <2>1, <2>2 DEF PipeInv, StdioTypeOK
  <2>4. LinesInPlace' /\ EndIsLast'
    BY <2>1 DEF PipeInv, LinesInPlace, PutSoFar, InHand, EndIsLast
  <2> QED
    BY <2>3, <2>4 DEF PipeInv
<1>12. ASSUME SendReturns PROVE PipeInv'
  <2>1. UNCHANGED <<childVars, stdout, stderr, readers, ears, closing>>
    BY <1>12 DEF SendReturns
  <2>2. /\ stdin' \in 0 .. PipeCap /\ queued' \in 0 .. MaxSends
        /\ writing' \in BOOLEAN
    <3>1. /\ stdin \in 0 .. PipeCap /\ queued \in 0 .. MaxSends
          /\ PipeCap \in Nat /\ MaxSends \in Nat
      BY DEF PipeInv, StdioTypeOK
    <3>2. writing' \in BOOLEAN
      BY <1>12 DEF SendReturns
    <3>3. stdin' \in 0 .. PipeCap /\ queued' \in 0 .. MaxSends
      BY <1>12, <3>1 DEF SendReturns
    <3> QED
      BY <3>2, <3>3
  <2>3. StdioTypeOK'
    BY <2>1, <2>2 DEF PipeInv, StdioTypeOK
  <2>4. LinesInPlace' /\ EndIsLast'
    BY <2>1 DEF PipeInv, LinesInPlace, PutSoFar, InHand, EndIsLast
  <2> QED
    BY <2>3, <2>4 DEF PipeInv
<1>13. ASSUME CloseStep PROVE PipeInv'
  <2> USE <1>13 DEF CloseStep, PipesClosed
  <2>1. StdioTypeOK'
    BY DEF PipeInv, StdioTypeOK, LinesInPlace
  <2>2. LinesInPlace'
    BY DEF PipeInv, StdioTypeOK, LinesInPlace, PutSoFar, InHand, EndIsLast
  <2>3. EndIsLast'
    BY DEF PipeInv, StdioTypeOK, LinesInPlace, PutSoFar, InHand, EndIsLast
  <2> QED
    BY <2>1, <2>2, <2>3 DEF PipeInv
<1>14. CASE UNCHANGED stdioVars
  BY <1>14
     DEF stdioVars, PipeInv, StdioTypeOK, LinesInPlace, PutSoFar, InHand,
         EndIsLast
<1> QED
  BY <1>1, <1>2, <1>3, <1>4, <1>5, <1>6, <1>7, <1>8, <1>9, <1>10, <1>11,
     <1>12, <1>13, <1>14
     DEF StdioNext

(* Once the end was read the child writes no more, for it is gone or its    *)
(* pipe is closed.                                                          *)
EndRead ==
  \/ outLoop = "putting" /\ hand = 0
  \/ \E i \in DOMAIN inbox : inbox[i] = 0
  \/ \E i \in DOMAIN heard : heard[i] = 0
WritesAreOver == EndRead => child = "dead" \/ PipesClosed

LEMMA PipeEnds ==
  PipeInv /\ WritesAreOver /\ [StdioNext]_stdioVars => WritesAreOver'
<1> SUFFICES ASSUME PipeInv, WritesAreOver, [StdioNext]_stdioVars, EndRead'
             PROVE  (child = "dead" \/ PipesClosed)'
  BY DEF WritesAreOver
<1> USE DEF childVars, pipes, readers, ears, calling
<1>0. /\ inbox \in Seq(Lines \union {0}) /\ heard \in Seq(Lines \union {0})
      /\ hand \in Lines \union {0}
  BY DEF PipeInv, StdioTypeOK
<1>1. (child = "dead" \/ PipesClosed) => (child = "dead" \/ PipesClosed)'
  BY DEF StdioNext, ChildReads, ChildWrites, ChildDies, ChildBegins, ReadLine,
         ReadFails, Put, DrainLine, ReceiveLine, SendBegins, SendLocks,
         SendReturns, CloseStep, stdioVars, PipesClosed
<1>2. CASE ReadLine
  <2>1. hand' # 0
    BY <1>2, OneLess, StdioAssumption
       DEF ReadLine, PipeInv, StdioTypeOK, Lines, StdioAssumption
  <2>2. EndRead
    BY <1>2, <2>1 DEF ReadLine, EndRead
  <2> QED
    BY <1>1, <2>2 DEF WritesAreOver
<1>3. CASE ReadFails
  BY <1>3 DEF ReadFails, PipesClosed
<1>4. CASE Put
  <2>1. outLoop = "putting" /\ heard' = heard /\ hand' = hand /\ outLoop' # "putting"
    BY <1>4 DEF Put
  <2>2. inbox' = inbox \/ inbox' = Append(inbox, hand)
    BY <1>4 DEF Put
  <2>3. EndRead
    <3>1. CASE inbox' = inbox
      BY <2>1, <3>1 DEF EndRead
    <3>2. CASE inbox' = Append(inbox, hand)
      <4>1. /\ DOMAIN inbox = 1 .. Len(inbox) /\ DOMAIN inbox' = 1 .. Len(inbox) + 1
            /\ \A i \in 1 .. Len(inbox) : inbox'[i] = inbox[i]
            /\ inbox'[Len(inbox) + 1] = hand /\ Len(inbox) \in Nat
        BY <1>0, <3>2, OneMore
      <4>2. ASSUME NEW i \in DOMAIN inbox', inbox'[i] = 0 PROVE EndRead
        <5>1. CASE i = Len(inbox) + 1
          BY <2>1, <4>1, <4>2, <5>1 DEF EndRead
        <5>2. CASE i \in DOMAIN inbox
          BY <4>1, <4>2, <5>2 DEF EndRead
        <5> QED
          BY <4>1, <4>2, <5>1, <5>2
      <4> QED
        BY <2>1, <4>2 DEF EndRead
    <3> QED
      BY <2>2, <3>1, <3>2
  <2> QED
    BY <1>1, <2>3 DEF WritesAreOver
<1>5. CASE ReceiveLine
  <2>1. outLoop' = outLoop /\ hand' = hand
    BY <1>5 DEF ReceiveLine
  <2>2. CASE inbox' = inbox /\ heard' = heard
    <3>1. EndRead
      BY <2>1, <2>2 DEF EndRead
    <3> QED
      BY <1>1, <3>1 DEF WritesAreOver
  <2>3. CASE inbox # <<>> /\ inbox' = Tail(inbox) /\ heard' = Append(heard, Head(inbox))
    <3>1. /\ DOMAIN inbox = 1 .. Len(inbox) /\ DOMAIN inbox' = 1 .. Len(inbox) - 1
          /\ \A i \in 1 .. Len(inbox) - 1 : inbox'[i] = inbox[i + 1]
          /\ Head(inbox) = inbox[1] /\ Len(inbox) \in Nat \ {0}
          /\ Head(inbox) \in Lines \union {0}
      BY <1>0, <2>3, OneLess
    <3>2. /\ DOMAIN heard = 1 .. Len(heard) /\ DOMAIN heard' = 1 .. Len(heard) + 1
          /\ \A i \in 1 .. Len(heard) : heard'[i] = heard[i]
          /\ heard'[Len(heard) + 1] = inbox[1] /\ Len(heard) \in Nat
      BY <1>0, <2>3, <3>1, OneMore
    <3>3. ASSUME NEW i \in DOMAIN inbox', inbox'[i] = 0 PROVE EndRead
      <4>1. i + 1 \in DOMAIN inbox /\ inbox[i + 1] = 0
        BY <3>1, <3>3
      <4> QED
        BY <4>1 DEF EndRead
    <3>4. ASSUME NEW i \in DOMAIN heard', heard'[i] = 0 PROVE EndRead
      <4>1. CASE i = Len(heard) + 1
        <5>1. 1 \in DOMAIN inbox /\ inbox[1] = 0
          BY <3>1, <3>2, <3>4, <4>1
        <5> QED
          BY <5>1 DEF EndRead
      <4>2. CASE i \in DOMAIN heard
        BY <3>2, <3>4, <4>2 DEF EndRead
      <4> QED
        BY <3>2, <3>4, <4>1, <4>2
    <3>5. EndRead
      BY <2>1, <3>3, <3>4 DEF EndRead
    <3> QED
      BY <1>1, <3>5 DEF WritesAreOver
  <2> QED
    BY <1>5, <2>2, <2>3 DEF ReceiveLine
<1>6. CASE UNCHANGED <<outLoop, hand, inbox, heard>>
  <2>1. EndRead
    BY <1>6 DEF EndRead
  <2> QED
    BY <1>1, <2>1 DEF WritesAreOver
<1>7. \/ ReadLine \/ ReadFails \/ Put \/ ReceiveLine
      \/ UNCHANGED <<outLoop, hand, inbox, heard>>
  BY DEF StdioNext, ChildReads, ChildWrites, ChildDies, ChildBegins, DrainLine,
         SendBegins, SendLocks, SendReturns, CloseStep, stdioVars
<1> QED
  BY <1>2, <1>3, <1>4, <1>5, <1>6, <1>7

(* What was heard are the lines in their order, the end behind them.        *)
LEMMA HeardInOrder ==
  ASSUME PipeInv
  PROVE  /\ LinesHeard \in Seq(Lines)
         /\ EndHeard => Len(LinesHeard) = Len(heard) - 1 /\ ~ear
         /\ ~EndHeard => LinesHeard = heard
         /\ \A i \in 1 .. Len(LinesHeard) : LinesHeard[i] = i
         /\ Len(heard) \in Nat /\ wrote \in Nat /\ wrote <= MaxLines
<1>1. /\ heard \in Seq(Lines \union {0}) /\ inbox \in Seq(Lines \union {0})
      /\ wrote \in Nat /\ wrote <= MaxLines
      /\ DOMAIN heard = 1 .. Len(heard) /\ Len(heard) \in Nat
  BY DEF PipeInv, StdioTypeOK
<1>2. \A i \in 1 .. Len(heard) : heard[i] # 0 => heard[i] = i /\ heard[i] \in Lines
  BY <1>1 DEF PipeInv, LinesInPlace
<1>3. \A i \in 1 .. Len(heard) : heard[i] = 0 => i = Len(heard) /\ ~ear
  BY <1>1 DEF PipeInv, EndIsLast
<1>4. CASE EndHeard
  <2>1. Len(heard) \in 1 .. Len(heard) /\ heard[Len(heard)] = 0
    BY <1>1, <1>4 DEF EndHeard
  <2>2. ASSUME NEW i \in 1 .. Len(heard) - 1
        PROVE  heard[i] = i /\ heard[i] \in Lines
    <3>1. i \in 1 .. Len(heard) /\ i # Len(heard)
      <4>1. \A n \in Nat : \A k \in 1 .. n - 1 : k \in 1 .. n /\ k # n
        OBVIOUS
      <4> QED
        BY <1>1, <4>1
    <3> QED
      BY <1>2, <1>3, <3>1
  <2>3. LinesHeard = [i \in 1 .. Len(heard) - 1 |-> heard[i]]
    BY <1>1, <1>4, <2>1 DEF LinesHeard, SubSeq
  <2>4. LinesHeard \in Seq(Lines) /\ Len(LinesHeard) = Len(heard) - 1
    BY <1>1, <2>1, <2>2, <2>3
  <2> QED
    BY <1>1, <1>3, <1>4, <2>1, <2>2, <2>3, <2>4
<1>5. CASE ~EndHeard
  <2>1. ASSUME NEW i \in 1 .. Len(heard)
        PROVE  heard[i] = i /\ heard[i] \in Lines
    <3>1. heard[i] # 0
      <4>1. heard # <<>>
        BY <1>1, <2>1
      <4> QED
        BY <1>3, <1>5, <2>1, <4>1 DEF EndHeard
    <3> QED
      BY <1>2, <2>1, <3>1
  <2>2. LinesHeard = heard
    BY <1>5 DEF LinesHeard
  <2>3. heard \in Seq(Lines)
    <3>1. heard = [i \in 1 .. Len(heard) |-> heard[i]]
      BY <1>1
    <3> QED
      BY <1>1, <2>1, <3>1
  <2> QED
    BY <1>1, <1>5, <2>1, <2>2, <2>3
<1> QED
  BY <1>4, <1>5

(* No line is ahead of what was written.                                    *)
NoneInvented ==
  /\ hand <= wrote
  /\ \A i \in DOMAIN inbox : inbox[i] <= wrote

LEMMA PipeInvents ==
  PipeInv /\ NoneInvented /\ [StdioNext]_stdioVars => NoneInvented'
<1> SUFFICES ASSUME PipeInv, NoneInvented, [StdioNext]_stdioVars
             PROVE  NoneInvented'
  OBVIOUS
<1> USE DEF childVars, pipes, readers, ears, calling
<1>0. /\ inbox \in Seq(Lines \union {0}) /\ stdout \in Seq(Lines)
      /\ hand \in Lines \union {0} /\ wrote \in Nat /\ Lines \subseteq Nat
      /\ DOMAIN inbox = 1 .. Len(inbox) /\ Len(inbox) \in Nat
      /\ \A i \in DOMAIN inbox : inbox[i] \in Nat
      /\ hand \in Nat
  BY StdioAssumption DEF PipeInv, StdioTypeOK, Lines, StdioAssumption
<1>1. CASE ChildWrites
  <2>1. wrote' \in Nat /\ wrote <= wrote' /\ UNCHANGED <<hand, inbox>>
    BY <1>0, <1>1 DEF ChildWrites
  <2> QED
    BY <1>0, <2>1 DEF NoneInvented
<1>2. CASE ReadLine
  <2>1. stdout # <<>> /\ hand' = stdout[1] /\ UNCHANGED <<wrote, inbox>>
    BY <1>0, <1>2, OneLess DEF ReadLine
  <2>2. Len(stdout) \in Nat \ {0} /\ 1 \in DOMAIN stdout
    BY <1>0, <2>1, OneLess
  <2>3. stdout[1] = wrote - Len(stdout) + 1
    BY <2>2 DEF PipeInv, LinesInPlace
  <2>4. hand' <= wrote'
    BY <1>0, <2>1, <2>2, <2>3
  <2> QED
    BY <2>1, <2>4 DEF NoneInvented
<1>3. CASE ReadFails
  BY <1>0, <1>3 DEF ReadFails, NoneInvented
<1>4. CASE Put
  <2>1. UNCHANGED <<wrote, hand>> /\ (inbox' = inbox \/ inbox' = Append(inbox, hand))
    BY <1>4 DEF Put
  <2>2. CASE inbox' = inbox
    BY <2>1, <2>2 DEF NoneInvented
  <2>3. CASE inbox' = Append(inbox, hand)
    <3>1. /\ DOMAIN inbox' = 1 .. Len(inbox) + 1
          /\ \A i \in 1 .. Len(inbox) : inbox'[i] = inbox[i]
          /\ inbox'[Len(inbox) + 1] = hand
      BY <1>0, <2>3, OneMore
    <3>2. ASSUME NEW i \in DOMAIN inbox' PROVE inbox'[i] <= wrote'
      <4>1. CASE i = Len(inbox) + 1
        BY <2>1, <3>1, <4>1 DEF NoneInvented
      <4>2. CASE i \in 1 .. Len(inbox)
        BY <1>0, <2>1, <3>1, <4>2 DEF NoneInvented
      <4> QED
        BY <1>0, <3>1, <3>2, <4>1, <4>2
    <3> QED
      BY <2>1, <3>2 DEF NoneInvented
  <2> QED
    BY <2>1, <2>2, <2>3
<1>5. CASE ReceiveLine
  <2>1. /\ UNCHANGED <<wrote, hand>>
        /\ inbox' = inbox \/ (inbox # <<>> /\ inbox' = Tail(inbox))
    BY <1>5 DEF ReceiveLine
  <2>2. CASE inbox' = inbox
    BY <2>1, <2>2 DEF NoneInvented
  <2>3. CASE inbox # <<>> /\ inbox' = Tail(inbox)
    <3>1. /\ DOMAIN inbox' = 1 .. Len(inbox) - 1
          /\ \A i \in 1 .. Len(inbox) - 1 : inbox'[i] = inbox[i + 1]
      BY <1>0, <2>3, OneLess
    <3>2. ASSUME NEW i \in DOMAIN inbox' PROVE inbox'[i] <= wrote'
      <4>1. i + 1 \in DOMAIN inbox /\ inbox'[i] = inbox[i + 1]
        BY <1>0, <3>1, <3>2
      <4> QED
        BY <2>1, <4>1 DEF NoneInvented
    <3> QED
      BY <2>1, <3>2 DEF NoneInvented
  <2> QED
    BY <2>1, <2>2, <2>3
<1>6. CASE UNCHANGED <<wrote, hand, inbox>>
  BY <1>6 DEF NoneInvented
<1>7. \/ ChildWrites \/ ReadLine \/ ReadFails \/ Put \/ ReceiveLine
      \/ UNCHANGED <<wrote, hand, inbox>>
  BY DEF StdioNext, ChildReads, ChildDies, ChildBegins, DrainLine,
         SendBegins, SendLocks, SendReturns, CloseStep, stdioVars
<1> QED
  BY <1>1, <1>2, <1>3, <1>4, <1>5, <1>6, <1>7

(* Each step of the transport is one of the stream its receiver knows, or   *)
(* is not seen there.                                                       *)
Written == [i \in 1 .. wrote |-> i]
outputVars == <<Written, LinesHeard, OutputEnd, closing # "open">>

LEMMA WrittenInOrder ==
  ASSUME NEW n \in Nat, n < MaxLines
  PROVE  /\ [i \in 1 .. n + 1 |-> i] = Append([i \in 1 .. n |-> i], n + 1)
         /\ n + 1 \in Lines
<1> DEFINE s == [i \in 1 .. n |-> i]
           r == [i \in 1 .. n + 1 |-> i]
<1>1. n + 1 \in Nat
  OBVIOUS
<1>2. \A k \in Nat : /\ [i \in 1 .. k |-> i] \in Seq(Nat)
                     /\ Len([i \in 1 .. k |-> i]) = k
  OBVIOUS
<1>3. s \in Seq(Nat) /\ r \in Seq(Nat) /\ Len(s) = n /\ Len(r) = n + 1
  BY <1>1, <1>2
<1>4. r[n + 1] = n + 1 /\ \A i \in 1 .. n : r[i] = s[i]
  OBVIOUS
<1>5. n + 1 \in Lines
  BY StdioAssumption DEF Lines, StdioAssumption
<1> HIDE DEF s, r
<1>6. r = Append(s, n + 1)
  BY <1>1, <1>3, <1>4, GrownByOne
<1> QED
  BY <1>5, <1>6 DEF s, r

LEMMA PipeStartsAsStream ==
  StdioInit => Output!Init /\ WritesAreOver /\ NoneInvented
<1> SUFFICES ASSUME StdioInit
             PROVE  Output!Init /\ WritesAreOver /\ NoneInvented
  OBVIOUS
<1>1. wrote = 0 /\ heard = <<>> /\ inbox = <<>> /\ ear /\ closing = "open"
      /\ outLoop = "reading" /\ hand = 0
  BY DEF StdioInit
<1>2. Written = <<>>
  BY <1>1 DEF Written
<1>3. LinesHeard = <<>> /\ OutputEnd = "open"
  BY <1>1 DEF LinesHeard, EndHeard, OutputEnd
<1> QED
  BY <1>1, <1>2, <1>3
     DEF Output!Init, WritesAreOver, EndRead, NoneInvented, Written

LEMMA PipeIsStream ==
  PipeInv /\ WritesAreOver /\ NoneInvented /\ [StdioNext]_stdioVars
    => [Output!Next]_outputVars
<1> SUFFICES ASSUME PipeInv, WritesAreOver, NoneInvented, [StdioNext]_stdioVars
             PROVE  Output!Next \/ UNCHANGED outputVars
  BY DEF outputVars
<1> USE DEF childVars, pipes, readers, ears, calling
<1>0. /\ heard \in Seq(Lines \union {0}) /\ inbox \in Seq(Lines \union {0})
      /\ Len(heard) \in Nat /\ Len(inbox) \in Nat
      /\ wrote \in Nat /\ ear \in BOOLEAN
  BY DEF PipeInv, StdioTypeOK
<1>1. CASE ChildWrites
  <2>1. UNCHANGED <<heard, ear, closing, LinesHeard>>
    BY <1>1 DEF ChildWrites, LinesHeard, EndHeard
  <2>2. CASE wrote' = wrote
    BY <2>1, <2>2 DEF outputVars, Written, OutputEnd, EndHeard
  <2>3. CASE wrote' = wrote + 1 /\ doing = "out"
    <3>1. wrote < MaxLines
      BY <2>3 DEF PipeInv, LinesInPlace
    <3>2. ~EndHeard
      <4>1. child # "dead" /\ ~PipesClosed
        BY <1>1 DEF ChildWrites
      <4>2. ~EndRead
        BY <4>1 DEF WritesAreOver
      <4> QED
        BY <1>0, <4>2 DEF EndRead, EndHeard
    <3>3. OutputEnd' = OutputEnd /\ OutputEnd # "whole"
      BY <2>1, <3>2 DEF OutputEnd, EndHeard
    <3>4. Written' = Append(Written, wrote + 1) /\ wrote + 1 \in Lines
      BY <1>0, <2>3, <3>1, WrittenInOrder DEF Written
    <3>5. PICK x \in Lines : x = wrote + 1
      BY <3>4
    <3>6. Output!Send(x)
      BY <2>1, <3>3, <3>4, <3>5 DEF Output!Send, Written
    <3> QED
      BY <3>6 DEF Output!Next
  <2> QED
    BY <1>1, <2>2, <2>3 DEF ChildWrites
<1>2. CASE ReceiveLine
  <2>1. ear /\ UNCHANGED <<wrote, closing, Written>>
    BY <1>2 DEF ReceiveLine, Written
  <2>2. OutputEnd = "open" /\ ~EndHeard /\ LinesHeard = heard
    BY <2>1, HeardInOrder DEF OutputEnd
  <2>3. CASE closing # "open" /\ ear' = FALSE /\ heard' = heard
    <3>1. ~EndHeard' /\ LinesHeard' = LinesHeard
      BY <2>2, <2>3 DEF EndHeard, LinesHeard
    <3>2. OutputEnd' = "cut"
      BY <2>3, <3>1 DEF OutputEnd
    <3> QED
      BY <2>1, <2>2, <2>3, <3>1, <3>2 DEF Output!Next, Output!End, Written
  <2>4. CASE /\ inbox # <<>> /\ heard' = Append(heard, Head(inbox))
             /\ ear' = (Head(inbox) # 0)
    <3>1. /\ Head(inbox) = inbox[1] /\ 1 \in DOMAIN inbox
          /\ Head(inbox) \in Lines \union {0}
      BY <1>0, <2>4, OneLess
    <3>2. /\ Len(heard') = Len(heard) + 1 /\ heard' # <<>>
          /\ heard'[Len(heard) + 1] = inbox[1]
          /\ \A i \in 1 .. Len(heard) : heard'[i] = heard[i]
      BY <1>0, <2>4, <3>1, OneMore
    <3>3. CASE inbox[1] # 0
      <4>1. inbox[1] = Len(heard) + 1 /\ inbox[1] <= wrote
        BY <3>1, <3>3 DEF PipeInv, LinesInPlace, NoneInvented
      <4>2. ear' /\ ~EndHeard' /\ LinesHeard' = heard'
        BY <2>4, <3>1, <3>2, <3>3 DEF EndHeard, LinesHeard
      <4>3. OutputEnd' = "open"
        BY <4>2 DEF OutputEnd
      <4>4. Len(Written) = wrote /\ Written[Len(heard) + 1] = Len(heard) + 1
        BY <1>0, <4>1 DEF Written
      <4>5. Output!Hear
        BY <1>0, <2>1, <2>2, <2>4, <3>1, <4>1, <4>2, <4>3, <4>4
           DEF Output!Hear, Written
      <4> QED
        BY <4>5 DEF Output!Next
    <3>4. CASE inbox[1] = 0
      <4>1. ~ear' /\ EndHeard'
        BY <2>4, <3>1, <3>2, <3>4 DEF EndHeard
      <4>2. LinesHeard' = heard
        <5>1. heard' = Append(heard, 0) /\ LinesHeard' = SubSeq(heard', 1, Len(heard))
          BY <1>0, <2>4, <3>1, <3>2, <3>4, <4>1 DEF LinesHeard
        <5>2. SubSeq(heard', 1, Len(heard)) = [i \in 1 .. Len(heard) |-> heard[i]]
          BY <1>0, <3>2
        <5>3. heard = [i \in 1 .. Len(heard) |-> heard[i]]
          BY <1>0
        <5> QED
          BY <5>1, <5>2, <5>3
      <4>3. closing = "open" => Len(heard) = wrote
        BY <1>0, <3>1, <3>4 DEF PipeInv, EndIsLast
      <4>4. CASE Len(heard) = wrote
        <5>1. OutputEnd' = "whole"
          BY <1>0, <2>1, <3>2, <4>1, <4>4 DEF OutputEnd
        <5>2. LinesHeard = Written
          <6>1. \A i \in 1 .. Len(heard) : heard[i] = Written[i]
            BY <1>0, <2>2, <4>4, HeardInOrder DEF Written
          <6>2. Len(Written) = wrote /\ Written \in Seq(Nat)
            BY <1>0 DEF Written
          <6>3. heard \in Seq(Lines)
            BY <2>2, HeardInOrder
          <6>4. heard \in Seq(Nat)
            BY <6>3, StdioAssumption DEF Lines, StdioAssumption
          <6> QED
            BY <2>2, <4>4, <6>1, <6>2, <6>4, SeqEqual
        <5> QED
          BY <2>1, <2>2, <4>2, <5>1, <5>2 DEF Output!Next, Output!End, Written
      <4>5. CASE Len(heard) # wrote
        <5>1. OutputEnd' = "cut" /\ closing # "open"
          BY <1>0, <2>1, <3>2, <4>1, <4>3, <4>5 DEF OutputEnd
        <5> QED
          BY <2>1, <2>2, <4>2, <5>1 DEF Output!Next, Output!End, Written
      <4> QED
        BY <4>4, <4>5
    <3> QED
      BY <3>3, <3>4
  <2> QED
    BY <1>2, <2>3, <2>4 DEF ReceiveLine
<1>3. CASE CloseStep
  <2>1. /\ UNCHANGED <<wrote, heard, ear>> /\ closing' # "open"
    BY <1>3 DEF CloseStep
  <2>2. UNCHANGED <<Written, LinesHeard, OutputEnd>>
    BY <2>1 DEF Written, LinesHeard, OutputEnd, EndHeard
  <2> QED
    BY <2>1, <2>2 DEF Output!Next, Output!Stop, Written
<1>4. CASE UNCHANGED <<wrote, heard, ear, closing>>
  BY <1>4 DEF outputVars, Written, LinesHeard, OutputEnd, EndHeard
<1>5. ChildWrites \/ ReceiveLine \/ CloseStep \/ UNCHANGED <<wrote, heard, ear, closing>>
  BY DEF StdioNext, ChildReads, ChildDies, ChildBegins, ReadLine, ReadFails,
         Put, DrainLine, SendBegins, SendLocks, SendReturns, stdioVars
<1> QED
  BY <1>1, <1>2, <1>3, <1>4, <1>5

-----------------------------------------------------------------------------
(* The three together.  *)

WorkersInv == IInv /\ ChainInv /\ PipeInv /\ WritesAreOver /\ NoneInvented

LEMMA WorkersStart == WorkersInit => WorkersInv
  BY InitEstablishes, ChainStarts, PipeStarts, PipeStartsAsStream
     DEF WorkersInit, WorkersInv

LEMMA PartsStep ==
  [WorkersNext]_<<part, vars, streamVars, stdioVars>> =>
    [Next]_vars /\ [StreamNext]_streamVars /\ [StdioNext]_stdioVars
  BY DEF WorkersNext

LEMMA WorkersGoOn ==
  WorkersInv /\ [WorkersNext]_<<part, vars, streamVars, stdioVars>> => WorkersInv'
<1> SUFFICES ASSUME WorkersInv,
                    [WorkersNext]_<<part, vars, streamVars, stdioVars>>
             PROVE  WorkersInv'
  OBVIOUS
<1>1. [Next]_vars /\ [StreamNext]_streamVars /\ [StdioNext]_stdioVars
  BY PartsStep
<1>2. IInv' /\ ChainInv' /\ PipeInv'
  BY <1>1, InvariantKept, ChainGoesOn, PipeGoesOn DEF WorkersInv
<1>3. WritesAreOver'
  BY <1>1, PipeEnds DEF WorkersInv
<1>4. NoneInvented'
  BY <1>1, PipeInvents DEF WorkersInv
<1> QED
  BY <1>2, <1>3, <1>4 DEF WorkersInv

(* fallback.go:83-167 and stdio.go:113-197: the consumer of a request hears *)
(* one provider only, in full unless it is told of an error or cancelled,   *)
(* and the reader of a server's output gets its lines in their order        *)
(* without a gap, the end behind them all, however long the chain and       *)
(* whatever the sizes of pipes and channels.                                *)
THEOREM StreamsStayWhole == WorkersSpec => []StreamsAreWhole
<1>1. ChainInv => FailoverIsSeamless
  BY DEF ChainInv, WhereTheChainIs, FailoverIsSeamless, ClosedMeansComplete
<1>2. PipeInv => LinesArrive
  BY DEF PipeInv, LinesInPlace, EndIsLast, LinesArrive
<1>3. WorkersInv => StreamsAreWhole
  BY <1>1, <1>2 DEF WorkersInv, StreamsAreWhole
<1> QED
  BY WorkersStart, WorkersGoOn, <1>3, PTL DEF WorkersSpec

(* Everything of the three keeps its type: the semaphore, the pipes and the *)
(* channel of lines never hold more than they have room for.                *)
THEOREM WorkersKeepTypes == WorkersSpec => []WorkersTypeOK
<1>1. WorkersInv => WorkersTypeOK
  BY DEF WorkersInv, IInv, ChainInv, PipeInv, WorkersTypeOK
<1> QED
  BY WorkersStart, WorkersGoOn, <1>1, PTL DEF WorkersSpec

(* fallback.go:83-167 and stdio.go:113-197: the chain of providers and the  *)
(* transport each implement an ordered stream, for every chain and every    *)
(* size of pipes and channels: nothing is skipped, repeated or heard out of *)
(* order, nothing follows the end, and a listener who did not stop the      *)
(* stream takes it for whole only when it is.                               *)
THEOREM StreamsAreImplemented == WorkersSpec => ImplementStreams
<1> DEFINE answer == <<AnswerSent, AnswerHeard, AnswerEnd, cancelled>>
           output == <<[i \in 1 .. wrote |-> i], LinesHeard, OutputEnd,
                       closing # "open">>
<1>1. WorkersInit => Answer!Init /\ Output!Init
  BY ChainStartsAsStream, PipeStartsAsStream DEF WorkersInit
<1>2. ASSUME WorkersInv, WorkersInv',
             [WorkersNext]_<<part, vars, streamVars, stdioVars>>
      PROVE  [Answer!Next]_answer /\ [Output!Next]_output
  <2>1. [StreamNext]_streamVars /\ [StdioNext]_stdioVars
    BY <1>2, PartsStep
  <2>2. [Answer!Next]_answer
    BY <1>2, <2>1, ChainIsStream DEF WorkersInv, answerVars
  <2>3. [Output!Next]_output
    BY <1>2, <2>1, PipeIsStream DEF WorkersInv, outputVars, Written
  <2> QED
    BY <2>2, <2>3
<1> QED
  BY WorkersStart, WorkersGoOn, <1>1, <1>2, PTL
     DEF WorkersSpec, ImplementStreams, Answer!Spec, Output!Spec

(* What the engine keeps for itself it keeps beside the two others, as the  *)
(* run has it: slots are counted and nesting is bounded (subagent.go), the  *)
(* streams are whole (fallback.go, stdio.go), and the engine is a pool.     *)
THEOREM WorkersHold ==
  WorkersSpec =>
    /\ [](SlotsMatchHolders /\ NestingIsBounded /\ StreamsAreWhole)
    /\ ImplementsPool
<1>1. WorkersInit => Init
  BY DEF WorkersInit
<1>2. [WorkersNext]_<<part, vars, streamVars, stdioVars>> => [Next]_vars
  BY PartsStep
<1>3. WorkersSpec => Spec
  BY <1>1, <1>2, PTL DEF WorkersSpec, Spec
<1> QED
  BY <1>3, SlotsAreCounted, NestingIsSafe, StreamsStayWhole,
     EngineImplementsPool, PTL
=============================================================================
