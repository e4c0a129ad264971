--------------------------- MODULE CredentialPool ---------------------------
(***************************************************************************)
(* The API keys of one provider (internal/adapters/llm/pool.go) and the     *)
(* calls that share them: the retry loop of Client.doChat and of            *)
(* Anthropic.doMessages.  A call sends its request with the current key,    *)
(* and on HTTP 429 asks the pool to move on and tries again, at most once   *)
(* for every key.  Between a call's look at the pool and its rotation any   *)
(* number of other calls may rotate.  An empty pool behaves as one key.     *)
(***************************************************************************)
EXTENDS Integers

CONSTANTS
  KeyCount,   (* distinct keys in the pool                                   *)
  PoolCalls,  (* concurrent calls                                            *)
  LimitsMove  (* bound: how often the rate limits change                     *)

ASSUME PoolAssumption ==
  /\ KeyCount \in Nat /\ KeyCount > 0
  /\ LimitsMove \in Nat

KeyIndex == 0 .. KeyCount - 1

VARIABLES
  idx,      (* the pool's current key                                        *)
  limited,  (* the keys the provider answers with 429                        *)
  moved,    (* how often that set has changed                                *)
  calm,     (* history: it changed only while no call was in flight          *)
  phase,    (* where a call stands                                           *)
  attempt,  (* the number of its attempt, from 0                             *)
  keyUsed,  (* the key its request was sent with                             *)
  begunAt   (* history: how often the limits had changed when it began       *)

call == <<phase, attempt, keyUsed, begunAt>>
poolVars == <<idx, limited, moved, calm, call>>

PoolTypeOK ==
  /\ idx \in KeyIndex /\ limited \subseteq KeyIndex
  /\ moved \in 0 .. LimitsMove /\ calm \in BOOLEAN
  /\ phase \in [PoolCalls -> {"idle", "trying", "sent", "limited", "answered",
                             "refused", "failed"}]
  /\ attempt \in [PoolCalls -> KeyIndex]
  /\ keyUsed \in [PoolCalls -> KeyIndex]
  /\ begunAt \in [PoolCalls -> 0 .. LimitsMove]

PoolInit ==
  /\ idx = 0
  /\ limited \in SUBSET KeyIndex
  /\ moved = 0 /\ calm = TRUE
  /\ phase = [r \in PoolCalls |-> "idle"]
  /\ attempt = [r \in PoolCalls |-> 0]
  /\ keyUsed = [r \in PoolCalls |-> 0]
  /\ begunAt = [r \in PoolCalls |-> 0]

(* CurrentKey, and the request goes out with it. *)
PickKey(r) ==
  /\ phase[r] \in {"idle", "trying"}
  /\ keyUsed' = [keyUsed EXCEPT ![r] = idx]
  /\ begunAt' = IF phase[r] = "idle" THEN [begunAt EXCEPT ![r] = moved]
                ELSE begunAt
  /\ phase' = [phase EXCEPT ![r] = "sent"]
  /\ UNCHANGED <<idx, limited, moved, calm, attempt>>

(* The provider looks at the key: 429, or something that ends the call.     *)
Response(r) ==
  /\ phase[r] = "sent"
  /\ phase' = [phase EXCEPT ![r] =
                 IF keyUsed[r] \in limited THEN "limited" ELSE "answered"]
  /\ UNCHANGED <<idx, limited, moved, calm, attempt, keyUsed, begunAt>>

(* Any other error, or a cancelled context, ends the call at once.          *)
OtherFailure(r) ==
  /\ phase[r] \in {"trying", "sent"}
  /\ phase' = [phase EXCEPT ![r] = "failed"]
  /\ UNCHANGED <<idx, limited, moved, calm, attempt, keyUsed, begunAt>>

(* Mutants: an index that runs off the end; every 429 advances the pool.    *)
RotatedOffEnd(failedKey) == IF idx = failedKey THEN idx + 1 ELSE idx
RotatedAlways(failedKey) == (idx + 1) % KeyCount

(* RotateKey, under the pool's mutex: only the first of the calls that      *)
(* failed with the current key advances it.                                 *)
Rotated(failedKey) == IF idx = failedKey THEN (idx + 1) % KeyCount ELSE idx

(* The call asks for a rotation and tries again while it has attempts left; *)
(* a pool of a single key has nothing to rotate to.                         *)
Rotate(r) ==
  /\ phase[r] = "limited"
  /\ idx' = Rotated(keyUsed[r])
  /\ \/ /\ attempt[r] < KeyCount - 1
        /\ attempt' = [attempt EXCEPT ![r] = @ + 1]
        /\ phase' = [phase EXCEPT ![r] = "trying"]
     \/ /\ attempt[r] = KeyCount - 1
        /\ phase' = [phase EXCEPT ![r] = "refused"]
        /\ UNCHANGED attempt
  /\ UNCHANGED <<limited, moved, calm, keyUsed, begunAt>>

InFlight == {r \in PoolCalls : phase[r] \in {"trying", "sent", "limited"}}

(* The provider lifts a limit or imposes one. *)
LimitsChange ==
  /\ moved < LimitsMove
  /\ moved' = moved + 1
  /\ calm' = (calm /\ InFlight = {})
  /\ \E k \in KeyIndex :
       limited' = IF k \in limited THEN limited \ {k} ELSE limited \union {k}
  /\ UNCHANGED <<idx, call>>

PoolNext ==
  \/ \E r \in PoolCalls :
       PickKey(r) \/ Response(r) \/ OtherFailure(r) \/ Rotate(r)
  \/ LimitsChange

PoolSpec == PoolInit /\ [][PoolNext]_poolVars

-----------------------------------------------------------------------------
(* A call is refused for its rate limit only if no key was free, however    *)
(* many calls rotate the pool at the same time (pool.go:53-58, the          *)
(* stampede; client.go:156-192).  A limit that changes while calls are in   *)
(* flight voids that: the late 429 of one rotates another off a key that is *)
(* free by now.                                                             *)
GoodKeyIsFound ==
  \A r \in PoolCalls :
    (phase[r] = "refused" /\ begunAt[r] = moved /\ calm) => limited = KeyIndex
=============================================================================
