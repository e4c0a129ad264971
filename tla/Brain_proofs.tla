---------------------------- MODULE Brain_proofs -----------------------------
(***************************************************************************)
(* The memory's worker that follows the observations with vectors           *)
(* (EmbeddingIndex), for any savers and batches; and, with what              *)
(* BrainTurn_proofs shows of a step, the specification of the run that has    *)
(* a brain in two configurations and the index side by side.                *)
(***************************************************************************)
EXTENDS MCBrain, BrainTurn_proofs

-----------------------------------------------------------------------------
(* The index of observations (internal/memory/sqlite.go, hybrid.go).       *)

(* All batches that may still be written, and what a batch is that holds    *)
(* something.                                                               *)
Jobs == {unsent[s] : s \in Savers} \union ToSet(queue) \union {work}
Real(j) == j.topics # << >> /\ j.version \in 1 .. saves
JobsAreReal ==
  /\ \A s \in Savers : unsent[s] # NoBatch => Real(unsent[s])
  /\ \A i \in DOMAIN queue : Real(queue[i])
  /\ IF worker \in {"embedding", "storing"} THEN Real(work) ELSE work = NoBatch

(* Neither a vector nor a batch is ahead of what it describes.              *)
LagBehind ==
  /\ \A t \in Topics : vectors[t] <= observed[t] /\ observed[t] <= saves
  /\ \A j \in Jobs : \A t \in ToSet(j.topics) : j.version <= observed[t]

(* Batches differ in their versions and, while all is regular, are in order *)
(* from the worker's back to those not handed over.                         *)
SavesApart ==
  \A r, s \in Savers :
    (unsent[r] # NoBatch /\ unsent[s] # NoBatch
       /\ unsent[r].version = unsent[s].version) => r = s
InOrder ==
  regular =>
    /\ \A i, k \in DOMAIN queue : i < k => queue[i].version < queue[k].version
    /\ \A i \in DOMAIN queue : work.version < queue[i].version
    /\ \A s \in Savers : unsent[s] # NoBatch =>
         /\ work.version < unsent[s].version
         /\ \A i \in DOMAIN queue : queue[i].version < unsent[s].version

(* A topic in any batch, or without its right vector, is in the batch of    *)
(* its present content.                                                     *)
LatestComes ==
  regular => \A t \in Topics :
    (vectors[t] # observed[t] \/ \E j \in Jobs : t \in ToSet(j.topics))
      => OnItsWay(t)

IndexInv == /\ IndexTypeOK /\ JobsAreReal /\ LagBehind
            /\ SavesApart /\ InOrder /\ LatestComes

(* A batch, and the one that stands for none. *)
LEMMA BatchFacts ==
  /\ NoBatch \in Batch /\ NoBatch.topics = << >> /\ NoBatch.version = 0
  /\ ToSet(NoBatch.topics) = {}
  /\ \A j \in Batch : j.topics \in Seq(Topics) /\ j.version \in 0 .. MaxSaves
  /\ \A j \in Batch : Real(j) => j # NoBatch /\ Rest(j) \in Batch
                                 /\ Head(j.topics) \in Topics
  /\ \A q \in Seq(Topics), v \in 0 .. MaxSaves :
       [topics |-> q, version |-> v] \in Batch
<1>1. NoBatch.topics = << >> /\ NoBatch.version = 0
  BY DEF NoBatch
<1>2. NoBatch \in Batch
  <2>1. << >> \in Seq(Topics) /\ 0 \in 0 .. MaxSaves
    BY EmptySeq, IndexAssumption DEF IndexAssumption
  <2> QED
    BY <2>1 DEF NoBatch, Batch
<1>3. ToSet(NoBatch.topics) = {}
  BY <1>1, ElementsKnown
<1>4. \A j \in Batch : j.topics \in Seq(Topics) /\ j.version \in 0 .. MaxSaves
  BY DEF Batch
<1>5. ASSUME NEW j \in Batch, Real(j)
      PROVE  j # NoBatch /\ Rest(j) \in Batch /\ Head(j.topics) \in Topics
  <2>1. j # NoBatch
    BY <1>1, <1>5 DEF Real
  <2>2. Tail(j.topics) \in Seq(Topics) /\ Head(j.topics) \in Topics
    BY <1>4, <1>5, OneLess DEF Real
  <2>3. [j EXCEPT !.topics = Tail(j.topics)] \in Batch
    BY <2>2 DEF Batch
  <2> QED
    BY <1>2, <2>1, <2>2, <2>3 DEF Rest
<1>6. \A q \in Seq(Topics), v \in 0 .. MaxSaves :
        [topics |-> q, version |-> v] \in Batch
  BY DEF Batch
<1> QED
  BY <1>1, <1>2, <1>3, <1>4, <1>5, <1>6

(* What is left of a batch. *)
LEMMA RestFacts ==
  ASSUME NEW j \in Batch, Real(j)
  PROVE  /\ ToSet(j.topics) = {Head(j.topics)} \union ToSet(Rest(j).topics)
         /\ IF Len(j.topics) = 1 THEN Rest(j) = NoBatch
            ELSE /\ Real(Rest(j)) /\ Rest(j) # NoBatch
                 /\ Rest(j).version = j.version
<1>1. /\ j.topics \in Seq(Topics) /\ j.topics # << >>
      /\ j.version \in 1 .. saves
  BY BatchFacts DEF Real
<1>2. /\ Tail(j.topics) \in Seq(Topics) /\ Len(j.topics) \in Nat \ {0}
      /\ Len(Tail(j.topics)) = Len(j.topics) - 1
  BY <1>1, OneLess
<1>3. ToSet(j.topics) = {Head(j.topics)} \union ToSet(Tail(j.topics))
  BY <1>1, ElementsKnown
<1>4. CASE Len(j.topics) = 1
  <2>1. Len(Tail(j.topics)) = 0
    BY <1>2, <1>4
  <2>2. Tail(j.topics) = << >>
    BY <1>2, <2>1, EmptySeq
  <2> QED
    BY <1>3, <1>4, <2>2, BatchFacts DEF Rest
<1>5. CASE Len(j.topics) # 1
  <2>1. Rest(j) = [j EXCEPT !.topics = Tail(j.topics)]
    BY <1>5 DEF Rest
  <2>2. Rest(j).topics = Tail(j.topics) /\ Rest(j).version = j.version
    BY <2>1 DEF Batch
  <2>3. Tail(j.topics) # << >>
    <3>1. Len(Tail(j.topics)) # 0
      BY <1>2, <1>5
    <3> QED
      BY <3>1, EmptySeq
  <2>4. Real(Rest(j))
    BY <1>1, <2>2, <2>3 DEF Real
  <2>5. Rest(j) # NoBatch
    BY <2>2, <2>3, BatchFacts
  <2> QED
    BY <1>3, <1>5, <2>2, <2>4, <2>5
<1> QED
  BY <1>4, <1>5

-----------------------------------------------------------------------------
(* Types of the index. *)

LEMMA IndexTypeStays == IndexInv /\ [IndexNext]_indexVars => IndexTypeOK'
<1> SUFFICES ASSUME IndexInv, [IndexNext]_indexVars PROVE IndexTypeOK'
  OBVIOUS
<1>0. IndexTypeOK /\ JobsAreReal
  BY DEF IndexInv
<1>1. MaxSaves \in Nat /\ MaxReopens \in Nat /\ QueueCap \in Nat
      /\ Batches \subseteq Seq(Topics) \ {<< >>}
  BY IndexAssumption DEF IndexAssumption
<1>2. ASSUME NEW s \in Savers, NEW b \in Batches, Save(s, b) PROVE IndexTypeOK'
  <2>1. saves' \in 0 .. MaxSaves
    <3>1. saves < MaxSaves /\ saves' = saves + 1 /\ saves \in 0 .. MaxSaves
      BY <1>0, <1>2 DEF Save, IndexTypeOK
    <3> QED
      BY <1>1, <3>1
  <2>2. observed' \in [Topics -> 0 .. MaxSaves]
    BY <1>0, <1>2, <2>1 DEF Save, IndexTypeOK
  <2>3. vectors' \in [Topics -> 0 .. MaxSaves]
    BY <1>0, <1>1, <1>2 DEF Save, IndexTypeOK
  <2>4. unsent' \in [Savers -> Batch]
    <3>1. [topics |-> b, version |-> saves'] \in Batch
      BY <1>1, <2>1, BatchFacts
    <3> QED
      BY <1>0, <1>2, <3>1 DEF Save, IndexTypeOK
  <2> QED
    BY <1>0, <1>2, <2>1, <2>2, <2>3, <2>4 DEF Save, IndexTypeOK
<1>3. ASSUME NEW s \in Savers, Enqueue(s) PROVE IndexTypeOK'
  <2>1. unsent' \in [Savers -> Batch]
    BY <1>0, <1>3, BatchFacts DEF Enqueue, IndexTypeOK
  <2>2. queue' \in Seq(Batch) /\ Len(queue') <= QueueCap
    <3>1. unsent[s] \in Batch /\ queue \in Seq(Batch) /\ Len(queue) <= QueueCap
      BY <1>0 DEF IndexTypeOK
    <3>2. /\ Append(queue, unsent[s]) \in Seq(Batch)
          /\ Len(Append(queue, unsent[s])) = Len(queue) + 1 /\ Len(queue) \in Nat
      BY <3>1, OneMore
    <3> QED
      BY <1>1, <1>3, <3>1, <3>2 DEF Enqueue
  <2>3. regular' \in BOOLEAN
    BY <1>3 DEF Enqueue
  <2> QED
    BY <1>0, <1>3, <2>1, <2>2, <2>3 DEF Enqueue, IndexTypeOK, stored
<1>4. CASE WorkerTake
  <2>1. /\ work' \in Batch /\ queue' \in Seq(Batch)
        /\ Len(queue') = Len(queue) - 1 /\ Len(queue) \in Nat
    BY <1>0, <1>4, OneLess DEF WorkerTake, IndexTypeOK
  <2>2. Len(queue') <= QueueCap
    BY <1>0, <1>1, <2>1 DEF IndexTypeOK
  <2> QED
    BY <1>0, <1>4, <2>1, <2>2 DEF WorkerTake, IndexTypeOK, stored
<1>5. CASE WorkerExits
  BY <1>0, <1>5 DEF WorkerExits, IndexTypeOK, stored
<1>6. CASE Embedded
  BY <1>0, <1>6 DEF Embedded, IndexTypeOK, stored
<1>7. CASE EmbedFails
  BY <1>0, <1>7, BatchFacts DEF EmbedFails, IndexTypeOK, stored
<1>8. CASE Store
  <2>1. work \in Batch /\ Real(work)
    BY <1>0, <1>8 DEF Store, IndexTypeOK, JobsAreReal
  <2>2. /\ Rest(work) \in Batch /\ Head(work.topics) \in Topics
        /\ work.version \in 0 .. MaxSaves
    BY <2>1, BatchFacts
  <2>3. vectors' \in [Topics -> 0 .. MaxSaves] /\ regular' \in BOOLEAN
    BY <1>0, <1>8, <2>2 DEF Store, IndexTypeOK
  <2>4. work' \in Batch /\ worker' \in {"idle", "storing"}
    BY <1>8, <2>2 DEF Store
  <2> QED
    BY <1>0, <1>8, <2>3, <2>4 DEF Store, IndexTypeOK
<1>9. CASE CloseMark
  BY <1>0, <1>9 DEF CloseMark, IndexTypeOK, stored
<1>10. CASE CloseCancel
  BY <1>0, <1>10 DEF CloseCancel, IndexTypeOK, stored
<1>11. CASE CloseDatabase
  BY <1>0, <1>11 DEF CloseDatabase, IndexTypeOK, stored
<1>12. CASE Reopen
  <2>1. queue' \in Seq(Batch) /\ Len(queue') <= QueueCap
    <3>1. queue' = << >> /\ Len(<< >>) = 0
      BY <1>12 DEF Reopen
    <3> QED
      BY <1>1, <3>1, EmptySeq
  <2>2. reopens' \in 0 .. MaxReopens
    <3>1. reopens < MaxReopens /\ reopens' = reopens + 1
          /\ reopens \in 0 .. MaxReopens
      BY <1>0, <1>12 DEF Reopen, IndexTypeOK
    <3> QED
      BY <1>1, <3>1
  <2>3. unsent' \in [Savers -> Batch] /\ work' \in Batch
    BY <1>12, BatchFacts DEF Reopen
  <2> QED
    BY <1>0, <1>12, <2>1, <2>2, <2>3 DEF Reopen, IndexTypeOK, stored
<1>13. CASE UNCHANGED indexVars
  BY <1>0, <1>13 DEF indexVars, IndexTypeOK
<1> QED
  BY <1>2, <1>3, <1>4, <1>5, <1>6, <1>7, <1>8, <1>9, <1>10, <1>11, <1>12,
     <1>13 DEF IndexNext

-----------------------------------------------------------------------------
(* Batches on their way. *)

(* A step that touches no batch, no observation and no vector.              *)
LEMMA IndexRests ==
  ASSUME IndexInv, IndexTypeOK',
         UNCHANGED <<observed, vectors, unsent, queue, work, saves>>,
         regular' => regular,
         (worker' \in {"embedding", "storing"}) <=> (worker \in {"embedding", "storing"})
  PROVE  IndexInv'
<1>1. JobsAreReal'
  BY DEF IndexInv, JobsAreReal, Real
<1>2. Jobs' = Jobs
  BY DEF Jobs
<1>3. LagBehind'
  BY <1>2 DEF IndexInv, LagBehind
<1>4. SavesApart' /\ InOrder'
  BY DEF IndexInv, SavesApart, InOrder
<1>5. LatestComes'
  BY <1>2 DEF IndexInv, LatestComes, OnItsWay, Jobs
<1> QED
  BY <1>1, <1>3, <1>4, <1>5 DEF IndexInv

(* OnItsWay speaks of the same batches.                                     *)
LEMMA OnItsWayInJobs ==
  ASSUME NEW t PROVE OnItsWay(t) <=> \E j \in Jobs : t \in ToSet(j.topics)
                                                     /\ j.version = observed[t]
  BY DEF OnItsWay, Jobs

(* The transaction. *)
LEMMA SaveKeepsIndex ==
  ASSUME IndexInv, IndexTypeOK', NEW s \in Savers, NEW b \in Batches, Save(s, b)
  PROVE  IndexInv'
<1> PICK new : new = [topics |-> b, version |-> saves + 1]
  OBVIOUS
<1>1. /\ IndexTypeOK /\ JobsAreReal /\ LagBehind /\ SavesApart /\ InOrder
      /\ LatestComes
  BY DEF IndexInv
<1>2. /\ saves \in Nat /\ saves' = saves + 1 /\ unsent[s] = NoBatch
      /\ unsent' = [unsent EXCEPT ![s] = new]
      /\ observed' = [t \in Topics |-> IF t \in ToSet(b) THEN saves + 1
                                       ELSE observed[t]]
      /\ vectors' = [t \in Topics |-> IF t \in ToSet(b) THEN 0 ELSE vectors[t]]
      /\ UNCHANGED <<queue, worker, work, closing, regular, reopens>>
  BY <1>1 DEF Save, IndexTypeOK
<1>3. new.topics = b /\ new.version = saves + 1 /\ b # << >> /\ new # NoBatch
  <2>1. b # << >>
    BY IndexAssumption DEF IndexAssumption
  <2> QED
    BY <2>1, BatchFacts
<1>4. unsent'[s] = new /\ \A r \in Savers : r # s => unsent'[r] = unsent[r]
  BY <1>1, <1>2 DEF IndexTypeOK
<1>5. /\ \A j \in Jobs' : j = new \/ j \in Jobs
      /\ new \in Jobs'
      /\ \A j \in Jobs : j = NoBatch \/ j \in Jobs'
  BY <1>2, <1>4 DEF Jobs
<1>6. \A j : Real(j) => /\ j.topics # << >> /\ j.version \in 1 .. saves'
                       /\ j.version < saves + 1
  BY <1>2 DEF Real
<1>7. JobsAreReal'
  <2>1. new.topics # << >> /\ new.version \in 1 .. saves'
    BY <1>2, <1>3
  <2>2. \A r \in Savers : unsent'[r] # NoBatch => Real(unsent[r])'
    BY <1>1, <1>4, <1>6, <2>1 DEF JobsAreReal, Real
  <2>3. \A i \in DOMAIN queue' : Real(queue[i])'
    BY <1>1, <1>2, <1>6 DEF JobsAreReal, Real
  <2>4. IF worker' \in {"embedding", "storing"} THEN Real(work)'
        ELSE work' = NoBatch
    BY <1>1, <1>2, <1>6 DEF JobsAreReal, Real
  <2> QED
    BY <2>2, <2>3, <2>4 DEF JobsAreReal
<1>8. LagBehind'
  <2>1. ASSUME NEW t \in Topics
        PROVE  /\ vectors'[t] <= observed'[t] /\ observed'[t] <= saves'
               /\ observed[t] <= observed'[t] /\ observed[t] <= saves
    <3>1. observed[t] \in Nat /\ vectors[t] \in Nat
      BY <1>1 DEF IndexTypeOK
    <3>2. vectors[t] <= observed[t] /\ observed[t] <= saves
      BY <1>1 DEF LagBehind
    <3> QED
      BY <1>2, <3>1, <3>2
  <2>2. ASSUME NEW j \in Jobs', NEW t \in ToSet(j.topics)
        PROVE  j.version <= observed'[t]
    <3>1. CASE j = new
      <4>1. t \in ToSet(b) /\ ToSet(b) \subseteq Topics
        BY <1>3, <2>2, <3>1, ElementsKnown, IndexAssumption DEF IndexAssumption
      <4> QED
        BY <1>2, <1>3, <3>1, <4>1
    <3>2. CASE j \in Jobs
      <4>1. j \in Batch
        BY <1>1, <3>2, ElementsKnown DEF Jobs, IndexTypeOK
      <4>2. t \in Topics /\ j.version \in Nat
        BY <4>1, BatchFacts, ElementsKnown
      <4>3. j.version <= observed[t] /\ observed[t] <= observed'[t]
        BY <1>1, <2>1, <3>2, <4>2 DEF LagBehind
      <4>4. observed[t] \in Nat /\ observed'[t] \in Nat
        BY <1>1, <4>2 DEF IndexTypeOK
      <4> QED
        BY <4>2, <4>3, <4>4
    <3> QED
      BY <1>5, <3>1, <3>2
  <2> QED
    BY <2>1, <2>2 DEF LagBehind
<1>9. SavesApart'
  <2>1. \A r \in Savers : r # s /\ unsent'[r] # NoBatch
          => unsent'[r].version < saves + 1 /\ unsent'[r].version \in Int
    <3>1. \A r \in Savers : unsent[r] # NoBatch => Real(unsent[r])
      BY <1>1 DEF JobsAreReal
    <3>2. \A r \in Savers : unsent[r] # NoBatch => unsent[r].version \in 1 .. saves
      BY <3>1 DEF Real
    <3> QED
      BY <1>2, <1>4, <3>2
  <2> QED
    BY <1>1, <1>2, <1>3, <1>4, <2>1 DEF SavesApart
<1>10. InOrder'
  <2> SUFFICES ASSUME regular PROVE InOrder'
    BY <1>2 DEF InOrder
  <2>1. work.version < saves + 1 /\ \A i \in DOMAIN queue : queue[i].version < saves + 1
    BY <1>1, <1>2, <1>6, BatchFacts DEF JobsAreReal
  <2> QED
    BY <1>1, <1>2, <1>3, <1>4, <2>1 DEF InOrder
<1>11. LatestComes'
  <2> SUFFICES ASSUME regular, NEW t \in Topics,
                      vectors'[t] # observed'[t]
                        \/ \E j \in Jobs' : t \in ToSet(j.topics)
               PROVE  OnItsWay(t)'
    BY <1>2 DEF LatestComes
  <2>1. (\E j \in Jobs' : t \in ToSet(j.topics) /\ j.version = observed'[t])
          => OnItsWay(t)'
    BY DEF OnItsWay, Jobs
  <2>2. CASE t \in ToSet(b)
    <3>1. t \in ToSet(new.topics) /\ new.version = observed'[t]
      BY <1>2, <1>3, <2>2
    <3> QED
      BY <1>5, <2>1, <3>1
  <2>3. CASE t \notin ToSet(b)
    <3>1. observed'[t] = observed[t] /\ vectors'[t] = vectors[t]
      BY <1>2, <2>3
    <3>2. (\E j \in Jobs' : t \in ToSet(j.topics))
            => \E j \in Jobs : t \in ToSet(j.topics)
      BY <1>3, <1>5, <2>3
    <3>3. OnItsWay(t)
      BY <1>1, <3>1, <3>2 DEF LatestComes
    <3>4. PICK j \in Jobs : t \in ToSet(j.topics) /\ j.version = observed[t]
      BY <3>3, OnItsWayInJobs
    <3>5. j # NoBatch
      BY <3>4, BatchFacts
    <3> QED
      BY <1>5, <2>1, <3>1, <3>4, <3>5
  <2> QED
    BY <2>2, <2>3
<1> QED
  BY <1>7, <1>8, <1>9, <1>10, <1>11 DEF IndexInv

(* A step that only moves batches, or loses some, does not get ahead;       *)
LEMMA MovingLags ==
  ASSUME LagBehind, UNCHANGED <<observed, vectors, saves>>,
         \A j \in Jobs' : j \in Jobs \/ ToSet(j.topics) = {}
  PROVE  LagBehind'
  BY DEF LagBehind

(* and if it loses none, the right one is still on its way.                 *)
LEMMA MovingArrives ==
  ASSUME LatestComes, UNCHANGED <<observed, vectors>>, regular' => regular,
         \A j \in Jobs' : j \in Jobs \/ ToSet(j.topics) = {},
         \A j \in Jobs : j \in Jobs' \/ ToSet(j.topics) = {}
  PROVE  LatestComes'
<1> SUFFICES ASSUME regular, NEW t \in Topics,
                    vectors[t] # observed[t] \/ \E j \in Jobs' : t \in ToSet(j.topics)
             PROVE  OnItsWay(t)'
  BY DEF LatestComes
<1>1. OnItsWay(t)
  BY DEF LatestComes
<1>2. PICK j \in Jobs : t \in ToSet(j.topics) /\ j.version = observed[t]
  BY <1>1, OnItsWayInJobs
<1>3. j \in Jobs'
  BY <1>2
<1>4. observed'[t] = observed[t]
  OBVIOUS
<1> QED
  BY <1>2, <1>3, <1>4 DEF OnItsWay, Jobs

(* The hand-over. *)
LEMMA EnqueueKeepsIndex ==
  ASSUME IndexInv, IndexTypeOK', NEW s \in Savers, Enqueue(s) PROVE IndexInv'
<1>1. /\ IndexTypeOK /\ JobsAreReal /\ LagBehind /\ SavesApart /\ InOrder
      /\ LatestComes
  BY DEF IndexInv
<1>2. /\ unsent[s] # NoBatch /\ unsent' = [unsent EXCEPT ![s] = NoBatch]
      /\ regular' = (regular /\ Orderly(s))
      /\ queue' = queue \/ queue' = Append(queue, unsent[s])
      /\ Orderly(s) => queue' = Append(queue, unsent[s])
      /\ UNCHANGED <<observed, vectors, worker, work, closing, saves, reopens>>
  BY DEF Enqueue, Orderly, stored
<1>3. unsent'[s] = NoBatch /\ \A r \in Savers : r # s => unsent'[r] = unsent[r]
  BY <1>1, <1>2 DEF IndexTypeOK
<1>4. unsent[s] \in Batch /\ queue \in Seq(Batch) /\ Real(unsent[s])
  BY <1>1, <1>2 DEF IndexTypeOK, JobsAreReal
<1>5. /\ Len(queue) \in Nat /\ DOMAIN queue = 1 .. Len(queue)
      /\ DOMAIN Append(queue, unsent[s]) = 1 .. Len(queue) + 1
      /\ \A i \in 1 .. Len(queue) : Append(queue, unsent[s])[i] = queue[i]
      /\ Append(queue, unsent[s])[Len(queue) + 1] = unsent[s]
      /\ ToSet(Append(queue, unsent[s])) = ToSet(queue) \union {unsent[s]}
  BY <1>4, OneMore, ElementsKnown
<1>6. \A i \in DOMAIN queue' : queue'[i] = unsent[s]
                                 \/ (i \in DOMAIN queue /\ queue'[i] = queue[i])
  <2>1. CASE queue' = queue
    BY <2>1
  <2>2. CASE queue' = Append(queue, unsent[s])
    <3>1. \A i \in 1 .. Len(queue) + 1 : i \in 1 .. Len(queue) \/ i = Len(queue) + 1
      BY <1>5
    <3> QED
      BY <1>5, <2>2, <3>1
  <2> QED
    BY <1>2, <2>1, <2>2
<1>7. JobsAreReal'
  <2>1. \A r \in Savers : unsent'[r] # NoBatch => Real(unsent[r])'
    BY <1>1, <1>2, <1>3 DEF JobsAreReal, Real
  <2>2. \A i \in DOMAIN queue' : Real(queue[i])'
    BY <1>1, <1>2, <1>4, <1>6 DEF JobsAreReal, Real
  <2>3. IF worker' \in {"embedding", "storing"} THEN Real(work)'
        ELSE work' = NoBatch
    BY <1>1, <1>2 DEF JobsAreReal, Real
  <2> QED
    BY <2>1, <2>2, <2>3 DEF JobsAreReal
<1>8. \A j \in Jobs' : j \in Jobs \/ ToSet(j.topics) = {}
  <2>1. ToSet(queue') \subseteq ToSet(queue) \union {unsent[s]}
    BY <1>2, <1>5
  <2> QED
    BY <1>2, <1>3, <2>1, BatchFacts DEF Jobs
<1>9. LagBehind'
  BY <1>1, <1>2, <1>8, MovingLags
<1>10. SavesApart'
  BY <1>1, <1>3 DEF SavesApart
<1>11. regular' => /\ queue' = Append(queue, unsent[s]) /\ regular
                   /\ \A r \in Savers : r # s /\ unsent[r] # NoBatch =>
                        unsent[s].version < unsent[r].version
  <2> SUFFICES ASSUME regular, Orderly(s), NEW r \in Savers, r # s,
                      unsent[r] # NoBatch
               PROVE  unsent[s].version < unsent[r].version
    BY <1>2
  <2>1. unsent[s].version # unsent[r].version
    BY <1>1, <1>2 DEF SavesApart
  <2>2. unsent[s].version <= unsent[r].version
    BY DEF Orderly
  <2>3. unsent[s].version \in Int /\ unsent[r].version \in Int
    BY <1>1, BatchFacts DEF IndexTypeOK
  <2> QED
    BY <2>1, <2>2, <2>3
<1>12. InOrder'
  <2> SUFFICES ASSUME regular' PROVE InOrder'
    BY DEF InOrder
  <2>1. /\ regular /\ queue' = Append(queue, unsent[s])
        /\ DOMAIN queue' = 1 .. Len(queue) + 1
        /\ \A i \in 1 .. Len(queue) : queue'[i] = queue[i]
        /\ queue'[Len(queue) + 1] = unsent[s]
    BY <1>5, <1>11
  <2>2. \A i \in 1 .. Len(queue) + 1 : i \in 1 .. Len(queue) \/ i = Len(queue) + 1
    BY <1>5
  <2>3. \A i, k \in DOMAIN queue' : i < k => queue'[i].version < queue'[k].version
    <3>1. ASSUME NEW i \in DOMAIN queue', NEW k \in DOMAIN queue', i < k
          PROVE  queue'[i].version < queue'[k].version
      <4>1. i \in 1 .. Len(queue)
        BY <1>5, <2>1, <3>1
      <4>2. CASE k \in 1 .. Len(queue)
        BY <1>1, <1>5, <2>1, <3>1, <4>1, <4>2 DEF InOrder
      <4>3. CASE k = Len(queue) + 1
        BY <1>1, <1>2, <1>5, <2>1, <4>1, <4>3 DEF InOrder
      <4> QED
        BY <2>1, <2>2, <4>2, <4>3
    <3> QED
      BY <3>1
  <2>4. \A i \in DOMAIN queue' : work'.version < queue'[i].version
    BY <1>1, <1>2, <1>5, <2>1, <2>2 DEF InOrder
  <2>5. ASSUME NEW r \in Savers, unsent'[r] # NoBatch
        PROVE  /\ work'.version < unsent'[r].version
               /\ \A i \in DOMAIN queue' : queue'[i].version < unsent'[r].version
    <3>1. r # s /\ unsent'[r] = unsent[r]
      BY <1>3, <2>5
    <3>2. \A i \in 1 .. Len(queue) : queue'[i].version < unsent[r].version
      BY <1>1, <1>5, <2>1, <2>5, <3>1 DEF InOrder
    <3>3. unsent[s].version < unsent[r].version
      BY <1>11, <2>5, <3>1
    <3>4. work.version < unsent[r].version
      BY <1>1, <2>1, <2>5, <3>1 DEF InOrder
    <3> QED
      BY <1>2, <2>1, <2>2, <3>1, <3>2, <3>3, <3>4
  <2> QED
    BY <2>3, <2>4, <2>5 DEF InOrder
<1>13. LatestComes'
  <2>1. CASE regular'
    <3>1. ToSet(queue') = ToSet(queue) \union {unsent[s]}
      BY <1>5, <1>11, <2>1
    <3>2. \A j \in Jobs : j \in Jobs' \/ ToSet(j.topics) = {}
      BY <1>2, <1>3, <3>1 DEF Jobs
    <3> QED
      BY <1>1, <1>2, <1>8, <3>2, MovingArrives
  <2>2. CASE ~regular'
    BY <2>2 DEF LatestComes
  <2> QED
    BY <2>1, <2>2
<1> QED
  BY <1>7, <1>9, <1>10, <1>12, <1>13 DEF IndexInv

(* The worker takes a batch. *)
LEMMA TakeKeepsIndex ==
  ASSUME IndexInv, IndexTypeOK', WorkerTake PROVE IndexInv'
<1>1. /\ IndexTypeOK /\ JobsAreReal /\ LagBehind /\ SavesApart /\ InOrder
      /\ LatestComes
  BY DEF IndexInv
<1>2. /\ work = NoBatch /\ work' = Head(queue) /\ queue' = Tail(queue)
      /\ queue # << >> /\ worker' = "embedding"
      /\ UNCHANGED <<observed, vectors, unsent, closing, regular, saves, reopens>>
  BY <1>1 DEF WorkerTake, JobsAreReal, stored
<1>3. /\ Len(queue) \in Nat \ {0} /\ DOMAIN queue = 1 .. Len(queue)
      /\ work' = queue[1] /\ DOMAIN queue' = 1 .. Len(queue) - 1
      /\ \A i \in 1 .. Len(queue) - 1 : queue'[i] = queue[i + 1]
      /\ ToSet(queue) = {work'} \union ToSet(queue')
  BY <1>1, <1>2, OneLess, ElementsKnown DEF IndexTypeOK
<1>4. \A i \in 1 .. Len(queue) - 1 : i + 1 \in 1 .. Len(queue)
  BY <1>3
<1>5. 1 \in DOMAIN queue
  BY <1>3
<1>6. JobsAreReal'
  <2>1. \A i \in DOMAIN queue' : Real(queue[i])'
    BY <1>1, <1>2, <1>3, <1>4 DEF JobsAreReal, Real
  <2>2. Real(work)'
    BY <1>1, <1>2, <1>3, <1>5 DEF JobsAreReal, Real
  <2>3. \A r \in Savers : unsent'[r] # NoBatch => Real(unsent[r])'
    BY <1>1, <1>2 DEF JobsAreReal, Real
  <2> QED
    BY <1>2, <2>1, <2>2, <2>3 DEF JobsAreReal
<1>7. /\ \A j \in Jobs' : j \in Jobs \/ ToSet(j.topics) = {}
      /\ \A j \in Jobs : j \in Jobs' \/ ToSet(j.topics) = {}
  BY <1>2, <1>3, BatchFacts DEF Jobs
<1>8. LagBehind' /\ LatestComes'
  BY <1>1, <1>2, <1>7, MovingLags, MovingArrives
<1>9. SavesApart'
  BY <1>1, <1>2 DEF SavesApart
<1>10. InOrder'
  <2> SUFFICES ASSUME regular PROVE InOrder'
    BY <1>2 DEF InOrder
  <2>1. ASSUME NEW i \in DOMAIN queue'
        PROVE  /\ queue'[i] = queue[i + 1] /\ i + 1 \in DOMAIN queue
               /\ work'.version < queue'[i].version
    <3>1. i + 1 \in DOMAIN queue /\ 1 < i + 1 /\ queue'[i] = queue[i + 1]
      BY <1>3, <1>4
    <3> QED
      BY <1>1, <1>3, <1>5, <3>1 DEF InOrder
  <2>2. ASSUME NEW i \in DOMAIN queue', NEW k \in DOMAIN queue', i < k
        PROVE  queue'[i].version < queue'[k].version
    <3>1. i + 1 < k + 1
      BY <1>3, <2>2
    <3> QED
      BY <1>1, <2>1, <3>1 DEF InOrder
  <2>3. ASSUME NEW r \in Savers, unsent'[r] # NoBatch
        PROVE  /\ work'.version < unsent'[r].version
               /\ \A i \in DOMAIN queue' : queue'[i].version < unsent'[r].version
    BY <1>1, <1>2, <1>3, <1>5, <2>1, <2>3 DEF InOrder
  <2> QED
    BY <2>1, <2>2, <2>3 DEF InOrder
<1> QED
  BY <1>6, <1>8, <1>9, <1>10 DEF IndexInv

(* The worker stores a vector, or fails to. *)
LEMMA StoreKeepsIndex ==
  ASSUME IndexInv, IndexTypeOK', Store PROVE IndexInv'
<1> PICK h : h = Head(work.topics)
  OBVIOUS
<1>1. /\ IndexTypeOK /\ JobsAreReal /\ LagBehind /\ SavesApart /\ InOrder
      /\ LatestComes
  BY DEF IndexInv
<1>2. /\ worker = "storing" /\ work' = Rest(work)
      /\ worker' = IF work' = NoBatch THEN "idle" ELSE "storing"
      /\ \/ vectors' = [vectors EXCEPT ![h] = work.version] /\ regular' = regular
         \/ vectors' = vectors /\ regular' = FALSE
      /\ UNCHANGED <<observed, unsent, queue, closing, saves, reopens>>
  BY DEF Store
<1>3. work \in Batch /\ Real(work) /\ work \in Jobs
  BY <1>1, <1>2 DEF IndexTypeOK, JobsAreReal, Jobs
<1>4. /\ ToSet(work.topics) = {h} \union ToSet(work'.topics)
      /\ IF Len(work.topics) = 1 THEN work' = NoBatch
         ELSE /\ Real(work') /\ work' # NoBatch /\ work'.version = work.version
  BY <1>2, <1>3, RestFacts
<1>5. h \in Topics /\ work.version \in Int /\ work.version <= observed[h]
  <2>1. h \in Topics /\ work.version \in Int
    BY <1>3, BatchFacts
  <2> QED
    BY <1>1, <1>3, <1>4, <2>1 DEF LagBehind
<1>6. JobsAreReal'
  <2>1. \A i \in DOMAIN queue' : Real(queue[i])'
    BY <1>1, <1>2 DEF JobsAreReal, Real
  <2>2. \A r \in Savers : unsent'[r] # NoBatch => Real(unsent[r])'
    BY <1>1, <1>2 DEF JobsAreReal, Real
  <2>3. IF worker' \in {"embedding", "storing"} THEN Real(work)'
        ELSE work' = NoBatch
    BY <1>2, <1>4 DEF Real
  <2> QED
    BY <2>1, <2>2, <2>3 DEF JobsAreReal
<1>7. /\ \A j \in Jobs' : j = work' \/ j \in Jobs
      /\ \A j \in Jobs : j = work \/ j \in Jobs'
      /\ work' \in Jobs'
  BY <1>2 DEF Jobs
<1>8. ToSet(work'.topics) # {} => work'.version = work.version
  BY <1>4, BatchFacts
<1>9. LagBehind'
  <2>1. \A t \in Topics : vectors'[t] <= observed'[t] /\ observed'[t] <= saves'
    BY <1>1, <1>2, <1>5 DEF LagBehind, IndexTypeOK
  <2>2. ASSUME NEW j \in Jobs', NEW t \in ToSet(j.topics)
        PROVE  j.version <= observed'[t]
    <3>1. CASE j \in Jobs
      BY <1>1, <1>2, <2>2, <3>1 DEF LagBehind
    <3>2. CASE j = work'
      <4>1. j.version = work.version /\ t \in ToSet(work.topics)
        BY <1>4, <1>8, <2>2, <3>2
      <4> QED
        BY <1>1, <1>2, <1>3, <4>1 DEF LagBehind
    <3> QED
      BY <1>7, <3>1, <3>2
  <2> QED
    BY <2>1, <2>2 DEF LagBehind
<1>10. SavesApart'
  BY <1>1, <1>2 DEF SavesApart
<1>11. work'.version = work.version \/ work'.version = 0
  BY <1>4, BatchFacts
<1>12. InOrder'
  <2> SUFFICES ASSUME regular' PROVE InOrder'
    BY DEF InOrder
  <2>1. regular
    BY <1>2
  <2>2. ASSUME NEW i \in DOMAIN queue PROVE work'.version < queue[i].version
    <3>1. work.version < queue[i].version /\ Real(queue[i])
      BY <1>1, <2>1 DEF InOrder, JobsAreReal
    <3> QED
      BY <1>11, <3>1 DEF Real
  <2>3. ASSUME NEW r \in Savers, unsent[r] # NoBatch
        PROVE  work'.version < unsent[r].version
    <3>1. work.version < unsent[r].version /\ Real(unsent[r])
      BY <1>1, <2>1, <2>3 DEF InOrder, JobsAreReal
    <3> QED
      BY <1>11, <3>1 DEF Real
  <2> QED
    BY <1>1, <1>2, <2>1, <2>2, <2>3 DEF InOrder
<1>13. LatestComes'
  <2> SUFFICES ASSUME regular', NEW t \in Topics,
                      vectors'[t] # observed'[t]
                        \/ \E j \in Jobs' : t \in ToSet(j.topics)
               PROVE  OnItsWay(t)'
    BY DEF LatestComes
  <2>1. (\E j \in Jobs' : t \in ToSet(j.topics) /\ j.version = observed[t])
          => OnItsWay(t)'
    BY <1>2 DEF OnItsWay, Jobs
  <2>2. regular /\ vectors' = [vectors EXCEPT ![h] = work.version]
    BY <1>2
  <2>3. OnItsWay(t)
    <3>1. CASE t = h
      BY <1>1, <1>3, <1>4, <2>2, <3>1 DEF LatestComes
    <3>2. CASE t # h /\ vectors'[t] # observed'[t]
      <4>1. vectors'[t] = vectors[t]
        BY <1>1, <2>2, <3>2 DEF IndexTypeOK
      <4> QED
        BY <1>1, <1>2, <2>2, <3>2, <4>1 DEF LatestComes
    <3>3. CASE \E j \in Jobs' : t \in ToSet(j.topics)
      <4>1. \E j \in Jobs : t \in ToSet(j.topics)
        BY <1>3, <1>4, <1>7, <3>3
      <4> QED
        BY <1>1, <2>2, <4>1 DEF LatestComes
    <3> QED
      BY <3>1, <3>2, <3>3
  <2>4. PICK j \in Jobs : t \in ToSet(j.topics) /\ j.version = observed[t]
    BY <2>3, OnItsWayInJobs
  <2>5. CASE j # work
    BY <1>7, <2>1, <2>4, <2>5
  <2>6. CASE j = work /\ t \in ToSet(work'.topics)
    BY <1>7, <1>8, <2>1, <2>4, <2>6
  <2>7. CASE j = work /\ t \notin ToSet(work'.topics)
    <3>1. t = h /\ work.version = observed[t]
      BY <1>4, <2>4, <2>7
    <3>2. vectors'[t] = observed'[t]
      BY <1>1, <1>2, <2>2, <3>1 DEF IndexTypeOK
    <3>3. PICK k \in Jobs' : t \in ToSet(k.topics)
      BY <3>2
    <3>4. k \in Jobs /\ k # work' /\ k # NoBatch
      BY <1>7, <2>7, <3>3, BatchFacts
    <3>5. k.version <= observed[t]
      BY <1>1, <3>3, <3>4 DEF LagBehind
    <3>6. k \in ToSet(queue) \/ \E r \in Savers : k = unsent[r]
      BY <1>2, <3>3, <3>4 DEF Jobs
    <3>7. work.version < k.version
      <4>1. CASE k \in ToSet(queue)
        <5>1. PICK i \in DOMAIN queue : k = queue[i]
          BY <4>1 DEF ToSet
        <5> QED
          BY <1>1, <2>2, <5>1 DEF InOrder
      <4>2. CASE \E r \in Savers : k = unsent[r]
        BY <1>1, <2>2, <3>4, <4>2 DEF InOrder
      <4> QED
        BY <3>6, <4>1, <4>2
    <3>8. k.version \in Int
      <4>1. k \in Batch
        BY <1>1, <3>6, ElementsKnown DEF IndexTypeOK
      <4> QED
        BY <4>1, BatchFacts
    <3>9. FALSE
      BY <1>5, <3>1, <3>5, <3>7, <3>8
    <3> QED
      BY <3>9
  <2> QED
    BY <2>5, <2>6, <2>7
<1> QED
  BY <1>6, <1>9, <1>10, <1>12, <1>13 DEF IndexInv

(* A batch is given up, or all are, with the program.                       *)
LEMMA LossKeepsIndex ==
  ASSUME IndexInv, IndexTypeOK', UNCHANGED <<observed, vectors, saves>>,
         worker' = "idle", work' = NoBatch, regular' = FALSE,
         \/ UNCHANGED <<unsent, queue>>
         \/ queue' = << >> /\ unsent' = [s \in Savers |-> NoBatch]
  PROVE  IndexInv'
<1>1. JobsAreReal /\ LagBehind /\ SavesApart
  BY DEF IndexInv
<1>2. JobsAreReal'
  BY <1>1 DEF JobsAreReal, Real
<1>3. LagBehind'
  <2>1. \A j \in Jobs' : j \in Jobs \/ j = NoBatch
    BY ElementsKnown DEF Jobs
  <2> QED
    BY <1>1, <2>1, BatchFacts, MovingLags
<1>4. SavesApart'
  BY <1>1 DEF SavesApart
<1> QED
  BY <1>2, <1>3, <1>4 DEF IndexInv, InOrder, LatestComes

LEMMA IndexGoesOn == IndexInv /\ [IndexNext]_indexVars => IndexInv'
<1> SUFFICES ASSUME IndexInv, [IndexNext]_indexVars PROVE IndexInv'
  OBVIOUS
<1>1. IndexTypeOK'
  BY IndexTypeStays
<1>2. CASE EmbedFails
  BY <1>1, <1>2, LossKeepsIndex DEF EmbedFails, stored
<1>3. CASE Reopen
  BY <1>1, <1>3, LossKeepsIndex DEF Reopen, stored
<1>4. CASE WorkerExits
  BY <1>1, <1>4, IndexRests DEF WorkerExits, stored
<1>5. CASE Embedded
  BY <1>1, <1>5, IndexRests DEF Embedded, stored
<1>6. CASE CloseMark \/ CloseCancel \/ CloseDatabase
  BY <1>1, <1>6, IndexRests DEF CloseMark, CloseCancel, CloseDatabase, stored
<1>7. CASE UNCHANGED indexVars
  BY <1>1, <1>7, IndexRests DEF indexVars
<1> QED
  BY <1>1, <1>2, <1>3, <1>4, <1>5, <1>6, <1>7, SaveKeepsIndex,
     EnqueueKeepsIndex, TakeKeepsIndex, StoreKeepsIndex DEF IndexNext

LEMMA IndexStarts == IndexInit => IndexInv
<1> SUFFICES ASSUME IndexInit PROVE IndexInv
  OBVIOUS
<1>1. IndexTypeOK
  <2>1. queue \in Seq(Batch) /\ Len(queue) <= QueueCap
    BY EmptySeq, IndexAssumption DEF IndexInit, IndexAssumption
  <2> QED
    BY <2>1, BatchFacts, IndexAssumption
       DEF IndexInit, IndexTypeOK, IndexAssumption
<1>2. \A j \in Jobs : j = NoBatch
  BY ElementsKnown DEF IndexInit, Jobs
<1>3. \A j \in Jobs : ToSet(j.topics) = {}
  BY <1>2, BatchFacts
<1>4. JobsAreReal /\ SavesApart /\ InOrder
  BY DEF IndexInit, JobsAreReal, SavesApart, InOrder
<1>5. LagBehind /\ LatestComes
  <2>1. saves = 0 /\ \A t \in Topics : vectors[t] = 0 /\ observed[t] = 0
    BY DEF IndexInit
  <2> QED
    BY <1>3, <2>1 DEF LagBehind, LatestComes
<1> QED
  BY <1>1, <1>4, <1>5 DEF IndexInv

LEMMA IndexInvTells == IndexInv => VectorsCatchUp
<1>1. ASSUME IndexInv PROVE RepairIsOnItsWay
  BY <1>1 DEF IndexInv, LatestComes, RepairIsOnItsWay
<1>2. ASSUME IndexInv PROVE VectorsFollowContent
  BY <1>2 DEF IndexInv, LagBehind, InOrder, VectorsFollowContent
<1> QED
  BY <1>1, <1>2 DEF VectorsCatchUp

(* A topic without the vector of its present content has the batch that     *)
(* brings it before the worker, as long as nothing was dropped, refused or  *)
(* handed over out of order; no vector is ahead of its observation; and the *)
(* batches come in order (sqlite.go:381-393, hybrid.go:60-130).             *)
THEOREM VectorsDoCatchUp == IndexSpec => []VectorsCatchUp
  BY IndexInvTells, IndexStarts, IndexGoesOn, PTL DEF IndexSpec

(* The index: its queue never holds more than it has room for.              *)
THEOREM IndexKeepsTypes == IndexSpec => []IndexTypeOK
<1>1. IndexInv => IndexTypeOK
  BY DEF IndexInv
<1> QED
  BY <1>1, IndexStarts, IndexGoesOn, PTL DEF IndexSpec

-----------------------------------------------------------------------------
(* The run's specification.  Its conversation of several steps is a brain   *)
(* with constants of its own, about which all of BrainTurn_proofs holds.    *)
Several == INSTANCE BrainTurn_proofs WITH
  Runners <- {load}, Core <- {load}, Shells <- {},
  ToolSearch <- FALSE, Threshold <- 2, TailLimit <- 3, MaxTurns <- 1,
  MaxSteps <- 4, MaxCalls <- 1, Disobedience <- 2

LEMMA SeveralAssumed ==
  /\ load \in Runners /\ load \in Names
  /\ {load} \subseteq {load} /\ {load} \subseteq Names
  /\ LoadTool \in Names /\ Nothing \notin Names
  /\ {} \subseteq {load} \ {LoadTool}
  /\ Several!IsFiniteSet({load})
  /\ {2, 1, NudgeEvery} \subseteq Int
  /\ 3 \in Nat \ {0}
  /\ {4, 1, 2} \subseteq Nat
  /\ {FALSE, ApproverPresent} \subseteq BOOLEAN
<1>1. Several!IsFiniteSet({load})
  <2>1. <<load>> \in Seq({load})
    OBVIOUS
  <2>2. \A s \in {load} : \E n \in 1 .. Len(<<load>>) : <<load>>[n] = s
    OBVIOUS
  <2> QED
    BY <2>1, <2>2 DEF Several!IsFiniteSet
<1> QED
  BY <1>1, BrainAssumption, StepsAssumption DEF BrainAssumption, StepsAssumption

LEMMA SeveralGoesOn == Several!BrainInv /\ [Several!Next]_vars => Several!BrainInv'
<1>1. Several!BrainInv /\ [Several!Next]_Several!vars => Several!BrainInv'
  BY SeveralAssumed, Several!BrainGoesOn
<1> QED
  BY <1>1 DEF Several!vars, Several!turn, Several!log, vars, turn, log

(* The brain that the run takes its steps of and the one that is proved about. *)
LEMMA SameStep == Steps!Next <=> Several!Next
  BY DEF Steps!Next, Steps!Provider, Steps!Tool, Steps!StartStep,
         Steps!PersistUser, Steps!Assemble, Steps!Request, Steps!EmitCall,
         Steps!EmitError, Steps!StreamFailed, Steps!StreamEnds,
         Steps!StreamCancelled, Steps!RecordRequest, Steps!FeedBack,
         Steps!Loads, Steps!Registered, Steps!Refuse, Steps!Allow, Steps!Ask,
         Steps!Answer, Steps!RunOutputs, Steps!RunTool, Steps!SaveReply,
         Steps!NudgeDue, Steps!Nudge, Steps!Cancel, Steps!Return, Steps!Fail,
         Steps!RecentMessages, Steps!CapReached, Steps!Advertised,
         Steps!PruningActive, Steps!ToolsEnabled, Steps!TurnLimit,
         Steps!Calls, Steps!turn, Steps!log, Steps!vars, Several!Next,
         Several!Provider, Several!Tool, Several!StartStep,
         Several!PersistUser, Several!Assemble, Several!Request,
         Several!EmitCall, Several!EmitError, Several!StreamFailed,
         Several!StreamEnds, Several!StreamCancelled, Several!RecordRequest,
         Several!FeedBack, Several!Loads, Several!Registered, Several!Refuse,
         Several!Allow, Several!Ask, Several!Answer, Several!RunOutputs,
         Several!RunTool, Several!SaveReply, Several!NudgeDue, Several!Nudge,
         Several!Cancel, Several!Return, Several!Fail,
         Several!RecentMessages, Several!CapReached, Several!Advertised,
         Several!PruningActive, Several!ToolsEnabled, Several!TurnLimit,
         Several!Calls, Several!turn, Several!log, Several!vars

LEMMA SeveralStarts == Init => Several!BrainInv
<1>1. Several!Init => Several!BrainInv
  BY SeveralAssumed, Several!BrainStarts
<1> QED
  BY <1>1 DEF Init, Several!Init

(* Of the parts of a behaviour the one it runs keeps its invariant, and the *)
(* others, which rest in their initial state, keep theirs.                  *)
RunInv ==
  /\ part # "steps" => BrainInv
  /\ part = "steps" => Several!BrainInv
  /\ IndexInv

LEMMA RunGoesOn ==
  RunInv /\ [BrainNext]_<<part, vars, indexVars>> => RunInv'
<1> SUFFICES ASSUME RunInv, [BrainNext]_<<part, vars, indexVars>> PROVE RunInv'
  OBVIOUS
<1>1. /\ part' = part
      /\ part # "steps" => [Next]_vars
      /\ part = "steps" => [Several!Next]_vars
      /\ [IndexNext]_indexVars
  BY SameStep DEF BrainNext, InRounds, InSteps
<1>2. part # "steps" => BrainInv'
  BY <1>1, BrainGoesOn DEF RunInv
<1>3. part = "steps" => Several!BrainInv'
  BY <1>1, SeveralGoesOn DEF RunInv
<1>4. IndexInv'
  BY <1>1, IndexGoesOn DEF RunInv
<1> QED
  BY <1>1, <1>2, <1>3, <1>4 DEF RunInv

LEMMA RunKeepsInvariant == BrainSpec => []RunInv
<1>1. BrainInit => RunInv
  BY BrainStarts, SeveralStarts, IndexStarts DEF BrainInit, RunInv
<1> QED
  BY <1>1, RunGoesOn, PTL DEF BrainSpec

LEMMA SeveralTells ==
  Several!BrainInv => /\ Several!TypeOK /\ Several!RequestsFullyAnswered
                      /\ Several!LogAnswersUser /\ Several!NudgedOnCadence
                      /\ Several!NoProviderLeftSending
<1>1. Several!BrainInv =>
        /\ Several!RequestsFullyAnswered
        /\ Several!LogAnswersUser /\ Several!NudgedOnCadence
  BY SeveralAssumed, Several!BrainInvTells
<1> QED
  BY <1>1 DEF Several!BrainInv

(* Whenever the provider is called each recorded request is followed by the *)
(* results of its calls, in order, and no result stands without its request *)
(* (brain.go:400-424), in the brain whose rounds are looked at as in the    *)
(* one that takes several steps.                                            *)
THEOREM RunsAnswerRequests == BrainSpec => []RequestsFullyAnswered
<1>1. RunInv => RequestsFullyAnswered
  BY BrainInvTells, SeveralTells
     DEF RunInv, RequestsFullyAnswered, Several!RequestsFullyAnswered,
         IsRequest, IsResult, Several!IsRequest, Several!IsResult
<1> QED
  BY <1>1, RunKeepsInvariant, PTL

(* However a step leaves the loop over a stream, no provider goroutine      *)
(* stays blocked on its channel (brain.go:357-363).                         *)
THEOREM RunsDrainProviders == BrainSpec => []NoProviderLeftSending
<1>1. RunInv => NoProviderLeftSending
  BY SeveralTells
     DEF RunInv, BrainInv, NoProviderLeftSending, Several!NoProviderLeftSending
<1> QED
  BY <1>1, RunKeepsInvariant, PTL

(* No tool runs in a round past the limit, and pruning advertises exactly   *)
(* the core tools and those loaded in this turn (brain.go:332-347 and       *)
(* 386-417).                                                                *)
THEOREM RoundsStayInLimits == BrainSpec => []RoundsKeepLimits
<1>1. RunInv => RoundsKeepLimits
  BY BrainInvTells DEF RunInv, RoundsKeepLimits
<1> QED
  BY <1>1, RunKeepsInvariant, PTL

(* A step that fails writes no reply and leaves the user's message, if it   *)
(* was persisted, as the last of the log (brain.go:232-234), in the rounds  *)
(* of one step as over several.                                             *)
LEMMA RunsLeaveQuestions == BrainSpec => FailedStepsLeaveQuestions
<1>1. RunInv /\ [BrainNext]_<<part, vars, indexVars>>
        => (part # "steps" => [Next]_vars) /\ (part = "steps" => [Several!Next]_vars)
  BY SameStep DEF BrainNext, InRounds, InSteps
<1>2. Several!BrainInv /\ [Several!Next]_Several!vars
        => Several!FailureLeavesQuestion
  BY SeveralAssumed, Several!FailuresLeaveQuestions
<1>3. Several!BrainInv /\ [Several!Next]_vars => FailureLeavesQuestion
  BY <1>2 DEF Several!FailureLeavesQuestion, FailureLeavesQuestion,
              Several!vars, Several!turn, Several!log, vars, turn, log
<1>4. RunInv /\ [BrainNext]_<<part, vars, indexVars>>
        => [FailureLeavesQuestion]_vars
  BY <1>1, <1>3, FailuresLeaveQuestions DEF RunInv
<1> QED
  BY <1>4, RunKeepsInvariant, PTL DEF BrainSpec, FailedStepsLeaveQuestions

(* A reply follows its message, the counter of replies agrees with the log, *)
(* the curator was nudged once for each full cadence, and a step that fails *)
(* leaves its question last in the log (brain.go:232-234, 286-300, 570-592),*)
(* over several steps that may fail or be cancelled.                        *)
THEOREM RunsLeaveOrder == BrainSpec => StepsLeaveOrder
<1>1. Several!LogAnswersUser => LogAnswersUser
  BY DEF LogAnswersUser, Several!LogAnswersUser, Cardinality, Several!Cardinality
<1>2. Several!NudgedOnCadence => NudgedOnCadence
  BY DEF NudgedOnCadence, Several!NudgedOnCadence
<1>3. RunInv => LogAnswersUser /\ NudgedOnCadence
  BY <1>1, <1>2, BrainInvTells, SeveralTells DEF RunInv
<1>4. BrainSpec => [](LogAnswersUser /\ NudgedOnCadence)
  BY <1>3, RunKeepsInvariant, PTL
<1> QED
  BY <1>4, RunsLeaveQuestions, PTL DEF StepsLeaveOrder

(* The right vector of an observation is in place or on its way, and no     *)
(* vector is ahead (sqlite.go:381-393, hybrid.go:60-130).                   *)
THEOREM RunsCatchUp == BrainSpec => []VectorsCatchUp
<1>1. RunInv => VectorsCatchUp
  BY IndexInvTells DEF RunInv
<1> QED
  BY <1>1, RunKeepsInvariant, PTL

(* The run's state is of its types: the tools that are offered are          *)
(* registered ones, what is recorded is of the calls a model may make, and  *)
(* the worker's queue never holds more than it has room for.                *)
THEOREM RunsKeepTypes == BrainSpec => []BrainTypeOK
<1>1. Several!TypeOK => TypeOK
  BY SeveralAssumed DEF TypeOK, Several!TypeOK, Places, Several!Places, Entries,
     Several!Entries, Calls, Several!Calls, Outputs, Several!Outputs
<1>2. RunInv => BrainTypeOK
  BY <1>1, SeveralTells DEF RunInv, BrainInv, IndexInv, BrainTypeOK
<1> QED
  BY <1>2, RunKeepsInvariant, PTL
=============================================================================
