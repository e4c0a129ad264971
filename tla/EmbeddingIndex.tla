--------------------------- MODULE EmbeddingIndex ---------------------------
(***************************************************************************)
(* The vector half of the memory (internal/memory/sqlite.go, hybrid.go).   *)
(* SaveObservations writes a batch of observations in one transaction,     *)
(* which also deletes the vectors of the topics it replaces, and then      *)
(* hands the batch to a background worker over the bounded channel         *)
(* embedChan.  The worker calls the embedding service and stores one       *)
(* vector per observation, without looking at what the observation says by *)
(* then.  Close shuts the channel, cancels the worker and waits for it.    *)
(*                                                                         *)
(* The content of an observation is a version: every save writes a version *)
(* of its own, so a vector is fresh when its version is the observation's. *)
(* A batch that fails inside its transaction is rolled back and changes    *)
(* nothing; the model leaves it out.                                       *)
(***************************************************************************)
EXTENDS Integers, Sequences, SequencesExt, FiniteSets

CONSTANTS
  Topics,     (* topic keys of observations                                  *)
  Batches,    (* the sequences of topics a save may carry                    *)
  Savers,     (* goroutines that may save at the same time                   *)
  QueueCap,   (* the capacity of embedChan, 128 in the code                  *)
  MayFail,    (* the embedding service or the store of a vector may fail     *)
  MayClose,   (* the program may close the repository                        *)
  MaxSaves,   (* bound: how many saves a behaviour contains                  *)
  MaxReopens  (* bound: how many times the program starts again              *)

ASSUME IndexAssumption ==
  /\ Batches \subseteq Seq(Topics) \ {<< >>}
  /\ QueueCap \in Nat /\ MaxSaves \in Nat /\ MaxReopens \in Nat
  /\ {MayFail, MayClose} \subseteq BOOLEAN

VARIABLES
  observed,   (* observations: the version of each topic, 0 when it has none  *)
  vectors,   (* embeddings: the version each topic's vector was made from    *)
  unsent,    (* the batch a saver committed and has not handed over, or none *)
  queue,     (* the batches in embedChan                                     *)
  worker,    (* "idle", "embedding", "storing" or "exited"                   *)
  work,      (* the batch the worker holds, less what it has stored          *)
  closing,   (* how far Close is: "open", "marked", "cancelled", "closed"    *)
  regular,   (* history: no batch was dropped, refused, or handed over out   *)
             (* of order, and the program was neither closed nor restarted   *)
  saves,     (* how many saves there have been                               *)
  reopens    (* how many times the program started again                     *)

stored == <<observed, vectors>>
indexVars == <<observed, vectors, unsent, queue, worker, work, closing,
          regular, saves, reopens>>

NoBatch == [topics |-> << >>, version |-> 0]
Batch == [topics : Seq(Topics), version : 0 .. MaxSaves]

IndexTypeOK ==
  /\ observed \in [Topics -> 0 .. MaxSaves]
  /\ vectors \in [Topics -> 0 .. MaxSaves]
  /\ unsent \in [Savers -> Batch]
  /\ queue \in Seq(Batch)
  /\ Len(queue) <= QueueCap
  /\ worker \in {"idle", "embedding", "storing", "exited"}
  /\ work \in Batch
  /\ closing \in {"open", "marked", "cancelled", "closed"}
  /\ regular \in BOOLEAN
  /\ saves \in 0 .. MaxSaves
  /\ reopens \in 0 .. MaxReopens

IndexInit ==
  /\ observed = [t \in Topics |-> 0]
  /\ vectors = [t \in Topics |-> 0]
  /\ unsent = [s \in Savers |-> NoBatch]
  /\ queue = << >>
  /\ worker = "idle"
  /\ work = NoBatch
  /\ closing = "open"
  /\ regular = TRUE
  /\ saves = 0
  /\ reopens = 0

(* The transaction of SaveObservations: all rows of the batch or none, and  *)
(* the vectors of the replaced rows go with them.                           *)
Save(s, b) ==
  /\ closing # "closed"
  /\ unsent[s] = NoBatch
  /\ saves < MaxSaves
  /\ saves' = saves + 1
  /\ observed' = [t \in Topics |-> IF t \in ToSet(b) THEN saves' ELSE observed[t]]
  /\ vectors' = [t \in Topics |-> IF t \in ToSet(b) THEN 0 ELSE vectors[t]]
  /\ unsent' = [unsent EXCEPT ![s] = [topics |-> b, version |-> saves']]
  /\ UNCHANGED <<queue, worker, work, closing, regular, reopens>>

(* A hand-over that keeps every batch, and keeps them in commit order.      *)
Orderly(s) ==
  /\ closing = "open" /\ Len(queue) < QueueCap
  /\ \A r \in Savers :
       unsent[r] # NoBatch => unsent[s].version <= unsent[r].version

(* Mutants of Enqueue: without the bound, with the bound one too low, and   *)
(* at the wrong end.                                                        *)
HandOver(s, q) ==
  /\ unsent[s] # NoBatch
  /\ queue' = q
  /\ regular' = (regular /\ Orderly(s))
  /\ unsent' = [unsent EXCEPT ![s] = NoBatch]
  /\ UNCHANGED <<stored, worker, work, closing, saves, reopens>>

EnqueueUnbounded(s)  == HandOver(s, Append(queue, unsent[s]))
EnqueueDropsEarly(s) ==
  HandOver(s, IF Len(queue) < QueueCap - 1 THEN Append(queue, unsent[s])
              ELSE queue)
EnqueueInFront(s)    == HandOver(s, <<unsent[s]>> \o queue)

(* After the commit, under embedMu: the batch goes to the worker unless the *)
(* repository is closed or the channel is full, when it is dropped.         *)
Enqueue(s) ==
  /\ unsent[s] # NoBatch
  /\ IF closing = "open" /\ Len(queue) < QueueCap
       THEN queue' = Append(queue, unsent[s])
       ELSE queue' = queue
  /\ unsent' = [unsent EXCEPT ![s] = NoBatch]
  /\ regular' = (regular /\ Orderly(s))
  /\ UNCHANGED <<stored, worker, work, closing, saves, reopens>>

(* The worker's select: a batch from the channel, even from a closed one,   *)
(* is one of its two ready cases once the context is cancelled.             *)
WorkerTake ==
  /\ worker = "idle"
  /\ queue # << >>
  /\ work' = Head(queue)
  /\ queue' = Tail(queue)
  /\ worker' = "embedding"
  /\ UNCHANGED <<stored, unsent, closing, regular, saves, reopens>>

(* A mutant: the worker looks at its context only when it has a batch.      *)
WorkerExitsAtBatch ==
  /\ worker = "idle"
  /\ closing = "cancelled" /\ queue # << >>
  /\ worker' = "exited"
  /\ UNCHANGED <<stored, unsent, queue, work, closing, regular, saves, reopens>>

(* The other case, or the closed channel found empty.                       *)
WorkerExits ==
  /\ worker = "idle"
  /\ closing = "cancelled" \/ (closing = "marked" /\ queue = << >>)
  /\ worker' = "exited"
  /\ UNCHANGED <<stored, unsent, queue, work, closing, regular, saves, reopens>>

(* EmbedBatch answers for the whole batch; it runs under r.ctx.             *)
Embedded ==
  /\ worker = "embedding"
  /\ worker' = "storing"
  /\ UNCHANGED <<stored, unsent, queue, work, closing, regular, saves, reopens>>

(* EmbedBatch fails, or times out, or is cancelled: the batch is given up.  *)
EmbedFails ==
  /\ worker = "embedding"
  /\ MayFail \/ closing = "cancelled"
  /\ worker' = "idle"
  /\ work' = NoBatch
  /\ regular' = FALSE
  /\ UNCHANGED <<stored, unsent, queue, closing, saves, reopens>>

(* A mutant: the loop ends at its first observation.                        *)
RestAbandoned(b) == NoBatch

(* What is left of a batch after its first observation is dealt with.       *)
Rest(b) == IF Len(b.topics) = 1 THEN NoBatch
           ELSE [b EXCEPT !.topics = Tail(b.topics)]

(* The upsert of one vector.  A vector that is empty, or that the database  *)
(* refuses, is skipped and the loop goes on; a cancelled context refuses it.*)
Store ==
  /\ worker = "storing"
  /\ work' = Rest(work)
  /\ worker' = IF work' = NoBatch THEN "idle" ELSE "storing"
  /\ \/ /\ closing \in {"open", "marked"}
        /\ vectors' = [vectors EXCEPT ![Head(work.topics)] = work.version]
        /\ UNCHANGED regular
     \/ /\ MayFail \/ closing = "cancelled"
        /\ vectors' = vectors
        /\ regular' = FALSE
  /\ UNCHANGED <<observed, unsent, queue, closing, saves, reopens>>

(* Close: mark and shut the channel under embedMu, cancel, then wait for    *)
(* the worker and close the database.                                       *)
CloseMark ==
  /\ MayClose
  /\ closing = "open"
  /\ closing' = "marked"
  /\ regular' = FALSE
  /\ UNCHANGED <<stored, unsent, queue, worker, work, saves, reopens>>

CloseCancel ==
  /\ closing = "marked"
  /\ closing' = "cancelled"
  /\ UNCHANGED <<stored, unsent, queue, worker, work, regular, saves, reopens>>

CloseDatabase ==
  /\ closing = "cancelled"
  /\ worker = "exited"
  /\ closing' = "closed"
  /\ UNCHANGED <<stored, unsent, queue, worker, work, regular, saves, reopens>>

(* The program ends, in the middle of anything, and starts again on the     *)
(* same database: NewRepository makes an empty channel and a new worker.    *)
Reopen ==
  /\ MayClose
  /\ reopens < MaxReopens
  /\ reopens' = reopens + 1
  /\ unsent' = [s \in Savers |-> NoBatch]
  /\ queue' = << >>
  /\ worker' = "idle"
  /\ work' = NoBatch
  /\ closing' = "open"
  /\ regular' = FALSE
  /\ UNCHANGED <<stored, saves>>

WorkerStep == WorkerTake \/ WorkerExits \/ Embedded \/ EmbedFails \/ Store

IndexNext ==
  \/ \E s \in Savers : Enqueue(s) \/ \E b \in Batches : Save(s, b)
  \/ WorkerTake \/ WorkerExits
  \/ Embedded \/ EmbedFails \/ Store
  \/ CloseMark \/ CloseCancel \/ CloseDatabase
  \/ Reopen

IndexSpec == IndexInit /\ [][IndexNext]_indexVars

(* Goroutines that can run do; EmbedBatch has a timeout of 30 seconds.      *)
IndexFairness ==
  /\ WF_indexVars(WorkerStep)
  /\ WF_indexVars(CloseCancel) /\ WF_indexVars(CloseDatabase)
  /\ \A s \in Savers : WF_indexVars(Enqueue(s))

IndexFairSpec == IndexSpec /\ IndexFairness

----------------------------------------------------------------------------
(* Topic t's present version is on its way to the worker or in its hands.   *)
OnItsWay(t) ==
  \E b \in {unsent[s] : s \in Savers} \union ToSet(queue) \union {work} :
    t \in ToSet(b.topics) /\ b.version = observed[t]

(* Whenever a topic's vector is missing or was made from replaced content,    *)
(* the job that makes the right one is still to come: the worker may store  *)
(* a stale vector, but the batch that corrects it is behind it in the       *)
(* queue.  That needs batches handed over in the order they were committed, *)
(* room in the queue and a service that answers (sqlite.go:381-393).        *)
RepairIsOnItsWay ==
  regular => \A t \in Topics : vectors[t] # observed[t] => OnItsWay(t)

(* No vector describes an observation before there is one, nor content        *)
(* newer than the observation's: the worker lags behind, never ahead, and   *)
(* while nothing disturbs the order, the jobs come in order of their saves. *)
VectorsFollowContent ==
  /\ \A t \in Topics : vectors[t] <= observed[t]
  /\ regular =>
       /\ \A i, j \in DOMAIN queue :
            i < j => queue[i].version < queue[j].version
       /\ \A i \in DOMAIN queue : work.version < queue[i].version

(* The index lags behind the observations and catches up.                   *)
VectorsCatchUp == RepairIsOnItsWay /\ VectorsFollowContent

(* A topic whose vector is missing or stale gets the one of its content,    *)
(* unless the queue, the service or a shutdown gets in the way.             *)
SavedIsEmbedded ==
  \A t \in Topics :
    vectors[t] # observed[t] ~> vectors[t] = observed[t] \/ ~regular

(* Close comes to an end whatever the worker was doing.                     *)
CloseEnds == closing = "marked" ~> closing \in {"open", "closed"}
=============================================================================
