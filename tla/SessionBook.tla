----------------------------- MODULE SessionBook -----------------------------
(***************************************************************************)
(* The sessions of one database, as several processes work on them: the     *)
(* terminals with their slash commands (internal/adapters/tui/app.go) and   *)
(* `agis session` (cmd/agis/session.go), over the session manager           *)
(* (internal/session/manager.go), and what is learned from a session: the   *)
(* nudge after a turn, /compress, and CloseSession when a terminal quits    *)
(* (internal/core/brain.go, internal/memory/summarizer.go).  Each of those  *)
(* reads the session, asks the model, and then writes the summary, the      *)
(* observations and the user model in transactions of their own; it may     *)
(* fail, run out of time or be killed between any two.                      *)
(*                                                                         *)
(* A session is a number and what was said in it a count of exchanges.  A   *)
(* summary is the count it covers, an observation the number of the answer  *)
(* it was taken from; a topic is one about the user ("user/...").           *)
(***************************************************************************)
EXTENDS Integers, Sequences, FiniteSets, SequencesExt

CONSTANTS
  Terminals,
  Topics,
  MaxSessions,   (* bounds: sessions made, exchanges in each, answers of the *)
  MaxSaid,       (* model; and sessions, answers and snapshots together      *)
  MaxAnswers,
  MaxWork

ASSUME BookAssumption ==
  {MaxSessions, MaxSaid, MaxAnswers, MaxWork} \subseteq Nat

VARIABLES
  made,       (* sessions ever made                                          *)
  recent,     (* those that are there, by their last update                  *)
  said,       (* session -> exchanges                                        *)
  findable,   (* session -> exchanges in the full-text index (memory_fts)    *)
  covered,    (* session -> the exchanges its summary covers                 *)
  snapshots,  (* [of, covered, said]                                         *)
  observed,   (* topic -> the answer its observation is from, or 0           *)
  userModel,  (* topic -> the answer its user-model row is from, or 0        *)
  answers,    (* answers of the model so far                                 *)
  brainId,    (* terminal -> the brain's active session, or 0                *)
  managerId,  (* terminal -> the session manager's, or 0                     *)
  stage,      (* terminal -> where it stands                                 *)
  purpose,    (* what it is learning or reading for                          *)
  about,      (* the session that is about                                   *)
  seen,       (* what was read of it: exchanges, or the summary              *)
  learned,    (* the answer: [answer, summary, topics]                       *)
  finished,   (* history: terminals whose Close returned without an error     *)
  loose       (* history: topics whose row may differ from the observation   *)

bookRows == <<made, recent, said, findable, covered, snapshots>>
bookMinds == <<observed, userModel, answers, loose>>
activeIds == <<brainId, managerId>>
bookTask == <<stage, purpose, about, seen, learned>>
bookVars == <<bookRows, bookMinds, activeIds, bookTask, finished>>

Sessions == 1 .. MaxSessions
Existing == ToSet(recent)
NoAnswer == [answer |-> 0, summary |-> FALSE, topics |-> {}]

BookTypeOK ==
  /\ made \in 0 .. MaxSessions
  /\ recent \in Seq(1 .. made) /\ IsInjective(recent)
  /\ {said, findable, covered} \subseteq [Sessions -> 0 .. MaxSaid]
  /\ snapshots \subseteq [of : Sessions, covered : 0 .. MaxSaid, said : 0 .. MaxSaid]
  /\ finished \subseteq Terminals
  /\ {observed, userModel} \subseteq [Topics -> 0 .. MaxAnswers]
  /\ answers \in 0 .. MaxAnswers /\ loose \subseteq Topics
  /\ {brainId, managerId, about} \subseteq [Terminals -> 0 .. made]
  /\ stage \in [Terminals -> {"off", "idle", "snap", "load", "think",
                              "summarize", "observe", "profile", "event"}]
  /\ purpose \in [Terminals -> {"none", "nudge", "compress", "close", "command"}]
  /\ seen \in [Terminals -> 0 .. MaxSaid]
  /\ learned \in [Terminals -> [answer : 0 .. MaxAnswers, summary : BOOLEAN,
                                topics : SUBSET Topics]]

BookInit ==
  /\ made = 0 /\ recent = <<>>
  /\ said = [c \in Sessions |-> 0] /\ findable = said /\ covered = said
  /\ snapshots = {} /\ finished = {}
  /\ observed = [t \in Topics |-> 0] /\ userModel = observed
  /\ answers = 0 /\ loose = {}
  /\ brainId = [p \in Terminals |-> 0] /\ managerId = brainId
  /\ stage = [p \in Terminals |-> "off"]
  /\ purpose = [p \in Terminals |-> "none"]
  /\ about = brainId /\ seen = brainId
  /\ learned = [p \in Terminals |-> NoAnswer]

-----------------------------------------------------------------------------
(* A terminal starts with neither id set, and may be killed at any moment.  *)
RestsAt(p, s) ==
  /\ stage' = [stage EXCEPT ![p] = s]
  /\ purpose' = [purpose EXCEPT ![p] = "none"]
  /\ about' = [about EXCEPT ![p] = 0]
  /\ seen' = [seen EXCEPT ![p] = 0]
  /\ learned' = [learned EXCEPT ![p] = NoAnswer]
ForgetsIds(p) ==
  /\ brainId' = [brainId EXCEPT ![p] = 0]
  /\ managerId' = [managerId EXCEPT ![p] = 0]
OpenTerminal(p) ==
  /\ stage[p] = "off" /\ RestsAt(p, "idle")
  /\ UNCHANGED <<bookRows, bookMinds, activeIds, finished>>

(* The topics of a close that saved the observations but not yet the model. *)
Unfinished(p) == IF stage[p] = "profile" THEN learned[p].topics ELSE {}
TerminalKilled(p) ==
  /\ stage[p] # "off" /\ RestsAt(p, "off") /\ ForgetsIds(p)
  /\ loose' = loose \union Unfinished(p)
  /\ finished' = finished \ {p}
  /\ UNCHANGED <<bookRows, observed, userModel, answers>>

-----------------------------------------------------------------------------
LatestSession == Last(recent)
Touch(c) == recent' = Append(RemoveFirst(recent, c), c)
Room == made + answers + Cardinality(snapshots) < MaxWork
Make ==
  /\ made < MaxSessions /\ Room
  /\ made' = made + 1 /\ recent' = Append(recent, made + 1)

(* A turn goes to the brain's session while it is there, to the latest one  *)
(* otherwise, or to a new one (ensureConversation), and each message goes   *)
(* into the index with its row; then a nudge may be due, and reads the tail.*)
Going(p) == IF brainId[p] \in Existing THEN brainId[p] ELSE LatestSession
TakeTurn(p) ==
  /\ stage[p] = "idle"
  /\ LET c == IF recent = <<>> THEN made + 1 ELSE Going(p)
     IN  /\ IF recent = <<>> THEN Make ELSE Touch(c) /\ UNCHANGED made
         /\ said[c] < MaxSaid
         /\ said' = [said EXCEPT ![c] = @ + 1]
         /\ findable' = [findable EXCEPT ![c] = @ + 1]
  /\ \/ UNCHANGED <<stage, purpose>>
     \/ /\ stage' = [stage EXCEPT ![p] = "think"]
        /\ purpose' = [purpose EXCEPT ![p] = "nudge"]
  /\ UNCHANGED <<covered, snapshots, bookMinds, activeIds, about, seen,
                 learned, finished>>

(* /new makes a session and sets both ids; /restore sets both to one that   *)
(* is there.                                                                *)
NewSession(p) ==
  /\ stage[p] = "idle" /\ Make
  /\ brainId' = [brainId EXCEPT ![p] = made + 1]
  /\ managerId' = [managerId EXCEPT ![p] = made + 1]
  /\ UNCHANGED <<said, findable, covered, snapshots, bookMinds, bookTask, finished>>
RestoreSession(p, c) ==
  /\ stage[p] = "idle" /\ c \in Existing
  /\ brainId' = [brainId EXCEPT ![p] = c]
  /\ managerId' = [managerId EXCEPT ![p] = c]
  /\ UNCHANGED <<bookRows, bookMinds, bookTask, finished>>

(* /save: a manager without a session makes one; otherwise it only looks.   *)
SaveSession(p) ==
  /\ stage[p] = "idle" /\ managerId[p] = 0 /\ Make
  /\ managerId' = [managerId EXCEPT ![p] = made + 1]
  /\ UNCHANGED <<said, findable, covered, snapshots, bookMinds, brainId,
                 bookTask, finished>>

(* A mutant: the title is put in with its row where the row is gone. *)
RenameSessionInserting(c) ==
  /\ c \in 1 .. made /\ Touch(c) /\ recent' # recent
  /\ UNCHANGED <<made, said, findable, covered, snapshots, bookMinds,
                 activeIds, bookTask, finished>>

(* /rename, of the manager's session or the latest, and `agis session       *)
(* rename`, of any: the time of update changes with the title.              *)
RenameSession(c) ==
  /\ c \in Existing /\ Touch(c) /\ recent' # recent
  /\ UNCHANGED <<made, said, findable, covered, snapshots, bookMinds,
                 activeIds, bookTask, finished>>

(* `agis session delete`: messages and snapshots go with it by their foreign *)
(* keys; what has none stays, the messages' rows in the full-text index and *)
(* the events (sqlite.go:939-954).                                          *)
DeleteSession(c) ==
  /\ c \in Existing
  /\ recent' = RemoveFirst(recent, c)
  /\ said' = [said EXCEPT ![c] = 0] /\ covered' = [covered EXCEPT ![c] = 0]
  /\ snapshots' = {s \in snapshots : s.of # c}
  /\ UNCHANGED <<made, findable, bookMinds, activeIds, bookTask, finished>>

(* /snapshot of the manager's session, and `agis session snapshot` of any:  *)
(* the conversation is read, and then its messages, and the copy is stored  *)
(* if the conversation is still there (a foreign key).                      *)
TakeSnapshot(p, c) ==
  /\ c \in Existing /\ Room
  /\ \/ stage[p] = "idle" /\ c = managerId[p] /\ UNCHANGED purpose
     \/ stage[p] = "off" /\ purpose' = [purpose EXCEPT ![p] = "command"]
  /\ stage' = [stage EXCEPT ![p] = "snap"]
  /\ about' = [about EXCEPT ![p] = c]
  /\ seen' = [seen EXCEPT ![p] = covered[c]]
  /\ UNCHANGED <<bookRows, bookMinds, activeIds, learned, finished>>

(* Mutant: the copy is stored whatever became of the conversation. *)
StoreCopyAnyway(p) ==
  /\ stage[p] = "snap"
  /\ snapshots' = snapshots \union
       {[of |-> about[p], covered |-> seen[p], said |-> said[about[p]]]}
  /\ RestsAt(p, IF purpose[p] = "command" THEN "off" ELSE "idle")
  /\ UNCHANGED <<made, recent, said, findable, covered, bookMinds, activeIds,
                 finished>>
StoreCopy(p) ==
  /\ stage[p] = "snap" /\ about[p] \in Existing
  /\ snapshots' = snapshots \union
       {[of |-> about[p], covered |-> seen[p], said |-> said[about[p]]]}
  /\ RestsAt(p, IF purpose[p] = "command" THEN "off" ELSE "idle")
  /\ UNCHANGED <<made, recent, said, findable, covered, bookMinds, activeIds,
                 finished>>
CopyFails(p) ==
  /\ stage[p] = "snap"
  /\ RestsAt(p, IF purpose[p] = "command" THEN "off" ELSE "idle")
  /\ UNCHANGED <<bookRows, bookMinds, activeIds, finished>>

-----------------------------------------------------------------------------
(* /compress takes the manager's session, if it has one; Ctrl+C closes the  *)
(* latest session, whoever's that is (CloseSession).                        *)
LearnFrom(p, c, for) ==
  /\ stage[p] = "idle"
  /\ stage' = [stage EXCEPT ![p] = "load"]
  /\ purpose' = [purpose EXCEPT ![p] = for]
  /\ about' = [about EXCEPT ![p] = c]
  /\ UNCHANGED <<bookRows, bookMinds, activeIds, seen, learned, finished>>
CompressSession(p) == managerId[p] # 0 /\ LearnFrom(p, managerId[p], "compress")
QuitTerminal(p) == recent # <<>> /\ LearnFrom(p, LatestSession, "close")

(* The messages of a session that is gone are none, and no error.           *)
LoadTail(p) ==
  /\ stage[p] = "load"
  /\ stage' = [stage EXCEPT ![p] = "think"]
  /\ seen' = [seen EXCEPT ![p] = said[about[p]]]
  /\ UNCHANGED <<bookRows, bookMinds, activeIds, purpose, about, learned, finished>>

(* One call of the model.  An answer that cannot be parsed counts as one    *)
(* that has nothing to say.  The curator writes no summary.                 *)
AskModel(p) ==
  /\ stage[p] = "think" /\ answers < MaxAnswers /\ Room
  /\ answers' = answers + 1
  /\ \E s \in IF purpose[p] = "nudge" THEN {FALSE} ELSE BOOLEAN, ts \in SUBSET Topics :
       learned' = [learned EXCEPT ![p] =
                     [answer |-> answers + 1, summary |-> s, topics |-> ts]]
  /\ stage' = [stage EXCEPT ![p] =
                 IF purpose[p] = "nudge" THEN "observe" ELSE "summarize"]
  /\ UNCHANGED <<bookRows, observed, userModel, loose, activeIds, purpose, about,
                 seen, finished>>

(* UPDATE of the summary alone; of a deleted session it changes no row.     *)
SaveSummary(p) ==
  /\ stage[p] = "summarize"
  /\ covered' = IF learned[p].summary /\ about[p] \in Existing
                THEN [covered EXCEPT ![about[p]] = seen[p]] ELSE covered
  /\ stage' = [stage EXCEPT ![p] = "observe"]
  /\ seen' = [seen EXCEPT ![p] = 0]
  /\ learned' = [learned EXCEPT ![p].summary = FALSE]
  /\ UNCHANGED <<made, recent, said, findable, snapshots, bookMinds,
                 activeIds, purpose, about, finished>>

(* SaveObservations, all of them or none.  A nudge ends with it: the user   *)
(* model is not brought up to date.                                         *)
SaveObserved(p) ==
  /\ stage[p] = "observe"
  /\ LET ts == learned[p].topics IN
     /\ observed' = [t \in Topics |-> IF t \in ts THEN learned[p].answer
                                      ELSE observed[t]]
     /\ \/ /\ purpose[p] = "nudge" /\ RestsAt(p, "idle")
           /\ loose' = loose \union ts
        \/ /\ purpose[p] # "nudge"
           /\ stage' = [stage EXCEPT ![p] = "profile"]
           /\ loose' = (loose \ ts) \union
                       (ts \intersect UNION {Unfinished(q) : q \in Terminals})
           /\ UNCHANGED <<purpose, about, seen, learned>>
  /\ UNCHANGED <<bookRows, userModel, answers, activeIds, finished>>

(* UpsertUserModel, from this answer's observations only.  Close returns:   *)
(* /compress is over, CloseSession goes on to the event.                    *)
SaveModel(p) ==
  /\ stage[p] = "profile"
  /\ userModel' = [t \in Topics |-> IF t \in learned[p].topics
                                    THEN learned[p].answer ELSE userModel[t]]
  /\ \/ purpose[p] = "compress" /\ RestsAt(p, "idle") /\ UNCHANGED finished
     \/ /\ purpose[p] = "close"
        /\ stage' = [stage EXCEPT ![p] = "event"]
        /\ finished' = finished \union {p}
        /\ learned' = [learned EXCEPT ![p] = NoAnswer]
        /\ UNCHANGED <<purpose, about, seen>>
  /\ UNCHANGED <<bookRows, observed, answers, loose, activeIds>>

(* The summary event, which nothing reads but `session show`, and the       *)
(* terminal is gone.                                                        *)
LogEvent(p) ==
  /\ stage[p] = "event" /\ RestsAt(p, "off") /\ ForgetsIds(p)
  /\ finished' = finished \ {p}
  /\ UNCHANGED <<bookRows, bookMinds>>

(* Mutants: CloseSession goes on after an error of Close; a failed save of  *)
(* the observations is passed over.                                         *)
LearningFailsOn(p) ==
  /\ stage[p] \in {"load", "think", "summarize", "observe", "profile"}
  /\ stage' = [stage EXCEPT ![p] = "event"]
  /\ loose' = loose \union Unfinished(p)
  /\ UNCHANGED <<bookRows, observed, userModel, answers, activeIds, purpose,
                 about, seen, learned, finished>>
LearningFailsOver(p) ==
  /\ stage[p] = "observe" /\ purpose[p] # "nudge"
  /\ stage' = [stage EXCEPT ![p] = "profile"]
  /\ UNCHANGED <<bookRows, bookMinds, activeIds, purpose, about, seen, learned,
                 finished>>

(* A read, a write or the model fails, or the thirty seconds are over: what *)
(* was written stays, the rest is skipped.                                  *)
LearningFails(p) ==
  /\ stage[p] \in {"load", "think", "summarize", "observe", "profile", "event"}
  /\ \/ purpose[p] = "close" /\ RestsAt(p, "off") /\ ForgetsIds(p)
     \/ purpose[p] # "close" /\ RestsAt(p, "idle") /\ UNCHANGED activeIds
  /\ loose' = loose \union Unfinished(p)
  /\ finished' = finished \ {p}
  /\ UNCHANGED <<bookRows, observed, userModel, answers>>

(* /persona reset clears the user model. *)
PersonaReset(p) ==
  /\ stage[p] = "idle" /\ \E t \in Topics : userModel[t] # 0
  /\ userModel' = [t \in Topics |-> 0]
  /\ loose' = Topics
  /\ UNCHANGED <<bookRows, observed, answers, activeIds, bookTask, finished>>

BookNext ==
  \/ \E p \in Terminals :
       \/ OpenTerminal(p) \/ TerminalKilled(p) \/ TakeTurn(p) \/ NewSession(p)
       \/ SaveSession(p) \/ StoreCopy(p) \/ CopyFails(p) \/ CompressSession(p)
       \/ QuitTerminal(p) \/ LoadTail(p) \/ AskModel(p) \/ SaveSummary(p)
       \/ SaveObserved(p) \/ SaveModel(p) \/ LogEvent(p) \/ LearningFails(p)
       \/ PersonaReset(p)
       \/ \E c \in Sessions : RestoreSession(p, c) \/ TakeSnapshot(p, c)
  \/ \E c \in Sessions : RenameSession(c) \/ DeleteSession(c)

BookSpec == BookInit /\ [][BookNext]_bookVars

-----------------------------------------------------------------------------
(* The user model says what memory says, though the two are written one     *)
(* after the other: a row differs from its observation only while a close   *)
(* is between them, or where one stopped there, two ran at the same time, a *)
(* nudge wrote or the persona was reset (summarizer.go:60-76).              *)
ModelFollowsMemory ==
  \A t \in Topics \ loose :
    userModel[t] = observed[t] \/ \E p \in Terminals : t \in Unfinished(p)

(* A summary event tells of a close that came to its end (brain.go:627-642).*)
EventMeansClosed == \A p \in Terminals : stage[p] = "event" => p \in finished

(* A summary, a snapshot's too, covers no more than the exchanges beside    *)
(* it; a session that is there is searched whole, and of one that was       *)
(* deleted neither messages nor snapshots are left, with whatever was under *)
(* way on it.  What a deleted one had in the full-text index stays there    *)
(* (sqlite.go:167, 478, 939, 956).                                          *)
CopiesFit ==
  /\ \A c \in Sessions : covered[c] <= said[c]
  /\ \A s \in snapshots : s.covered <= s.said /\ s.of \in Existing
  /\ \A c \in Existing : findable[c] = said[c]
  /\ \A c \in Sessions \ Existing : said[c] = 0

(* A session that was deleted does not come back: not by a turn, a rename,  *)
(* a summary or a snapshot that another process had begun on it             *)
(* (sqlite.go:480, 939; brain.go:724-743).                                  *)
DeletedSessionsStayGone ==
  [][\A c \in 1 .. made : c \notin Existing => c \notin Existing']_bookVars

(* What is kept beside the messages of a database agrees with them and with *)
(* itself, whoever works on the sessions, and none of these that was        *)
(* deleted comes back (sqlite.go:478-486, 939-954; summarizer.go:60-75).    *)
BookHolds ==
  [](ModelFollowsMemory /\ EventMeansClosed /\ CopiesFit) /\ DeletedSessionsStayGone
=============================================================================
