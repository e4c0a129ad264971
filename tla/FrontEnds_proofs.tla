-------------------------- MODULE FrontEnds_proofs --------------------------
(***************************************************************************)
(* What users meet: the messages of the chat platforms (PlatformDelivery), *)
(* the conversation of each chat (SessionRouting), the terminal's turns     *)
(* (TuiTurn) and the commands that start and stop all that (CommandLife),   *)
(* each for any number of messages, events, turns, tokens and asks.         *)
(***************************************************************************)
EXTENDS MCFrontEnds, SequenceLemmas

-----------------------------------------------------------------------------
(* The platforms (internal/gateway).  Messages of the chat platforms are    *)
(* neither lost nor taken up twice, and a daemon whose adapters are stopped *)
(* has no turn running.  The invariant is about one adapter at a time: what *)
(* it has in hand follows on what it took up, and everything it has behind  *)
(* it was worked on.                                                        *)

Kinds == {"text", "voice", "stranger"}
TaskStates == [msgs : Seq(Nat), left : Seq(Nat),
               stage : {"take", "turn", "reply"}, alive : BOOLEAN]

Typed ==
  /\ platform \in Lineups
  /\ posted \in [Adapters -> Seq(Kinds)]
  /\ \A a \in Adapters : Len(posted[a]) <= MaxPosts[platform]
  /\ cursor \in [Adapters -> Nat] /\ base \in [Adapters -> Nat]
  /\ forgotten \in [Adapters -> Nat]
  /\ acked \in [Adapters -> SUBSET Nat]
  /\ tasks \in [Adapters -> SUBSET TaskStates]
  /\ read \in [Adapters -> Seq(Nat)]
  /\ fate \in [Adapters -> [Posts -> SUBSET Fates]]

Worked(a, m) == fate[a][m] # {}
InHand(a, m) == \E t \in tasks[a] : Contains(t.left, m)

(* What is in hand was posted, and what a request has behind it was worked  *)
(* on.                                                                      *)
TasksProper(a) ==
  \A t \in tasks[a] :
    /\ t.left # << >>
    /\ \A i \in DOMAIN t.left : t.left[i] \in 1 .. Len(posted[a])
    /\ \A i \in DOMAIN t.msgs :
         /\ t.msgs[i] \in 1 .. Len(posted[a])
         /\ Polls(a) \/ Contains(t.left, t.msgs[i]) \/ Worked(a, t.msgs[i])

(* A polling loop has one batch in hand, which ends at its cursor and goes  *)
(* on where it stopped reading.                                             *)
Last1(s) == s[Len(s)]
LoopInOrder(a) ==
  Polls(a) =>
    /\ \A t, u \in tasks[a] : t = u
    /\ \A t \in tasks[a] :
         /\ \A i \in 1 .. Len(t.left) - 1 : t.left[i + 1] = t.left[i] + 1
         /\ Last1(t.left) = cursor[a]
         /\ IF t.stage = "take"
              THEN read[a] # << >> => t.left[1] = Last1(read[a]) + 1
              ELSE read[a] # << >> /\ t.left[1] = Last1(read[a])
    /\ tasks[a] = {} /\ read[a] # << >> => Last1(read[a]) = cursor[a]
    /\ read[a] # << >> => cursor[a] > 0
ReadsOn(a) ==
  \A i \in 1 .. Len(read[a]) - 1 : read[a][i + 1] = read[a][i] + 1

(* What an adapter has behind it was worked on or is in hand; what Telegram *)
(* was told to forget, and what a web server answered for, was worked on.   *)
CursorsInside(a) ==
  cursor[a] <= Len(posted[a]) /\ forgotten[a] <= Len(posted[a])
TelegramBehind(a) ==
  platform[a] = "telegram" =>
    /\ cursor[a] > 0 => forgotten[a] <= cursor[a]
    /\ \A m \in Messages(a) :
         /\ m <= forgotten[a] => Worked(a, m)
         /\ m <= cursor[a] => Worked(a, m) \/ m <= forgotten[a] \/ InHand(a, m)
DiscordBehind(a) ==
  platform[a] = "discord" =>
    /\ (base[a] = 0) <=> (cursor[a] = 0)
    /\ \A m \in Messages(a) :
         base[a] - Window < m /\ m <= cursor[a] => Worked(a, m) \/ InHand(a, m)
AnsweredBehind(a) ==
  ~Polls(a) => \A m \in acked[a] : m \in Messages(a) /\ Worked(a, m)

AdapterInv(a) ==
  /\ TasksProper(a) /\ LoopInOrder(a) /\ ReadsOn(a) /\ CursorsInside(a)
  /\ TelegramBehind(a) /\ DiscordBehind(a) /\ AnsweredBehind(a)

(* Whoever is not running has nothing in hand, unless a Shutdown gave up.   *)
Quiet ==
  /\ untidy \in BOOLEAN
  /\ ~untidy => \A a \in Adapters \ running : tasks[a] = {}

DeliveryInv == Typed /\ Quiet /\ \A a \in Adapters : AdapterInv(a)

-----------------------------------------------------------------------------
(* Sequences as the model writes them.                                      *)

LEMMA SpanIs ==
  ASSUME NEW f \in Nat, NEW t \in Nat, f <= t
  PROVE  /\ Span(f, t) \in Seq(Nat) /\ Span(f, t) # << >>
         /\ Len(Span(f, t)) = t - f + 1 /\ t - f + 1 \in Nat
         /\ \A i \in 1 .. t - f + 1 : Span(f, t)[i] = f + i - 1
         /\ Span(f, t)[1] = f /\ Last1(Span(f, t)) = t
         /\ \A i \in 1 .. t - f + 1 : Span(f, t)[i] \in f .. t
         /\ \A m \in f .. t : Contains(Span(f, t), m)
<1> DEFINE s == Span(f, t)
<1>1. t - f + 1 \in Nat \ {0}
  OBVIOUS
<1>2. s = [i \in 1 .. t - f + 1 |-> f + i - 1]
  BY DEF Span
<1>3. \A i \in 1 .. t - f + 1 : f + i - 1 \in Nat /\ f + i - 1 \in f .. t
  OBVIOUS
<1>4. s \in [1 .. t - f + 1 -> Nat]
  BY <1>2, <1>3
<1>5. s \in Seq(Nat)
  BY <1>1, <1>4
<1>6. Len(s) = t - f + 1
  BY <1>1, <1>2, <1>5
<1>7. \A i \in 1 .. t - f + 1 : s[i] = f + i - 1
  BY <1>2
<1> HIDE DEF s
<1>8. \A m \in f .. t : Contains(s, m)
  <2> TAKE m \in f .. t
  <2>1. m - f + 1 \in 1 .. t - f + 1 /\ f + (m - f + 1) - 1 = m
    OBVIOUS
  <2>2. s[m - f + 1] = m
    BY <1>7, <2>1
  <2> QED
    BY <1>6, <2>1, <2>2 DEF Contains
<1>9. s[1] = f /\ s[t - f + 1] = t
  BY <1>1, <1>7
<1>10. s # << >>
  BY <1>1, <1>6
<1> QED
  BY <1>1, <1>3, <1>5, <1>6, <1>7, <1>8, <1>9, <1>10 DEF s, Last1

(* What is done leaves the front of a batch and nothing else does.          *)
LEMMA TailKeeps ==
  ASSUME NEW s \in Seq(Nat), s # << >>
  PROVE  /\ Len(s) = 1 => Last1(s) = s[1]
         /\ Len(s) # 1 => Tail(s) # << >> /\ Last1(Tail(s)) = Last1(s)
                          /\ Tail(s)[1] = s[2]
         /\ \A m : Contains(s, m) <=> m = s[1] \/ Contains(Tail(s), m)
<1>1. /\ Tail(s) \in Seq(Nat) /\ Len(s) \in Nat \ {0}
      /\ Len(Tail(s)) = Len(s) - 1
      /\ \A i \in 1 .. Len(s) - 1 : Tail(s)[i] = s[i + 1]
  BY OneLess
<1>2. Len(s) # 1 => Tail(s) # << >> /\ Last1(Tail(s)) = Last1(s)
                    /\ Tail(s)[1] = s[2]
  <2> SUFFICES ASSUME Len(s) # 1
               PROVE  Tail(s) # << >> /\ Last1(Tail(s)) = Last1(s)
                      /\ Tail(s)[1] = s[2]
    OBVIOUS
  <2>1. Len(s) - 1 \in 1 .. Len(s) - 1 /\ 1 \in 1 .. Len(s) - 1
        /\ (Len(s) - 1) + 1 = Len(s)
    BY <1>1
  <2>2. Tail(s)[Len(s) - 1] = s[Len(s)] /\ Tail(s)[1] = s[2]
    BY <1>1, <2>1
  <2>3. Len(Tail(s)) # 0
    BY <1>1, <2>1
  <2>4. ASSUME Tail(s) = << >> PROVE FALSE
    <3>1. Len(<< >>) = 0
      OBVIOUS
    <3> QED
      BY <2>3, <2>4, <3>1
  <2>5. Last1(Tail(s)) = Last1(s)
    BY <1>1, <2>2 DEF Last1
  <2> QED
    BY <2>2, <2>4, <2>5
<1>3. ASSUME NEW m, Contains(s, m) PROVE m = s[1] \/ Contains(Tail(s), m)
  <2>1. PICK i \in 1 .. Len(s) : s[i] = m
    BY <1>3 DEF Contains
  <2>2. CASE i = 1
    BY <2>1, <2>2
  <2>3. CASE i # 1
    <3>1. i - 1 \in 1 .. Len(s) - 1 /\ (i - 1) + 1 = i
      BY <1>1, <2>3
    <3>2. Tail(s)[i - 1] = m
      BY <1>1, <2>1, <3>1
    <3> QED
      BY <1>1, <3>1, <3>2 DEF Contains
  <2> QED
    BY <2>2, <2>3
<1>4. ASSUME NEW m, m = s[1] \/ Contains(Tail(s), m) PROVE Contains(s, m)
  <2>1. CASE m = s[1]
    <3>1. 1 \in 1 .. Len(s)
      BY <1>1
    <3> QED
      BY <2>1, <3>1 DEF Contains
  <2>2. CASE Contains(Tail(s), m)
    <3>1. PICK i \in 1 .. Len(s) - 1 : Tail(s)[i] = m
      BY <1>1, <2>2 DEF Contains
    <3>2. i + 1 \in 1 .. Len(s) /\ s[i + 1] = m
      BY <1>1, <3>1
    <3> QED
      BY <3>2 DEF Contains
  <2> QED
    BY <1>4, <2>1, <2>2
<1> QED
  BY <1>2, <1>3, <1>4 DEF Last1

-----------------------------------------------------------------------------
(* Whoever is not concerned by a step keeps what it has.                    *)
Rests(b) ==
  /\ platform' = platform /\ posted'[b] = posted[b] /\ cursor'[b] = cursor[b]
  /\ base'[b] = base[b] /\ forgotten'[b] = forgotten[b]
  /\ acked'[b] = acked[b] /\ tasks'[b] = tasks[b] /\ read'[b] = read[b]
  /\ fate'[b] = fate[b]

LEMMA RestsKeeps ==
  ASSUME NEW b \in Adapters, AdapterInv(b), Rests(b)
  PROVE  AdapterInv(b)'
<1> USE DEF AdapterInv, Rests, Polls, Worked, InHand, Messages
<1>1. TasksProper(b)'
  BY DEF TasksProper
<1>2. LoopInOrder(b)'
  BY DEF LoopInOrder
<1>3. ReadsOn(b)' /\ CursorsInside(b)' /\ AnsweredBehind(b)'
  BY DEF ReadsOn, CursorsInside, AnsweredBehind
<1>4. TelegramBehind(b)' /\ DiscordBehind(b)'
  BY DEF TelegramBehind, DiscordBehind
<1> QED
  BY <1>1, <1>2, <1>3, <1>4

(* What is posted, and what a task has in hand.                             *)
LEMMA PostedTyped ==
  ASSUME PlatformAssumption, Typed, NEW a \in Adapters
  PROVE  /\ posted[a] \in Seq(Kinds) /\ Len(posted[a]) \in Nat
         /\ Messages(a) = 1 .. Len(posted[a])
         /\ MaxPosts[platform] \in Nat /\ Messages(a) \subseteq Posts
         /\ cursor[a] \in Nat /\ base[a] \in Nat /\ forgotten[a] \in Nat
<1>1. /\ posted[a] \in Seq(Kinds) /\ MaxPosts[platform] \in Nat
      /\ Len(posted[a]) <= MaxPosts[platform]
      /\ cursor[a] \in Nat /\ base[a] \in Nat /\ forgotten[a] \in Nat
  BY DEF PlatformAssumption, Typed
<1>2. Len(posted[a]) \in Nat /\ DOMAIN posted[a] = 1 .. Len(posted[a])
  BY <1>1
<1> QED
  BY <1>1, <1>2 DEF Messages, Posts

LEMMA TaskHas ==
  ASSUME PlatformAssumption, Typed, NEW a \in Adapters, AdapterInv(a),
         NEW t \in tasks[a]
  PROVE  /\ t \in TaskStates /\ t.left \in Seq(Nat) /\ t.msgs \in Seq(Nat)
         /\ t.left # << >> /\ Len(t.left) \in Nat \ {0}
         /\ Head(t.left) = t.left[1] /\ DOMAIN t.left = 1 .. Len(t.left)
         /\ DOMAIN t.msgs = 1 .. Len(t.msgs)
         /\ t.left[1] \in 1 .. Len(posted[a]) /\ t.left[1] \in Posts
<1>1. /\ t \in TaskStates /\ t.left \in Seq(Nat) /\ t.msgs \in Seq(Nat)
      /\ t.left # << >>
  BY DEF Typed, TaskStates, AdapterInv, TasksProper
<1>2. /\ Len(t.left) \in Nat \ {0} /\ Head(t.left) = t.left[1]
      /\ DOMAIN t.left = 1 .. Len(t.left)
  BY <1>1, OneLess
<1>3. DOMAIN t.msgs = 1 .. Len(t.msgs)
  BY <1>1
<1>4. 1 \in DOMAIN t.left
  BY <1>2
<1>5. t.left[1] \in 1 .. Len(posted[a])
  BY <1>4 DEF AdapterInv, TasksProper
<1> QED
  BY <1>1, <1>2, <1>3, <1>5, PostedTyped

-----------------------------------------------------------------------------
(* Somebody writes.                                                         *)
LEMMA PostKeeps ==
  ASSUME PlatformAssumption, Typed, NEW a \in Adapters, AdapterInv(a),
         NEW k \in Kinds, Post(a, k)
  PROVE  Typed' /\ AdapterInv(a)' /\ \A b \in Adapters \ {a} : Rests(b)
<1>1. /\ posted' = [posted EXCEPT ![a] = Append(@, k)]
      /\ Len(posted[a]) < MaxPosts[platform]
      /\ platform' = platform /\ cursor' = cursor /\ base' = base
      /\ forgotten' = forgotten /\ acked' = acked /\ tasks' = tasks
      /\ read' = read /\ fate' = fate
  BY DEF Post
<1>2. /\ posted[a] \in Seq(Kinds) /\ Len(posted[a]) \in Nat
      /\ MaxPosts[platform] \in Nat /\ Messages(a) = 1 .. Len(posted[a])
      /\ cursor[a] \in Nat /\ base[a] \in Nat /\ forgotten[a] \in Nat
  BY PostedTyped
<1>3. /\ posted'[a] = Append(posted[a], k)
      /\ \A b \in Adapters \ {a} : posted'[b] = posted[b]
  BY <1>1 DEF Typed
<1>4. /\ posted'[a] \in Seq(Kinds) /\ Len(posted'[a]) = Len(posted[a]) + 1
      /\ DOMAIN posted'[a] = 1 .. Len(posted[a]) + 1
  BY <1>2, <1>3, OneMore
<1>5. Typed'
  <2>1. posted' \in [Adapters -> Seq(Kinds)]
    BY <1>1, <1>3, <1>4 DEF Typed
  <2>2. ASSUME NEW b \in Adapters PROVE Len(posted'[b]) <= MaxPosts[platform]
    <3>1. CASE b = a
      BY <1>1, <1>2, <1>4, <3>1
    <3>2. CASE b # a
      BY <1>3, <3>2 DEF Typed
    <3> QED
      BY <3>1, <3>2
  <2> QED
    BY <1>1, <2>1, <2>2 DEF Typed, Posts
<1>6. \A b \in Adapters \ {a} : Rests(b)
  BY <1>1, <1>3 DEF Rests
<1>7. Messages(a)' = 1 .. Len(posted[a]) + 1
  BY <1>4 DEF Messages
<1>8. \A x : x \in 1 .. Len(posted[a]) => x \in 1 .. Len(posted'[a])
  BY <1>2, <1>4
<1>9. TasksProper(a)'
  BY <1>1, <1>8 DEF AdapterInv, TasksProper, Polls, Worked
<1>10. LoopInOrder(a)' /\ ReadsOn(a)'
  BY <1>1 DEF AdapterInv, LoopInOrder, ReadsOn, Polls
<1>11. CursorsInside(a)'
  BY <1>1, <1>2, <1>4 DEF AdapterInv, CursorsInside
<1>12. ASSUME NEW m \in Messages(a)', m <= cursor[a] \/ m <= forgotten[a]
       PROVE  m \in Messages(a)
  BY <1>2, <1>7, <1>12 DEF AdapterInv, CursorsInside
<1>13. TelegramBehind(a)' /\ DiscordBehind(a)'
  BY <1>1, <1>12 DEF AdapterInv, TelegramBehind, DiscordBehind, Worked, InHand
<1>14. AnsweredBehind(a)'
  <2>1. Messages(a) \subseteq Messages(a)'
    BY <1>2, <1>7
  <2> QED
    BY <1>1, <2>1 DEF AdapterInv, AnsweredBehind, Polls, Worked
<1> QED
  BY <1>5, <1>6, <1>9, <1>10, <1>11, <1>13, <1>14 DEF AdapterInv

-----------------------------------------------------------------------------
(* A batch comes in: a poll that brings messages, or brings none.           *)
LEMMA TaskTyped ==
  ASSUME NEW ms \in Seq(Nat)
  PROVE  /\ Task(ms) \in TaskStates
         /\ Task(ms).msgs = ms /\ Task(ms).left = ms
         /\ Task(ms).stage = "take" /\ Task(ms).alive = TRUE
  BY DEF Task, TaskStates

LEMMA NothingTaken ==
  ASSUME PlatformAssumption, Typed, NEW a \in Adapters, AdapterInv(a),
         NEW f, NEW t, Taken(a, f, t), f > t
  PROVE  /\ tasks' = tasks /\ cursor' = cursor
         /\ base' \in [Adapters -> Nat]
         /\ base'[a] = IF base[a] = 0 THEN cursor[a] ELSE base[a]
         /\ \A b \in Adapters \ {a} : base'[b] = base[b]
<1>1. /\ cursor \in [Adapters -> Nat] /\ base \in [Adapters -> Nat]
      /\ tasks' = tasks
  BY DEF Taken, Typed
<1>2. cursor' = [cursor EXCEPT ![a] = cursor[a]]
  BY DEF Taken
<1>3. cursor' = cursor
  BY <1>1, <1>2
<1>4. base' = [base EXCEPT ![a] = IF base[a] = 0 THEN cursor'[a] ELSE base[a]]
  BY DEF Taken
<1> QED
  BY <1>1, <1>3, <1>4

LEMMA SomethingTaken ==
  ASSUME PlatformAssumption, Typed, NEW a \in Adapters, AdapterInv(a),
         tasks[a] = {}, NEW f \in Nat, NEW t \in Nat, Taken(a, f, t), f <= t
  PROVE  /\ tasks' \in [Adapters -> SUBSET TaskStates]
         /\ tasks'[a] = {Task(Span(f, t))}
         /\ cursor' \in [Adapters -> Nat] /\ cursor'[a] = t
         /\ base' \in [Adapters -> Nat]
         /\ base'[a] = IF base[a] = 0 THEN t ELSE base[a]
         /\ \A b \in Adapters \ {a} :
              /\ tasks'[b] = tasks[b] /\ cursor'[b] = cursor[b]
              /\ base'[b] = base[b]
<1>1. /\ cursor \in [Adapters -> Nat] /\ base \in [Adapters -> Nat]
      /\ tasks \in [Adapters -> SUBSET TaskStates]
  BY DEF Typed
<1>2. Task(Span(f, t)) \in TaskStates
  BY SpanIs, TaskTyped
<1>3. ~(f > t)
  OBVIOUS
<1>4. /\ tasks' = [tasks EXCEPT ![a] = tasks[a] \union {Task(Span(f, t))}]
      /\ cursor' = [cursor EXCEPT ![a] = t]
  BY <1>3 DEF Taken
<1>5. base' = [base EXCEPT ![a] = IF base[a] = 0 THEN cursor'[a] ELSE base[a]]
  BY DEF Taken
<1>6. /\ cursor' \in [Adapters -> Nat] /\ cursor'[a] = t
      /\ \A b \in Adapters \ {a} : cursor'[b] = cursor[b]
  BY <1>1, <1>4
<1>7. /\ tasks' \in [Adapters -> SUBSET TaskStates]
      /\ tasks'[a] = {Task(Span(f, t))}
      /\ \A b \in Adapters \ {a} : tasks'[b] = tasks[b]
  BY <1>1, <1>2, <1>4
<1> QED
  BY <1>1, <1>5, <1>6, <1>7

(* A fresh batch of a polling loop that goes on behind the cursor, or is    *)
(* the first of its run, is in order.                                       *)
LEMMA FreshBatch ==
  ASSUME PlatformAssumption, Typed, NEW a \in Adapters, AdapterInv(a),
         Polls(a), tasks[a] = {}, NEW f \in Nat \ {0}, NEW t \in Nat, f <= t,
         t <= Len(posted[a]), read[a] = << >> \/ f = cursor[a] + 1,
         tasks'[a] = {Task(Span(f, t))}, cursor'[a] = t,
         platform' = platform, posted' = posted, read' = read, fate' = fate,
         forgotten'[a] <= Len(posted[a])
  PROVE  /\ TasksProper(a)' /\ LoopInOrder(a)' /\ ReadsOn(a)'
         /\ CursorsInside(a)' /\ AnsweredBehind(a)'
         /\ \A m \in f .. t : InHand(a, m)'
<1> DEFINE s == Span(f, t)
<1>1. /\ s \in Seq(Nat) /\ s # << >>
      /\ Len(s) = t - f + 1 /\ t - f + 1 \in Nat
      /\ \A i \in 1 .. t - f + 1 : s[i] = f + i - 1
      /\ s[1] = f /\ Last1(s) = t
      /\ \A i \in 1 .. t - f + 1 : s[i] \in f .. t
      /\ \A m \in f .. t : Contains(s, m)
  <2>1. f \in Nat
    OBVIOUS
  <2>2. s \in Seq(Nat) /\ s # << >>
    BY <2>1, SpanIs
  <2>3. Len(s) = t - f + 1 /\ t - f + 1 \in Nat
    BY <2>1, SpanIs
  <2>4. \A i \in 1 .. t - f + 1 : s[i] = f + i - 1
    BY <2>1, SpanIs
  <2>5. s[1] = f /\ Last1(s) = t
    BY <2>1, SpanIs
  <2>6. \A i \in 1 .. t - f + 1 : s[i] \in f .. t
    BY <2>1, SpanIs
  <2>7. \A m \in f .. t : Contains(s, m)
    BY <2>1, SpanIs
  <2> QED
    BY <2>2, <2>3, <2>4, <2>5, <2>6, <2>7
<1> HIDE DEF s
<1>2. \A u \in tasks'[a] : u = Task(s) /\ u.msgs = s /\ u.left = s
                            /\ u.stage = "take"
  <2>1. /\ Task(s).msgs = s /\ Task(s).left = s /\ Task(s).stage = "take"
    BY <1>1, TaskTyped
  <2>2. tasks'[a] = {Task(s)}
    BY DEF s
  <2> QED
    BY <2>1, <2>2
<1>3. DOMAIN s = 1 .. t - f + 1 /\ Len(posted[a]) \in Nat
  BY <1>1, PostedTyped
<1>4. Polls(a)'
  BY DEF Polls
<1>5. TasksProper(a)'
  <2>1. \A i \in 1 .. t - f + 1 : s[i] \in 1 .. Len(posted[a])
    <3> TAKE i \in 1 .. t - f + 1
    <3>1. s[i] \in f .. t
      BY <1>1, Zenon
    <3> QED
      BY <1>3, <3>1
  <2> QED
    BY <1>1, <1>2, <1>3, <1>4, <2>1 DEF TasksProper
<1>6. LoopInOrder(a)'
  <2>1. \A u, v \in tasks'[a] : u = v
    BY <1>2
  <2>2. \A i \in 1 .. Len(s) - 1 : s[i + 1] = s[i] + 1
    <3> TAKE i \in 1 .. Len(s) - 1
    <3>1. i \in 1 .. t - f + 1 /\ i + 1 \in 1 .. t - f + 1 /\ i \in Nat
      BY <1>1, SMTT(30)
    <3>2. s[i] = f + i - 1 /\ s[i + 1] = f + (i + 1) - 1
      BY <1>1, <3>1
    <3> QED
      BY <3>1, <3>2
  <2>3. read[a] # << >> => s[1] = Last1(read[a]) + 1
    BY <1>1 DEF AdapterInv, LoopInOrder
  <2>4. t > 0 /\ Task(s) \in tasks'[a]
    BY DEF s
  <2> QED
    BY <1>1, <1>2, <2>1, <2>2, <2>3, <2>4 DEF LoopInOrder
<1>7. ReadsOn(a)' /\ CursorsInside(a)' /\ AnsweredBehind(a)'
  BY <1>4 DEF AdapterInv, ReadsOn, CursorsInside, AnsweredBehind
<1>8. \A m \in f .. t : InHand(a, m)'
  BY <1>1, <1>2 DEF InHand, s
<1> QED
  BY <1>5, <1>6, <1>7, <1>8

LEMMA TelegramPollKeeps ==
  ASSUME PlatformAssumption, Typed, NEW a \in Adapters, AdapterInv(a),
         TelegramPoll(a)
  PROVE  Typed' /\ AdapterInv(a)' /\ \A b \in Adapters \ {a} : Rests(b)
<1> DEFINE f == Larger(forgotten[a], cursor[a])
           L == Len(posted[a])
<1>1. /\ a \in running /\ Polls(a) /\ tasks[a] = {} /\ platform[a] = "telegram"
      /\ forgotten' = [forgotten EXCEPT ![a] = f]
      /\ \/ Taken(a, forgotten'[a] + 1, L)
         \/ tasks' = tasks /\ cursor' = cursor /\ base' = base
      /\ platform' = platform /\ posted' = posted /\ acked' = acked
      /\ read' = read /\ fate' = fate
  BY DEF TelegramPoll, MayPoll
<1>2. /\ L \in Nat /\ cursor[a] \in Nat /\ base[a] \in Nat
      /\ forgotten[a] \in Nat /\ Messages(a) = 1 .. L
  BY PostedTyped
<1>3. cursor[a] <= L /\ forgotten[a] <= L
  BY DEF AdapterInv, CursorsInside
<1>4. /\ f \in Nat /\ f <= L /\ forgotten[a] <= f /\ cursor[a] <= f
      /\ f = forgotten[a] \/ f = cursor[a]
  BY <1>2, <1>3 DEF Larger
<1> HIDE DEF f, L
<1>5. /\ forgotten' \in [Adapters -> Nat] /\ forgotten'[a] = f
      /\ \A b \in Adapters \ {a} : forgotten'[b] = forgotten[b]
  BY <1>1, <1>4 DEF Typed
<1>6. \A m \in 1 .. L : m <= f => Worked(a, m)
  <2> TAKE m \in 1 .. L
  <2>1. \A t \in tasks[a] : FALSE
    BY <1>1
  <2>2. m <= cursor[a] => Worked(a, m) \/ m <= forgotten[a]
    BY <1>1, <1>2, <2>1 DEF AdapterInv, TelegramBehind, InHand
  <2>3. m <= forgotten[a] => Worked(a, m)
    BY <1>1, <1>2 DEF AdapterInv, TelegramBehind
  <2> QED
    BY <1>4, <2>2, <2>3
<1>7. cursor[a] > 0 => f = cursor[a]
  BY <1>1, <1>2, <1>4 DEF AdapterInv, TelegramBehind
<1>8. Polls(a)' /\ platform'[a] = "telegram" /\ Messages(a)' = 1 .. L
  BY <1>1, <1>2 DEF Polls, Messages
<1>9. DiscordBehind(a)'
  BY <1>8 DEF DiscordBehind
<1>10. Typed /\ AdapterInv(a)
  OBVIOUS
<1>11. CASE tasks' = tasks /\ cursor' = cursor /\ base' \in [Adapters -> Nat]
            /\ \A b \in Adapters \ {a} : base'[b] = base[b]
  <2>1. Typed'
    BY <1>1, <1>5, <1>11 DEF Typed, Posts
  <2>2. \A b \in Adapters \ {a} : Rests(b)
    BY <1>1, <1>5, <1>11 DEF Rests
  <2>3. TasksProper(a)' /\ LoopInOrder(a)' /\ ReadsOn(a)'
    BY <1>1, <1>11
       DEF AdapterInv, TasksProper, LoopInOrder, ReadsOn, Polls
  <2>4. CursorsInside(a)'
    BY <1>1, <1>3, <1>4, <1>5, <1>11 DEF CursorsInside, L
  <2>5. TelegramBehind(a)'
    <3>1. cursor'[a] > 0 => forgotten'[a] <= cursor'[a]
      BY <1>2, <1>5, <1>7, <1>11
    <3>2. \A m \in 1 .. L : m <= f => Worked(a, m)'
      BY <1>1, <1>6 DEF Worked
    <3>3. \A m \in 1 .. L : m <= cursor'[a] => m <= f
      BY <1>2, <1>4, <1>11
    <3> QED
      BY <1>5, <1>8, <3>1, <3>2, <3>3 DEF TelegramBehind
  <2>6. AnsweredBehind(a)'
    BY <1>8 DEF AnsweredBehind
  <2> QED
    BY <1>9, <2>1, <2>2, <2>3, <2>4, <2>5, <2>6 DEF AdapterInv
<1>12. CASE Taken(a, f + 1, L) /\ f + 1 > L
  <2>1. /\ tasks' = tasks /\ cursor' = cursor
        /\ base' \in [Adapters -> Nat]
        /\ \A b \in Adapters \ {a} : base'[b] = base[b]
    BY <1>12, NothingTaken
  <2> QED
    BY <1>11, <2>1
<1>13. CASE Taken(a, f + 1, L) /\ f + 1 <= L
  <2>1. f + 1 \in Nat /\ f + 1 \in Nat \ {0}
    BY <1>4
  <2>2. /\ tasks' \in [Adapters -> SUBSET TaskStates]
        /\ tasks'[a] = {Task(Span(f + 1, L))}
        /\ cursor' \in [Adapters -> Nat] /\ cursor'[a] = L
        /\ base' \in [Adapters -> Nat]
        /\ \A b \in Adapters \ {a} :
             /\ tasks'[b] = tasks[b] /\ cursor'[b] = cursor[b]
             /\ base'[b] = base[b]
    BY <1>1, <1>2, <1>13, <2>1, SomethingTaken
  <2>3. Typed'
    BY <1>1, <1>5, <2>2 DEF Typed, Posts
  <2>4. \A b \in Adapters \ {a} : Rests(b)
    BY <1>1, <1>5, <2>2 DEF Rests
  <2>5. read[a] = << >> \/ f + 1 = cursor[a] + 1
    BY <1>1, <1>7 DEF AdapterInv, LoopInOrder
  <2>6. forgotten'[a] <= Len(posted[a]) /\ L <= Len(posted[a])
    BY <1>2, <1>4, <1>5 DEF L
  <2>7. /\ TasksProper(a)' /\ LoopInOrder(a)' /\ ReadsOn(a)'
        /\ CursorsInside(a)' /\ AnsweredBehind(a)'
        /\ \A m \in f + 1 .. L : InHand(a, m)'
    BY <1>1, <1>2, <1>13, <2>1, <2>2, <2>5, <2>6, FreshBatch
  <2>8. TelegramBehind(a)'
    <3>1. \A m \in 1 .. L : m <= f => Worked(a, m)'
      BY <1>1, <1>6 DEF Worked
    <3>2. \A m \in 1 .. L : m <= f \/ InHand(a, m)'
      BY <1>2, <1>4, <2>7
    <3>3. forgotten'[a] <= cursor'[a]
      BY <1>4, <1>5, <2>2
    <3> QED
      BY <1>5, <1>8, <2>2, <3>1, <3>2, <3>3 DEF TelegramBehind
  <2> QED
    BY <1>9, <2>3, <2>4, <2>7, <2>8 DEF AdapterInv
<1>14. CASE tasks' = tasks /\ cursor' = cursor /\ base' = base
  BY <1>11, <1>14 DEF Typed
<1>15. f + 1 > L \/ f + 1 <= L
  BY <1>2, <1>4
<1> QED
  BY <1>1, <1>5, <1>12, <1>13, <1>14, <1>15

LEMMA DiscordPollKeeps ==
  ASSUME PlatformAssumption, Typed, NEW a \in Adapters, AdapterInv(a),
         DiscordPoll(a)
  PROVE  Typed' /\ AdapterInv(a)' /\ \A b \in Adapters \ {a} : Rests(b)
<1> DEFINE L == Len(posted[a])
           c == cursor[a]
           f == IF c = 0 THEN Larger(1, L - Window + 1) ELSE c + 1
           t == IF c = 0 THEN L ELSE Smaller(L, c + Window)
<1>1. /\ a \in running /\ Polls(a) /\ tasks[a] = {} /\ platform[a] = "discord"
      /\ platform' = platform /\ posted' = posted /\ acked' = acked
      /\ read' = read /\ fate' = fate /\ forgotten' = forgotten
  BY DEF DiscordPoll, MayPoll
<1>2. Taken(a, f, t)
  BY DEF DiscordPoll
<1>3. /\ L \in Nat /\ c \in Nat /\ base[a] \in Nat /\ forgotten[a] \in Nat
      /\ Messages(a) = 1 .. L /\ Window \in Nat \ {0}
      /\ c <= L /\ forgotten[a] <= L
  BY PostedTyped DEF PlatformAssumption, AdapterInv, CursorsInside
<1> HIDE DEF L, c
<1>4. /\ f \in Nat \ {0} /\ f \in Nat /\ t \in Nat /\ t <= L
      /\ c # 0 => f = c + 1
      /\ c = 0 => t = L /\ (f = 1 \/ f = L - Window + 1)
  BY <1>3 DEF Larger, Smaller
<1> HIDE DEF f, t
<1>5. /\ (base[a] = 0) <=> (c = 0)
      /\ \A m \in 1 .. L : base[a] - Window < m /\ m <= c => Worked(a, m)
  <2>1. \A u \in tasks[a] : FALSE
    BY <1>1
  <2> QED
    BY <1>1, <1>3, <2>1 DEF AdapterInv, DiscordBehind, InHand, c
<1>6. Polls(a)' /\ platform'[a] = "discord" /\ Messages(a)' = 1 .. L
  BY <1>1, <1>3 DEF Polls, Messages
<1>7. TelegramBehind(a)' /\ AnsweredBehind(a)'
  BY <1>6 DEF TelegramBehind, AnsweredBehind
<1>8. \A m : Worked(a, m) => Worked(a, m)'
  BY <1>1 DEF Worked
<1>9. CASE f > t
  <2>1. /\ tasks' = tasks /\ cursor' = cursor
        /\ base' \in [Adapters -> Nat]
        /\ base'[a] = IF base[a] = 0 THEN c ELSE base[a]
        /\ \A b \in Adapters \ {a} : base'[b] = base[b]
    BY <1>2, <1>9, NothingTaken DEF c
  <2>2. base'[a] = base[a] /\ cursor'[a] = c
    BY <1>5, <2>1 DEF c
  <2>3. Typed'
    BY <1>1, <2>1 DEF Typed, Posts
  <2>4. \A b \in Adapters \ {a} : Rests(b)
    BY <1>1, <2>1 DEF Rests
  <2>5. /\ TasksProper(a)' /\ LoopInOrder(a)' /\ ReadsOn(a)'
        /\ CursorsInside(a)'
    BY <1>1, <2>1
       DEF AdapterInv, TasksProper, LoopInOrder, ReadsOn, CursorsInside, Polls
  <2>6. DiscordBehind(a)'
    BY <1>5, <1>6, <1>8, <2>2 DEF DiscordBehind
  <2> QED
    BY <1>7, <2>3, <2>4, <2>5, <2>6 DEF AdapterInv
<1>10. CASE f <= t
  <2>1. /\ tasks' \in [Adapters -> SUBSET TaskStates]
        /\ tasks'[a] = {Task(Span(f, t))}
        /\ cursor' \in [Adapters -> Nat] /\ cursor'[a] = t
        /\ base' \in [Adapters -> Nat]
        /\ base'[a] = IF base[a] = 0 THEN t ELSE base[a]
        /\ \A b \in Adapters \ {a} :
             /\ tasks'[b] = tasks[b] /\ cursor'[b] = cursor[b]
             /\ base'[b] = base[b]
    BY <1>1, <1>2, <1>4, <1>10, SomethingTaken
  <2>2. Typed'
    BY <1>1, <2>1 DEF Typed, Posts
  <2>3. \A b \in Adapters \ {a} : Rests(b)
    BY <1>1, <2>1 DEF Rests
  <2>4. read[a] = << >> \/ f = cursor[a] + 1
    BY <1>1, <1>3, <1>4 DEF AdapterInv, LoopInOrder, c
  <2>5. forgotten'[a] <= Len(posted[a]) /\ t <= Len(posted[a])
    BY <1>1, <1>3, <1>4 DEF L
  <2>6. /\ TasksProper(a)' /\ LoopInOrder(a)' /\ ReadsOn(a)'
        /\ CursorsInside(a)'
        /\ \A m \in f .. t : InHand(a, m)'
    BY <1>1, <1>4, <1>10, <2>1, <2>4, <2>5, FreshBatch
  <2>7. DiscordBehind(a)'
    <3>1. t > 0
      BY <1>4, <1>10
    <3>2. (base'[a] = 0) <=> (cursor'[a] = 0)
      BY <1>3, <1>4, <1>5, <2>1, <3>1
    <3>3. ASSUME NEW m \in 1 .. L, base'[a] - Window < m, m <= t
          PROVE  Worked(a, m)' \/ InHand(a, m)'
      <4>1. CASE c = 0
        <5>1. base'[a] = L
          BY <1>4, <1>5, <2>1, <4>1
        <5>2. f <= m
          BY <1>3, <1>4, <3>3, <4>1, <5>1
        <5>3. m \in f .. t
          BY <1>4, <3>3, <5>2
        <5> QED
          BY <2>6, <5>3
      <4>2. CASE c # 0
        <5>1. base'[a] = base[a]
          BY <1>5, <2>1, <4>2
        <5>2. CASE m <= c
          BY <1>5, <1>8, <3>3, <5>1, <5>2
        <5>3. CASE ~(m <= c)
          <6>1. m \in f .. t
            BY <1>3, <1>4, <3>3, <4>2, <5>3
          <6> QED
            BY <2>6, <6>1
        <5> QED
          BY <5>2, <5>3
      <4> QED
        BY <4>1, <4>2
    <3> QED
      BY <1>6, <2>1, <3>2, <3>3 DEF DiscordBehind
  <2> QED
    BY <1>7, <2>2, <2>3, <2>6, <2>7 DEF AdapterInv
<1> QED
  BY <1>4, <1>9, <1>10

-----------------------------------------------------------------------------
(* A web request comes in, or is given up by the platform.                  *)
LEMMA ServersHave ==
  ASSUME NEW a \in Adapters, ~Polls(a), platform' = platform
  PROVE  LoopInOrder(a)' /\ TelegramBehind(a)' /\ DiscordBehind(a)'
<1>1. ~Polls(a)' /\ platform'[a] # "telegram" /\ platform'[a] # "discord"
  BY DEF Polls
<1> QED
  BY <1>1 DEF LoopInOrder, TelegramBehind, DiscordBehind

LEMMA DeliversKeeps ==
  ASSUME PlatformAssumption, Typed, NEW a \in Adapters, AdapterInv(a),
         ~Polls(a), NEW ms \in Seq(Nat), ms # << >>, Delivers(a, ms),
         \A i \in DOMAIN ms : ms[i] \in Messages(a)
  PROVE  Typed' /\ AdapterInv(a)' /\ \A b \in Adapters \ {a} : Rests(b)
<1>1. /\ tasks' = [tasks EXCEPT ![a] = tasks[a] \union {Task(ms)}]
      /\ platform' = platform /\ posted' = posted /\ acked' = acked
      /\ cursor' = cursor /\ base' = base /\ forgotten' = forgotten
      /\ read' = read /\ fate' = fate
  BY DEF Delivers
<1>2. /\ Task(ms) \in TaskStates /\ Task(ms).msgs = ms /\ Task(ms).left = ms
  BY TaskTyped
<1>3. /\ tasks' \in [Adapters -> SUBSET TaskStates]
      /\ tasks'[a] = tasks[a] \union {Task(ms)}
      /\ \A b \in Adapters \ {a} : tasks'[b] = tasks[b]
  BY <1>1, <1>2 DEF Typed
<1>4. Typed'
  BY <1>1, <1>3 DEF Typed, Posts
<1>5. \A b \in Adapters \ {a} : Rests(b)
  BY <1>1, <1>3 DEF Rests
<1>6. DOMAIN ms = 1 .. Len(ms) /\ Messages(a) = 1 .. Len(posted[a])
  BY PostedTyped
<1>7. \A i \in DOMAIN ms : Contains(ms, ms[i])
  BY <1>6 DEF Contains
<1>8. TasksProper(a)'
  <2>1. posted'[a] = posted[a] /\ Polls(a)' = Polls(a) /\ fate' = fate
    BY <1>1 DEF Polls
  <2>2. ASSUME NEW v \in tasks'[a], v = Task(ms)
        PROVE  /\ v.left # << >>
               /\ \A i \in DOMAIN v.left : v.left[i] \in 1 .. Len(posted[a])
               /\ \A i \in DOMAIN v.msgs :
                    /\ v.msgs[i] \in 1 .. Len(posted[a])
                    /\ Contains(v.left, v.msgs[i])
    BY <1>2, <1>6, <1>7, <2>2
  <2>3. ASSUME NEW v \in tasks'[a], v # Task(ms) PROVE v \in tasks[a]
    BY <1>3, <2>3
  <2> QED
    BY <2>1, <2>2, <2>3 DEF AdapterInv, TasksProper, Worked
<1>9. LoopInOrder(a)' /\ TelegramBehind(a)' /\ DiscordBehind(a)'
  BY <1>1, ServersHave
<1>10. ReadsOn(a)' /\ CursorsInside(a)' /\ AnsweredBehind(a)'
  BY <1>1 DEF AdapterInv, ReadsOn, CursorsInside, AnsweredBehind, Polls,
              Messages, Worked
<1> QED
  BY <1>4, <1>5, <1>8, <1>9, <1>10 DEF AdapterInv

LEMMA GiveUpKeeps ==
  ASSUME PlatformAssumption, Typed, NEW a \in Adapters, AdapterInv(a),
         NEW t \in tasks[a], GiveUpRequest(a, t)
  PROVE  Typed' /\ AdapterInv(a)' /\ \A b \in Adapters \ {a} : Rests(b)
<1> DEFINE u == [t EXCEPT !.alive = FALSE]
<1>1. /\ tasks' = [tasks EXCEPT ![a] = (tasks[a] \ {t}) \union {u}]
      /\ platform' = platform /\ posted' = posted /\ acked' = acked
      /\ cursor' = cursor /\ base' = base /\ forgotten' = forgotten
      /\ read' = read /\ fate' = fate /\ ~Polls(a)
  BY DEF GiveUpRequest, chats
<1>2. u \in TaskStates /\ u.msgs = t.msgs /\ u.left = t.left
  <2>1. t \in TaskStates
    BY TaskHas
  <2> QED
    BY <2>1 DEF TaskStates
<1> HIDE DEF u
<1>3. /\ tasks' \in [Adapters -> SUBSET TaskStates]
      /\ tasks'[a] = (tasks[a] \ {t}) \union {u}
      /\ \A b \in Adapters \ {a} : tasks'[b] = tasks[b]
  BY <1>1, <1>2 DEF Typed
<1>4. Typed'
  BY <1>1, <1>3 DEF Typed, Posts
<1>5. \A b \in Adapters \ {a} : Rests(b)
  BY <1>1, <1>3 DEF Rests
<1>6. TasksProper(a)'
  <2>1. \A v \in tasks'[a] :
          \E w \in tasks[a] : v.msgs = w.msgs /\ v.left = w.left
    BY <1>2, <1>3
  <2>2. posted'[a] = posted[a] /\ Polls(a)' = Polls(a) /\ fate' = fate
    BY <1>1 DEF Polls
  <2>3. TasksProper(a)
    BY DEF AdapterInv
  <2> QED
    BY <2>1, <2>2, <2>3 DEF TasksProper, Worked
<1>7. LoopInOrder(a)' /\ TelegramBehind(a)' /\ DiscordBehind(a)'
  BY <1>1, ServersHave
<1>8. ReadsOn(a)' /\ CursorsInside(a)' /\ AnsweredBehind(a)'
  BY <1>1 DEF AdapterInv, ReadsOn, CursorsInside, AnsweredBehind, Polls,
              Messages, Worked
<1> QED
  BY <1>4, <1>5, <1>6, <1>7, <1>8 DEF AdapterInv

(* A sequence that is neither empty nor has one element has more than one.  *)
LEMMA MoreThanOne ==
  ASSUME NEW n \in Nat \ {0}, n # 1
  PROVE  n > 1
OBVIOUS

-----------------------------------------------------------------------------
(* A message is taken up: behind the one read before it.                    *)
ReadUpTo(a, t) ==
  /\ read' \in [Adapters -> Seq(Nat)]
  /\ \A b \in Adapters \ {a} : read'[b] = read[b]
  /\ Polls(a) => read'[a] # << >> /\ Last1(read'[a]) = t.left[1]
  /\ ReadsOn(a)'

LEMMA ReadTaken ==
  ASSUME PlatformAssumption, Typed, NEW a \in Adapters, AdapterInv(a),
         NEW t \in tasks[a], NEW p, Takes(a, t, p)
  PROVE  ReadUpTo(a, t)
<1>1. /\ t.stage = "take"
      /\ read' = [read EXCEPT ![a] = IF Polls(a) THEN Append(read[a], Head(t.left))
                                     ELSE read[a]]
  BY DEF Takes
<1>2. Head(t.left) = t.left[1] /\ t.left[1] \in Nat /\ read[a] \in Seq(Nat)
  <2>1. Head(t.left) = t.left[1] /\ t.left[1] \in 1 .. Len(posted[a])
    BY TaskHas
  <2>2. posted[a] \in Seq(Kinds) /\ read[a] \in Seq(Nat)
    BY DEF Typed
  <2> QED
    BY <2>1, <2>2
<1>3. CASE ~Polls(a)
  <2>1. read' = read
    BY <1>1, <1>3 DEF Typed
  <2> QED
    BY <1>3, <2>1 DEF ReadUpTo, AdapterInv, ReadsOn, Typed
<1>4. CASE Polls(a)
  <2> DEFINE r == Append(read[a], t.left[1])
             n == Len(read[a])
  <2>1. /\ r \in Seq(Nat) /\ n \in Nat /\ Len(r) = n + 1 /\ r # << >>
        /\ \A i \in 1 .. n : r[i] = read[a][i]
        /\ r[n + 1] = t.left[1]
    BY <1>2, OneMore
  <2>2. read' = [read EXCEPT ![a] = r]
    BY <1>1, <1>2, <1>4
  <2> HIDE DEF r
  <2>3. /\ read' \in [Adapters -> Seq(Nat)] /\ read'[a] = r
        /\ \A b \in Adapters \ {a} : read'[b] = read[b]
    BY <2>1, <2>2 DEF Typed
  <2>4. Last1(r) = t.left[1]
    BY <2>1 DEF Last1
  <2>5. \A i \in 1 .. Len(r) - 1 : r[i + 1] = r[i] + 1
    <3> TAKE i \in 1 .. Len(r) - 1
    <3>1. i \in 1 .. n /\ r[i] = read[a][i]
      BY <2>1
    <3>2. CASE i = n
      <4>1. read[a] # << >>
        BY <3>1, <3>2
      <4>2. t.left[1] = Last1(read[a]) + 1
        BY <1>1, <1>4, <4>1 DEF AdapterInv, LoopInOrder
      <4> QED
        BY <2>1, <3>1, <3>2, <4>2 DEF Last1
    <3>3. CASE i # n
      <4>1. i \in 1 .. n - 1 /\ i + 1 \in 1 .. n
        BY <2>1, <3>1, <3>3, SMTT(30)
      <4>2. read[a][i + 1] = read[a][i] + 1
        BY <4>1 DEF AdapterInv, ReadsOn
      <4> QED
        BY <2>1, <3>1, <4>1, <4>2
    <3> QED
      BY <3>2, <3>3
  <2> QED
    BY <2>1, <2>3, <2>4, <2>5 DEF ReadUpTo, ReadsOn
<1> QED
  BY <1>3, <1>4

LEMMA ReadKept ==
  ASSUME PlatformAssumption, Typed, NEW a \in Adapters, AdapterInv(a),
         NEW t \in tasks[a], t.stage # "take", read' = read
  PROVE  ReadUpTo(a, t)
  BY DEF ReadUpTo, AdapterInv, LoopInOrder, ReadsOn, Typed

(* It goes on to its turn, or to its reply.                                 *)
LEMMA PassKeeps ==
  ASSUME PlatformAssumption, Typed, NEW a \in Adapters, AdapterInv(a),
         NEW t \in tasks[a], NEW st \in {"turn", "reply"},
         Replace(a, t, [t EXCEPT !.stage = st]), ReadUpTo(a, t),
         platform' = platform, posted' = posted, cursor' = cursor,
         base' = base, forgotten' = forgotten, acked' = acked, fate' = fate
  PROVE  Typed' /\ AdapterInv(a)' /\ \A b \in Adapters \ {a} : Rests(b)
<1> DEFINE u == [t EXCEPT !.stage = st]
<1>1. tasks' = [tasks EXCEPT ![a] = (tasks[a] \ {t}) \union {u}]
  BY DEF Replace
<1>2. /\ t \in TaskStates /\ t.left # << >> /\ Len(t.left) \in Nat \ {0}
      /\ DOMAIN t.left = 1 .. Len(t.left) /\ t.left \in Seq(Nat)
  BY TaskHas
<1>3. /\ u \in TaskStates /\ u.msgs = t.msgs /\ u.left = t.left
      /\ u.stage # "take"
  BY <1>2 DEF TaskStates
<1> HIDE DEF u
<1>4. /\ tasks' \in [Adapters -> SUBSET TaskStates]
      /\ tasks'[a] = (tasks[a] \ {t}) \union {u}
      /\ \A b \in Adapters \ {a} : tasks'[b] = tasks[b]
  BY <1>1, <1>3 DEF Typed
<1>5. Typed'
  BY <1>4 DEF Typed, Posts, ReadUpTo
<1>6. \A b \in Adapters \ {a} : Rests(b)
  BY <1>4 DEF Rests, ReadUpTo
<1>7. TasksProper(a)'
  BY <1>3, <1>4, SMTT(30) DEF AdapterInv, TasksProper, Polls, Worked
<1>8. LoopInOrder(a)'
  <2>1. CASE Polls(a)
    <3>1. tasks'[a] = {u}
      BY <1>4, <2>1 DEF AdapterInv, LoopInOrder
    <3>2. /\ \A i \in 1 .. Len(t.left) - 1 : t.left[i + 1] = t.left[i] + 1
          /\ Last1(t.left) = cursor[a]
      BY <2>1 DEF AdapterInv, LoopInOrder
    <3>3. cursor[a] > 0
      <4>1. Len(t.left) \in DOMAIN t.left
        BY <1>2
      <4>2. t.left[Len(t.left)] \in 1 .. Len(posted[a])
        BY <4>1 DEF AdapterInv, TasksProper
      <4> QED
        BY <3>2, <4>2, PostedTyped DEF Last1
    <3>4. read'[a] # << >> /\ Last1(read'[a]) = t.left[1]
      BY <2>1 DEF ReadUpTo
    <3> QED
      BY <1>3, <3>1, <3>2, <3>3, <3>4 DEF LoopInOrder
  <2>2. CASE ~Polls(a)
    BY <2>2, ServersHave
  <2> QED
    BY <2>1, <2>2
<1>9. ReadsOn(a)' /\ CursorsInside(a)'
  BY DEF AdapterInv, CursorsInside, ReadUpTo
<1>10. ASSUME NEW m, InHand(a, m) PROVE InHand(a, m)'
  <2>1. PICK v \in tasks[a] : Contains(v.left, m)
    BY <1>10 DEF InHand
  <2>2. CASE v = t
    <3>1. u \in tasks'[a] /\ Contains(u.left, m)
      BY <1>3, <1>4, <2>1, <2>2
    <3> QED
      BY <3>1 DEF InHand
  <2>3. CASE v # t
    <3>1. v \in tasks'[a]
      BY <1>4, <2>3
    <3> QED
      BY <2>1, <3>1 DEF InHand
  <2> QED
    BY <2>2, <2>3
<1>11. TelegramBehind(a)' /\ DiscordBehind(a)' /\ AnsweredBehind(a)'
  BY <1>10 DEF AdapterInv, TelegramBehind, DiscordBehind, AnsweredBehind,
               Polls, Worked, Messages
<1> QED
  BY <1>5, <1>6, <1>7, <1>8, <1>9, <1>11 DEF AdapterInv

(* It is done, with the last message of a request the request too.          *)
LEMMA DoneKeeps ==
  ASSUME PlatformAssumption, Typed, NEW a \in Adapters, AdapterInv(a),
         NEW t \in tasks[a], NEW f \in Fates, Done(a, t, f), ReadUpTo(a, t),
         platform' = platform, posted' = posted, cursor' = cursor,
         base' = base, forgotten' = forgotten
  PROVE  Typed' /\ AdapterInv(a)' /\ \A b \in Adapters \ {a} : Rests(b)
<1> DEFINE h == t.left[1]
           rest == Tail(t.left)
           u == [t EXCEPT !.left = rest, !.stage = "take"]
           done == acked[a] \union ToSet(t.msgs)
<1>1. /\ t \in TaskStates /\ t.left \in Seq(Nat) /\ t.left # << >>
      /\ Head(t.left) = h /\ Len(t.left) \in Nat \ {0}
      /\ DOMAIN t.left = 1 .. Len(t.left) /\ DOMAIN t.msgs = 1 .. Len(t.msgs)
      /\ h \in 1 .. Len(posted[a]) /\ h \in Posts /\ t.msgs \in Seq(Nat)
  BY TaskHas
<1>0. PICK n \in Nat \ {0} : n = Len(t.left)
  BY <1>1
<1>2. /\ rest \in Seq(Nat) /\ Len(rest) = Len(t.left) - 1
      /\ DOMAIN rest = 1 .. Len(t.left) - 1
      /\ \A i \in 1 .. Len(t.left) - 1 : rest[i] = t.left[i + 1]
  BY <1>1, OneLess
<1>3. /\ Len(t.left) = 1 => Last1(t.left) = h
      /\ Len(t.left) # 1 => rest # << >> /\ Last1(rest) = Last1(t.left)
                            /\ rest[1] = t.left[2]
      /\ \A m : Contains(t.left, m) <=> m = h \/ Contains(rest, m)
  BY <1>1, TailKeeps
<1>4. u \in TaskStates /\ u.msgs = t.msgs /\ u.left = rest /\ u.stage = "take"
  BY <1>1, <1>2 DEF TaskStates
<1>5. /\ fate' = [fate EXCEPT ![a][h] = fate[a][h] \union {f}]
      /\ acked' = [acked EXCEPT ![a] =
                     IF Polls(a) \/ ~t.alive \/ Len(t.left) > 1 THEN acked[a]
                     ELSE done]
      /\ Len(t.left) = 1 => tasks' = [tasks EXCEPT ![a] = tasks[a] \ {t}]
      /\ Len(t.left) # 1 =>
           tasks' = [tasks EXCEPT ![a] = (tasks[a] \ {t}) \union {u}]
  BY <1>1 DEF Done, Acknowledge, Replace
<1> HIDE DEF h, rest, u
<1>6. /\ fate' \in [Adapters -> [Posts -> SUBSET Fates]]
      /\ \A b \in Adapters \ {a} : fate'[b] = fate[b]
      /\ fate'[a][h] = fate[a][h] \union {f}
      /\ \A m \in Posts : m # h => fate'[a][m] = fate[a][m]
  BY <1>1, <1>5 DEF Typed
<1>7. Worked(a, h)' /\ \A m \in Posts : Worked(a, m) => Worked(a, m)'
  BY <1>6 DEF Worked
<1>8. /\ acked' \in [Adapters -> SUBSET Nat]
      /\ \A b \in Adapters \ {a} : acked'[b] = acked[b]
      /\ Polls(a) => acked'[a] = acked[a]
      /\ Len(t.left) > 1 => acked'[a] = acked[a]
      /\ acked'[a] = acked[a] \/ acked'[a] = done
  <2>1. ToSet(t.msgs) \subseteq Nat
    BY <1>1, ElementsKnown
  <2>2. done \in SUBSET Nat
    BY <2>1 DEF Typed
  <2> HIDE DEF done
  <2> QED
    BY <1>5, <2>2 DEF Typed
<1>9. /\ tasks' \in [Adapters -> SUBSET TaskStates]
      /\ Len(t.left) = 1 => tasks'[a] = tasks[a] \ {t}
      /\ Len(t.left) # 1 => tasks'[a] = (tasks[a] \ {t}) \union {u}
      /\ \A b \in Adapters \ {a} : tasks'[b] = tasks[b]
  <2>1. tasks \in [Adapters -> SUBSET TaskStates]
    BY DEF Typed
  <2>2. CASE Len(t.left) = 1
    <3>1. tasks' = [tasks EXCEPT ![a] = tasks[a] \ {t}]
      BY <1>5, <2>2
    <3> QED
      BY <2>1, <2>2, <3>1
  <2>3. CASE Len(t.left) # 1
    <3>1. tasks' = [tasks EXCEPT ![a] = (tasks[a] \ {t}) \union {u}]
      BY <1>5, <2>3
    <3>2. u \in TaskStates
      BY <1>4
    <3> QED
      BY <2>1, <2>3, <3>1, <3>2
  <2> QED
    BY <2>2, <2>3
<1>10. Typed'
  BY <1>6, <1>8, <1>9 DEF Typed, Posts, ReadUpTo
<1>11. \A b \in Adapters \ {a} : Rests(b)
  BY <1>6, <1>8, <1>9 DEF Rests, ReadUpTo
<1>12. 1 .. Len(posted[a]) \subseteq Posts /\ Messages(a) = 1 .. Len(posted[a])
  BY PostedTyped
<1>13. Polls(a)' = Polls(a) /\ Messages(a)' = Messages(a)
  BY DEF Polls, Messages
<1>14. TasksProper(a)'
  <2>1. ASSUME NEW v \in tasks'[a], v \in tasks[a]
        PROVE  /\ v.left # << >>
               /\ \A i \in DOMAIN v.left : v.left[i] \in 1 .. Len(posted[a])
               /\ \A i \in DOMAIN v.msgs :
                    /\ v.msgs[i] \in 1 .. Len(posted[a])
                    /\ Polls(a) \/ Contains(v.left, v.msgs[i])
                       \/ Worked(a, v.msgs[i])'
    BY <1>7, <1>12, <2>1 DEF AdapterInv, TasksProper
  <2>2. ASSUME NEW v \in tasks'[a], v \notin tasks[a]
        PROVE  /\ v.left # << >>
               /\ \A i \in DOMAIN v.left : v.left[i] \in 1 .. Len(posted[a])
               /\ \A i \in DOMAIN v.msgs :
                    /\ v.msgs[i] \in 1 .. Len(posted[a])
                    /\ Polls(a) \/ Contains(v.left, v.msgs[i])
                       \/ Worked(a, v.msgs[i])'
    <3>1. v = u /\ Len(t.left) # 1
      BY <1>9, <2>2
    <3>2. v.left = rest /\ v.msgs = t.msgs /\ rest # << >>
      BY <1>3, <1>4, <3>1
    <3>3. \A i \in DOMAIN rest : rest[i] \in 1 .. Len(posted[a])
      <4> TAKE i \in DOMAIN rest
      <4>1. i \in 1 .. n - 1
        BY <1>0, <1>2
      <4>2. i + 1 \in 1 .. n
        BY <4>1
      <4>3. i + 1 \in DOMAIN t.left /\ rest[i] = t.left[i + 1]
        BY <1>0, <1>1, <1>2, <4>1, <4>2
      <4> QED
        BY <4>3 DEF AdapterInv, TasksProper
    <3>4. ASSUME NEW i \in DOMAIN t.msgs
          PROVE  /\ t.msgs[i] \in 1 .. Len(posted[a])
                 /\ Polls(a) \/ Contains(rest, t.msgs[i])
                    \/ Worked(a, t.msgs[i])'
      <4>1. /\ t.msgs[i] \in 1 .. Len(posted[a])
            /\ Polls(a) \/ Contains(t.left, t.msgs[i])
               \/ Worked(a, t.msgs[i])
        BY DEF AdapterInv, TasksProper
      <4>2. Contains(t.left, t.msgs[i]) =>
              Contains(rest, t.msgs[i]) \/ Worked(a, t.msgs[i])'
        BY <1>3, <1>7
      <4>3. Worked(a, t.msgs[i]) => Worked(a, t.msgs[i])'
        BY <1>7, <1>12, <4>1
      <4> QED
        BY <4>1, <4>2, <4>3
    <3> QED
      BY <3>2, <3>3, <3>4
  <2> QED
    BY <1>13, <2>1, <2>2 DEF TasksProper, Worked
<1>15. LoopInOrder(a)'
  <2>1. CASE Polls(a)
    <3>1. tasks[a] = {t}
      BY <2>1 DEF AdapterInv, LoopInOrder
    <3>2. /\ \A i \in 1 .. Len(t.left) - 1 : t.left[i + 1] = t.left[i] + 1
          /\ Last1(t.left) = cursor[a]
      BY <2>1 DEF AdapterInv, LoopInOrder
    <3>3. cursor[a] > 0
      <4>1. Len(t.left) \in DOMAIN t.left
        BY <1>1
      <4>2. t.left[Len(t.left)] \in 1 .. Len(posted[a])
        BY <4>1 DEF AdapterInv, TasksProper
      <4> QED
        BY <3>2, <4>2, PostedTyped DEF Last1
    <3>4. read'[a] # << >> /\ Last1(read'[a]) = h
      BY <2>1 DEF ReadUpTo, h
    <3>5. CASE Len(t.left) = 1
      <4>1. tasks'[a] = {} /\ Last1(read'[a]) = cursor[a]
        BY <1>3, <1>9, <3>1, <3>2, <3>4, <3>5
      <4> QED
        BY <3>3, <4>1 DEF LoopInOrder
    <3>6. CASE Len(t.left) # 1
      <4>1. tasks'[a] = {u} /\ Last1(rest) = cursor[a]
        BY <1>3, <1>9, <3>1, <3>2, <3>6
      <4>2. rest[1] = h + 1
        <5>0. n # 1
          BY <1>0, <3>6
        <5>1. 1 \in 1 .. n - 1 /\ 1 + 1 = 2
          BY <5>0
        <5> QED
          BY <1>0, <1>3, <3>2, <3>6, <5>1 DEF h
      <4>3. \A i \in 1 .. Len(rest) - 1 : rest[i + 1] = rest[i] + 1
        <5> TAKE i \in 1 .. Len(rest) - 1
        <5>1. i \in 1 .. (n - 1) - 1
          BY <1>0, <1>2
        <5>2. i \in 1 .. n - 1 /\ i + 1 \in 1 .. n - 1
          BY <5>1
        <5>3. t.left[(i + 1) + 1] = t.left[i + 1] + 1
          BY <1>0, <3>2, <5>2
        <5> QED
          BY <1>0, <1>2, <5>2, <5>3
      <4> QED
        BY <1>4, <3>3, <3>4, <4>1, <4>2, <4>3 DEF LoopInOrder
    <3> QED
      BY <3>5, <3>6
  <2>2. CASE ~Polls(a)
    BY <2>2, ServersHave
  <2> QED
    BY <2>1, <2>2
<1>16. ReadsOn(a)' /\ CursorsInside(a)'
  BY DEF AdapterInv, CursorsInside, ReadUpTo
<1>17. ASSUME NEW m \in Messages(a), InHand(a, m)
       PROVE  InHand(a, m)' \/ Worked(a, m)'
  <2>1. PICK v \in tasks[a] : Contains(v.left, m)
    BY <1>17 DEF InHand
  <2>2. CASE v # t
    <3>1. v \in tasks'[a]
      BY <1>9, <2>2
    <3> QED
      BY <2>1, <3>1 DEF InHand
  <2>3. CASE v = t /\ m = h
    BY <1>7, <2>3
  <2>4. CASE v = t /\ m # h
    <3>1. Contains(rest, m)
      BY <1>3, <2>1, <2>4
    <3>2. Len(t.left) # 1
      <4>1. PICK i \in 1 .. Len(rest) : rest[i] = m
        BY <3>1 DEF Contains
      <4>2. Len(t.left) = 1 => Len(rest) = 0
        BY <1>2
      <4> QED
        BY <4>1, <4>2
    <3>3. u \in tasks'[a] /\ Contains(u.left, m)
      BY <1>4, <1>9, <3>1, <3>2
    <3> QED
      BY <3>3 DEF InHand
  <2> QED
    BY <2>2, <2>3, <2>4
<1>18. \A m \in Messages(a) : Worked(a, m) => Worked(a, m)'
  BY <1>7, <1>12
<1>19. TelegramBehind(a)'
  BY <1>13, <1>17, <1>18 DEF AdapterInv, TelegramBehind
<1>20. DiscordBehind(a)'
  BY <1>13, <1>17, <1>18 DEF AdapterInv, DiscordBehind
<1>21. AnsweredBehind(a)'
  <2>1. CASE Polls(a)
    BY <1>13, <2>1 DEF AnsweredBehind
  <2>2. CASE ~Polls(a)
    <3>1. \A m \in acked[a] : m \in Messages(a) /\ Worked(a, m)'
      BY <1>18, <2>2 DEF AdapterInv, AnsweredBehind
    <3>2. CASE Len(t.left) = 1
      <4>1. \A m : Contains(t.left, m) => m = h
        BY <1>1, <3>2 DEF Contains, h
      <4>2. ASSUME NEW m \in ToSet(t.msgs)
            PROVE  m \in Messages(a) /\ Worked(a, m)'
        <5>1. PICK i \in DOMAIN t.msgs : t.msgs[i] = m
          BY DEF ToSet
        <5>2. /\ m \in 1 .. Len(posted[a])
              /\ Contains(t.left, m) \/ Worked(a, m)
          BY <2>2, <5>1 DEF AdapterInv, TasksProper
        <5> QED
          BY <1>7, <1>12, <1>18, <4>1, <5>2
      <4> QED
        BY <1>8, <1>13, <3>1, <4>2 DEF AnsweredBehind
    <3>3. CASE Len(t.left) # 1
      <4>0. n # 1
        BY <1>0, <3>3
      <4>1. n > 1
        BY <4>0, MoreThanOne, Zenon
      <4>2. acked'[a] = acked[a]
        BY <1>0, <1>8, <4>1
      <4> QED
        BY <1>13, <3>1, <4>2 DEF AnsweredBehind
    <3> QED
      BY <3>2, <3>3
  <2> QED
    BY <2>1, <2>2
<1> QED
  BY <1>10, <1>11, <1>14, <1>15, <1>16, <1>19, <1>20, <1>21 DEF AdapterInv

(* Every step of a handler is one of the two.                               *)
LEMMA WorkKeeps ==
  ASSUME PlatformAssumption, Typed, NEW a \in Adapters, AdapterInv(a), Work(a)
  PROVE  Typed' /\ AdapterInv(a)' /\ \A b \in Adapters \ {a} : Rests(b)
<1>1. PICK t \in tasks[a] :
        \/ TelegramTakesUp(a, t) \/ DiscordTakesUp(a, t) \/ SlackTakesUp(a, t)
        \/ WhatsAppTakesUp(a, t) \/ Turn(a, t) \/ Reply(a, t)
  BY DEF Work
<1>2. "handled" \in Fates /\ "refused" \in Fates
  BY DEF Fates
<1>4. ASSUME NEW p, Takes(a, t, p)
      PROVE  /\ ReadUpTo(a, t)
             /\ platform' = platform /\ posted' = posted /\ cursor' = cursor
             /\ base' = base /\ forgotten' = forgotten
  BY <1>4, ReadTaken DEF Takes
<1>5. ASSUME NEW p, Takes(a, t, p), Done(a, t, "handled")
      PROVE  Typed' /\ AdapterInv(a)' /\ \A b \in Adapters \ {a} : Rests(b)
  BY <1>2, <1>4, <1>5, DoneKeeps
<1>6. ASSUME NEW p, Takes(a, t, p), Passes(a, t)
      PROVE  Typed' /\ AdapterInv(a)' /\ \A b \in Adapters \ {a} : Rests(b)
  <2>1. /\ Replace(a, t, [t EXCEPT !.stage = "turn"])
        /\ fate' = fate /\ acked' = acked
    BY <1>6 DEF Passes
  <2> QED
    BY <1>4, <1>6, <2>1, PassKeeps
<1>7. ASSUME NEW p, Takes(a, t, p), Screened(a, t)
      PROVE  Typed' /\ AdapterInv(a)' /\ \A b \in Adapters \ {a} : Rests(b)
  <2>1. Done(a, t, "handled") \/ Passes(a, t)
    BY <1>7 DEF Screened
  <2> QED
    BY <1>5, <1>6, <1>7, <2>1
<1>8. CASE TelegramTakesUp(a, t)
  BY <1>7, <1>8 DEF TelegramTakesUp
<1>9. CASE DiscordTakesUp(a, t)
  BY <1>7, <1>9 DEF DiscordTakesUp
<1>10. CASE SlackTakesUp(a, t)
  BY <1>7, <1>10 DEF SlackTakesUp
<1>11. CASE WhatsAppTakesUp(a, t)
  BY <1>5, <1>7, <1>11 DEF WhatsAppTakesUp
<1>12. CASE Turn(a, t)
  <2>1. /\ t.stage = "turn" /\ read' = read
        /\ platform' = platform /\ posted' = posted /\ cursor' = cursor
        /\ base' = base /\ forgotten' = forgotten
        /\ \/ /\ Replace(a, t, [t EXCEPT !.stage = "reply"])
              /\ fate' = fate /\ acked' = acked
           \/ Done(a, t, "handled")
    BY <1>12 DEF Turn
  <2>2. ReadUpTo(a, t)
    BY <2>1, ReadKept
  <2>3. CASE Done(a, t, "handled")
    BY <1>2, <2>1, <2>2, <2>3, DoneKeeps
  <2>4. CASE /\ Replace(a, t, [t EXCEPT !.stage = "reply"])
             /\ fate' = fate /\ acked' = acked
    BY <2>1, <2>2, <2>4, PassKeeps
  <2> QED
    BY <2>1, <2>3, <2>4
<1>13. CASE Reply(a, t)
  <2> DEFINE f == IF GoesOut(a, t) THEN "handled" ELSE "refused"
  <2>1. /\ t.stage = "reply" /\ read' = read
        /\ platform' = platform /\ posted' = posted /\ cursor' = cursor
        /\ base' = base /\ forgotten' = forgotten
        /\ Done(a, t, f)
    BY <1>13 DEF Reply
  <2>2. f \in Fates
    BY DEF Fates
  <2> HIDE DEF f
  <2>3. ReadUpTo(a, t)
    BY <2>1, ReadKept
  <2> QED
    BY <2>1, <2>2, <2>3, DoneKeeps
<1> QED
  BY <1>1, <1>8, <1>9, <1>10, <1>11, <1>12, <1>13

-----------------------------------------------------------------------------
(* A step of the daemon's life that leaves the messages alone, and its end. *)
LEMMA LifeKeeps ==
  ASSUME Typed, \A a \in Adapters : AdapterInv(a),
         platform' = platform, UNCHANGED chats, tasks' = tasks, read' = read,
         fate' = fate
  PROVE  Typed' /\ \A a \in Adapters : AdapterInv(a)'
<1>1. /\ posted' = posted /\ cursor' = cursor /\ base' = base
      /\ forgotten' = forgotten /\ acked' = acked
  BY DEF chats
<1>2. Typed'
  BY <1>1 DEF Typed, Posts
<1>3. \A a \in Adapters : Rests(a)
  BY <1>1 DEF Rests
<1> QED
  BY <1>2, <1>3, RestsKeeps

LEMMA EndsKeeps ==
  ASSUME PlatformAssumption, DeliveryInv, Ends
  PROVE  DeliveryInv'
<1>1. /\ running' = {} /\ untidy' = FALSE
      /\ cursor' = [a \in Adapters |-> 0] /\ base' = [a \in Adapters |-> 0]
      /\ tasks' = [a \in Adapters |-> {}]
      /\ read' = [a \in Adapters |-> <<>>]
      /\ platform' = platform /\ posted' = posted /\ forgotten' = forgotten
      /\ acked' = acked /\ fate' = fate
  BY DEF Ends
<1>2. Typed'
  <2>1. << >> \in Seq(Nat) /\ 0 \in Nat
    OBVIOUS
  <2> QED
    BY <1>1, <2>1 DEF DeliveryInv, Typed, Posts
<1>3. Quiet'
  BY <1>1 DEF Quiet
<1>4. ASSUME NEW a \in Adapters PROVE AdapterInv(a)'
  <2>1. /\ cursor'[a] = 0 /\ base'[a] = 0 /\ tasks'[a] = {}
        /\ read'[a] = << >> /\ AdapterInv(a)
        /\ Polls(a)' = Polls(a) /\ Messages(a)' = Messages(a)
    BY <1>1 DEF DeliveryInv, Polls, Messages
  <2>2. /\ Len(posted[a]) \in Nat /\ forgotten[a] \in Nat
        /\ Messages(a) = 1 .. Len(posted[a])
    BY PostedTyped DEF DeliveryInv
  <2>3. TasksProper(a)'
    BY <2>1 DEF TasksProper
  <2>4. LoopInOrder(a)'
    BY <2>1 DEF LoopInOrder
  <2>5. ReadsOn(a)'
    <3>1. 1 .. Len(<< >>) - 1 = {}
      OBVIOUS
    <3> QED
      BY <2>1, <3>1 DEF ReadsOn
  <2>6. CursorsInside(a)'
    BY <1>1, <2>1, <2>2 DEF AdapterInv, CursorsInside
  <2>7. \A m \in Messages(a) : ~(m <= 0)
    BY <2>2
  <2>8. TelegramBehind(a)' /\ DiscordBehind(a)'
    BY <1>1, <2>1, <2>7, SMTT(30) DEF AdapterInv, TelegramBehind, DiscordBehind, Worked
  <2>9. AnsweredBehind(a)'
    BY <1>1, <2>1 DEF AdapterInv, AnsweredBehind, Worked
  <2> QED
    BY <2>3, <2>4, <2>5, <2>6, <2>8, <2>9 DEF AdapterInv
<1> QED
  BY <1>2, <1>3, <1>4 DEF DeliveryInv

(* A step of one adapter that is running, or has something in hand.         *)
LEMMA OneAdapterKeeps ==
  ASSUME DeliveryInv, NEW a \in Adapters, Typed', AdapterInv(a)',
         \A b \in Adapters \ {a} : Rests(b),
         running' = running, untidy' = untidy,
         a \in running \/ tasks[a] # {} \/ tasks' = tasks
  PROVE  DeliveryInv'
<1>1. \A b \in Adapters : AdapterInv(b)'
  BY RestsKeeps DEF DeliveryInv
<1>2. Quiet'
  <2>1. \A b \in Adapters \ {a} : tasks'[b] = tasks[b]
    BY DEF Rests
  <2> QED
    BY <2>1 DEF DeliveryInv, Quiet
<1> QED
  BY <1>1, <1>2 DEF DeliveryInv

-----------------------------------------------------------------------------
LEMMA DeliveryStarts ==
  ASSUME PlatformAssumption, PlatformInit
  PROVE  DeliveryInv
<1>1. /\ platform \in Lineups /\ running = {} /\ untidy = FALSE
      /\ posted = [a \in Adapters |-> <<>>]
      /\ cursor = [a \in Adapters |-> 0] /\ base = [a \in Adapters |-> 0]
      /\ forgotten = [a \in Adapters |-> 0]
      /\ acked = [a \in Adapters |-> {}]
      /\ tasks = [a \in Adapters |-> {}]
      /\ read = [a \in Adapters |-> <<>>]
      /\ fate = [a \in Adapters |-> [m \in Posts |-> {}]]
  BY DEF PlatformInit
<1>2. /\ << >> \in Seq(Nat) /\ << >> \in Seq(Kinds) /\ 0 \in Nat
      /\ Len(<< >>) = 0 /\ DOMAIN << >> = {}
  OBVIOUS
<1>3. MaxPosts[platform] \in Nat
  BY <1>1 DEF PlatformAssumption
<1>4. Typed
  <2>1. \A a \in Adapters : Len(posted[a]) <= MaxPosts[platform]
    BY <1>1, <1>2, <1>3
  <2>2. fate \in [Adapters -> [Posts -> SUBSET Fates]]
    BY <1>1
  <2> QED
    BY <1>1, <1>2, <2>1, <2>2 DEF Typed
<1>5. Quiet
  BY <1>1 DEF Quiet
<1>6. ASSUME NEW a \in Adapters PROVE AdapterInv(a)
  <2>1. /\ cursor[a] = 0 /\ base[a] = 0 /\ tasks[a] = {} /\ forgotten[a] = 0
        /\ read[a] = << >> /\ posted[a] = << >> /\ acked[a] = {}
    BY <1>1
  <2>2. Messages(a) = {} /\ Len(posted[a]) = 0 /\ Len(read[a]) = 0
    BY <1>2, <2>1 DEF Messages
  <2>3. TasksProper(a) /\ LoopInOrder(a) /\ AnsweredBehind(a)
    BY <2>1 DEF TasksProper, LoopInOrder, AnsweredBehind
  <2>4. ReadsOn(a)
    <3>1. 1 .. 0 - 1 = {}
      OBVIOUS
    <3> QED
      BY <2>2, <3>1 DEF ReadsOn
  <2>5. CursorsInside(a)
    BY <2>1, <2>2 DEF CursorsInside
  <2>6. TelegramBehind(a) /\ DiscordBehind(a)
    BY <2>1, <2>2 DEF TelegramBehind, DiscordBehind
  <2> QED
    BY <2>3, <2>4, <2>5, <2>6 DEF AdapterInv
<1> QED
  BY <1>4, <1>5, <1>6 DEF DeliveryInv

LEMMA RequestsAre ==
  ASSUME PlatformAssumption, DeliveryInv, NEW a \in Adapters,
         SlackEvent(a) \/ WhatsAppEvent(a)
  PROVE  \E ms \in Seq(Nat) :
           /\ ms # << >> /\ Delivers(a, ms) /\ ~Polls(a)
           /\ \A i \in DOMAIN ms : ms[i] \in Messages(a)
<1>1. Messages(a) = 1 .. Len(posted[a]) /\ Len(posted[a]) \in Nat
  BY PostedTyped DEF DeliveryInv
<1>2. CASE SlackEvent(a)
  <2>1. PICK m \in Messages(a) : Delivers(a, << m >>)
    BY <1>2 DEF SlackEvent
  <2>2. /\ << m >> \in Seq(Nat) /\ << m >> # << >> /\ DOMAIN << m >> = {1}
        /\ << m >>[1] = m
    BY <1>1
  <2>3. ~Polls(a)
    BY <1>2 DEF SlackEvent, Polls
  <2> QED
    BY <2>1, <2>2, <2>3
<1>3. CASE WhatsAppEvent(a)
  <2>1. PICK m \in Messages(a), k \in Messages(a) :
          m <= k /\ Delivers(a, Span(m, k))
    BY <1>3 DEF WhatsAppEvent
  <2>2. m \in Nat /\ k \in Nat
    BY <1>1
  <2>3. /\ Span(m, k) \in Seq(Nat) /\ Span(m, k) # << >>
        /\ Len(Span(m, k)) = k - m + 1
        /\ \A i \in 1 .. k - m + 1 : Span(m, k)[i] \in m .. k
    BY <2>1, <2>2, SpanIs
  <2>4. DOMAIN Span(m, k) = 1 .. k - m + 1
    BY <2>3
  <2>5. m .. k \subseteq Messages(a)
    BY <1>1
  <2>6. ~Polls(a)
    BY <1>3 DEF WhatsAppEvent, Polls
  <2> QED
    BY <2>1, <2>3, <2>4, <2>5, <2>6
<1> QED
  BY <1>2, <1>3

LEMMA DeliveryGoesOn ==
  ASSUME PlatformAssumption, DeliveryInv, [PlatformNext]_platformVars
  PROVE  DeliveryInv'
<1>1. Typed /\ Quiet /\ \A a \in Adapters : AdapterInv(a)
  BY DEF DeliveryInv
<1>2. CASE UNCHANGED platformVars
  <2>1. /\ platform' = platform /\ UNCHANGED chats /\ tasks' = tasks
        /\ read' = read /\ fate' = fate /\ running' = running
        /\ untidy' = untidy
    BY <1>2 DEF platformVars
  <2>2. Typed' /\ \A a \in Adapters : AdapterInv(a)'
    BY <1>1, <2>1, LifeKeeps
  <2>3. Quiet'
    BY <1>1, <2>1 DEF Quiet
  <2> QED
    BY <2>2, <2>3 DEF DeliveryInv
<1>3. CASE Exit \/ Die
  BY <1>3, EndsKeeps DEF Exit, Die
<1>4. ASSUME /\ platform' = platform /\ UNCHANGED chats /\ tasks' = tasks
             /\ read' = read /\ fate' = fate /\ untidy' = untidy
             /\ running \subseteq running'
      PROVE  DeliveryInv'
  <2>1. Typed' /\ \A a \in Adapters : AdapterInv(a)'
    BY <1>1, <1>4, LifeKeeps
  <2>2. Quiet'
    BY <1>1, <1>4 DEF Quiet
  <2> QED
    BY <2>1, <2>2 DEF DeliveryInv
<1>5. CASE StartDaemon \/ StopDaemon
  BY <1>4, <1>5 DEF StartDaemon, StopDaemon
<1>6. ASSUME NEW a \in Adapters, AdapterStarts(a) \/ StartFails(a) \/ CloseAdapter(a)
      PROVE  DeliveryInv'
  BY <1>4, <1>6 DEF AdapterStarts, StartFails, CloseAdapter
<1>7. ASSUME NEW a \in Adapters, PollerStops(a)
      PROVE  DeliveryInv'
  <2>1. /\ tasks[a] = {} /\ running' = running \ {a} /\ untidy' = untidy
        /\ platform' = platform /\ UNCHANGED chats /\ tasks' = tasks
        /\ read' = read /\ fate' = fate
    BY <1>7 DEF PollerStops, Stopped
  <2>2. Typed' /\ \A b \in Adapters : AdapterInv(b)'
    BY <1>1, <2>1, LifeKeeps
  <2>3. Quiet'
    BY <1>1, <2>1 DEF Quiet
  <2> QED
    BY <2>2, <2>3 DEF DeliveryInv
<1>8. ASSUME NEW a \in Adapters, ServerStops(a)
      PROVE  DeliveryInv'
  <2>1. /\ running' = running \ {a} /\ untidy' = (untidy \/ tasks[a] # {})
        /\ platform' = platform /\ UNCHANGED chats /\ tasks' = tasks
        /\ read' = read /\ fate' = fate
    BY <1>8 DEF ServerStops, Stopped
  <2>2. Typed' /\ \A b \in Adapters : AdapterInv(b)'
    BY <1>1, <2>1, LifeKeeps
  <2>3. Quiet'
    <3>1. untidy' \in BOOLEAN
      BY <2>1
    <3>2. CASE untidy'
      BY <3>1, <3>2 DEF Quiet
    <3>3. CASE ~untidy'
      <4>1. ~untidy /\ tasks[a] = {}
        BY <2>1, <3>3
      <4> QED
        BY <1>1, <2>1, <3>1, <4>1 DEF Quiet
    <3> QED
      BY <3>2, <3>3
  <2> QED
    BY <2>2, <2>3 DEF DeliveryInv
<1>9. ASSUME NEW a \in Adapters, a \in Enabled, NEW k \in KindsOn[platform[a]],
             Post(a, k)
      PROVE  DeliveryInv'
  <2>1. k \in Kinds
    <3>1. platform \in [Adapters -> {"telegram", "discord", "slack",
                                     "whatsapp", "none"}]
      BY <1>1 DEF Typed, PlatformAssumption
    <3>2. platform[a] \in {"telegram", "discord", "slack", "whatsapp"}
      BY <1>9, <3>1 DEF Enabled
    <3>3. KindsOn[platform[a]] \subseteq {"text", "voice", "stranger"}
      BY <3>2 DEF PlatformAssumption
    <3> QED
      BY <1>9, <3>3 DEF Kinds
  <2>2. Typed' /\ AdapterInv(a)' /\ \A b \in Adapters \ {a} : Rests(b)
    BY <1>1, <1>9, <2>1, PostKeeps
  <2>3. running' = running /\ untidy' = untidy /\ tasks' = tasks
    BY <1>9 DEF Post
  <2> QED
    BY <2>2, <2>3, OneAdapterKeeps
<1>10. ASSUME NEW a \in Adapters, TelegramPoll(a) \/ DiscordPoll(a)
       PROVE  DeliveryInv'
  <2>1. Typed' /\ AdapterInv(a)' /\ \A b \in Adapters \ {a} : Rests(b)
    BY <1>1, <1>10, TelegramPollKeeps, DiscordPollKeeps
  <2>2. running' = running /\ untidy' = untidy /\ a \in running
    BY <1>10 DEF TelegramPoll, DiscordPoll, MayPoll
  <2> QED
    BY <2>1, <2>2, OneAdapterKeeps
<1>11. ASSUME NEW a \in Adapters, SlackEvent(a) \/ WhatsAppEvent(a)
       PROVE  DeliveryInv'
  <2>1. PICK ms \in Seq(Nat) :
          /\ ms # << >> /\ Delivers(a, ms) /\ ~Polls(a)
          /\ \A i \in DOMAIN ms : ms[i] \in Messages(a)
    BY <1>11, RequestsAre
  <2>2. Typed' /\ AdapterInv(a)' /\ \A b \in Adapters \ {a} : Rests(b)
    BY <1>1, <2>1, DeliversKeeps
  <2>3. running' = running /\ untidy' = untidy /\ a \in running
    BY <2>1 DEF Delivers
  <2> QED
    BY <2>2, <2>3, OneAdapterKeeps
<1>12. ASSUME NEW a \in Adapters, NEW t \in tasks[a], GiveUpRequest(a, t)
       PROVE  DeliveryInv'
  <2>1. Typed' /\ AdapterInv(a)' /\ \A b \in Adapters \ {a} : Rests(b)
    BY <1>1, <1>12, GiveUpKeeps
  <2>2. running' = running /\ untidy' = untidy /\ tasks[a] # {}
    BY <1>12 DEF GiveUpRequest
  <2> QED
    BY <2>1, <2>2, OneAdapterKeeps
<1>13. ASSUME NEW a \in Adapters, Work(a)
       PROVE  DeliveryInv'
  <2>1. Typed' /\ AdapterInv(a)' /\ \A b \in Adapters \ {a} : Rests(b)
    BY <1>1, <1>13, WorkKeeps
  <2>2. running' = running /\ untidy' = untidy /\ tasks[a] # {}
    BY <1>13 DEF Work, TelegramTakesUp, DiscordTakesUp, SlackTakesUp,
                 WhatsAppTakesUp, Takes, Turn, Reply
  <2> QED
    BY <2>1, <2>2, OneAdapterKeeps
<1> QED
  BY <1>2, <1>3, <1>5, <1>6, <1>7, <1>8, <1>9, <1>10, <1>11, <1>12, <1>13
     DEF PlatformNext, Stopping

LEMMA DeliveryHolds == PlatformSpec => []DeliveryInv
<1>1. PlatformInit => DeliveryInv
  BY PlatformAssumption, DeliveryStarts
<1>2. DeliveryInv /\ [PlatformNext]_platformVars => DeliveryInv'
  BY PlatformAssumption, DeliveryGoesOn
<1> QED
  BY <1>1, <1>2, PTL DEF PlatformSpec

(* A polling adapter takes up the messages of a run one by one and in their *)
(* order; what the platform, or the cursor, will not give again was worked  *)
(* on by some run, whatever crashed, hung up or came twice in between; and  *)
(* a daemon whose adapters all stopped in time has no turn running          *)
(* (telegram.go:376-402, discord.go:232-264, multiplexer.go:132-173).       *)
THEOREM MessagesAreDelivered == PlatformSpec => []MessagesDelivered
<1>1. ASSUME DeliveryInv PROVE MessagesDelivered
  <2>1. Typed /\ Quiet /\ \A a \in Adapters : AdapterInv(a)
    BY <1>1 DEF DeliveryInv
  <2>2. RunReadsOn
    BY <2>1 DEF RunReadsOn, AdapterInv, ReadsOn
  <2>3. ASSUME NEW a \in Adapters, NEW m \in Passed(a)
        PROVE  fate[a][m] # {}
    <3>1. CASE platform[a] = "telegram"
      <4>1. m \in Messages(a) /\ m <= forgotten[a]
        BY <3>1 DEF Passed
      <4> QED
        BY <2>1, <3>1, <4>1 DEF AdapterInv, TelegramBehind, Worked
    <3>2. CASE platform[a] = "discord"
      <4>1. /\ m \in Messages(a) /\ base[a] - Window < m /\ m <= cursor[a]
            /\ ~InHand(a, m)
        BY <3>2 DEF Passed, InHand
      <4> QED
        BY <2>1, <3>2, <4>1 DEF AdapterInv, DiscordBehind, Worked
    <3>3. CASE platform[a] # "telegram" /\ platform[a] # "discord"
      <4>1. m \in acked[a] /\ ~Polls(a)
        BY <3>3 DEF Passed, Polls
      <4> QED
        BY <2>1, <4>1 DEF AdapterInv, AnsweredBehind, Worked
    <3> QED
      BY <3>1, <3>2, <3>3
  <2>4. StoppedMeansQuiet
    BY <2>1 DEF StoppedMeansQuiet, Quiet
  <2> QED
    BY <2>2, <2>3, <2>4 DEF MessagesDelivered, NothingSlipsBy
<1> QED
  BY <1>1, DeliveryHolds, PTL

-----------------------------------------------------------------------------
(* The types.  What is left to show of them is the daemon's own state, the  *)
(* requests counted, and that cursors, answers and what was read lie among  *)
(* the messages.                                                            *)
DaemonTyped ==
  /\ daemon \in {"off", "starting", "up", "stopping", "rollback"}
  /\ runs \in 0 .. MaxRuns
  /\ running \subseteq Adapters /\ shut \subseteq running
TriesTyped == tries \in [Adapters -> [Posts -> 0 .. MaxTries]]
Inside(a) ==
  /\ base[a] <= cursor[a] /\ acked[a] \subseteq Messages(a)
  /\ \A i \in DOMAIN read[a] : read[a][i] \in Messages(a)

LEMMA DaemonStaysTyped ==
  ASSUME PlatformAssumption, DaemonTyped, [PlatformNext]_platformVars
  PROVE  DaemonTyped'
<1> USE DEF DaemonTyped
<1>1. ASSUME UNCHANGED <<daemon, runs, running, shut>> PROVE DaemonTyped'
  BY <1>1
<1>2. CASE UNCHANGED platformVars
  BY <1>1, <1>2 DEF platformVars
<1>3. CASE Exit \/ Die
  BY <1>3 DEF Exit, Die, Ends
<1>4. CASE StartDaemon
  <2>1. runs \in Nat /\ MaxRuns \in Nat /\ runs < MaxRuns
    BY <1>4 DEF StartDaemon, PlatformAssumption
  <2>2. runs + 1 \in 0 .. MaxRuns
    BY <2>1
  <2> QED
    BY <1>4, <2>2 DEF StartDaemon
<1>5. CASE StopDaemon
  BY <1>5 DEF StopDaemon
<1>6. ASSUME NEW a \in Adapters,
             AdapterStarts(a) \/ StartFails(a) \/ CloseAdapter(a)
      PROVE  DaemonTyped'
  <2>1. CASE AdapterStarts(a)
    BY <2>1 DEF AdapterStarts
  <2>2. CASE StartFails(a)
    BY <2>2 DEF StartFails
  <2>3. CASE CloseAdapter(a)
    BY <2>3 DEF CloseAdapter
  <2> QED
    BY <1>6, <2>1, <2>2, <2>3
<1>7. ASSUME NEW a \in Adapters, PollerStops(a) \/ ServerStops(a)
      PROVE  DaemonTyped'
  BY <1>7 DEF PollerStops, ServerStops, Stopped
<1>8. ASSUME NEW a \in Adapters, NEW k, Post(a, k) PROVE DaemonTyped'
  BY <1>1, <1>8 DEF Post
<1>9. ASSUME NEW a \in Adapters, TelegramPoll(a) \/ DiscordPoll(a)
      PROVE  DaemonTyped'
  BY <1>1, <1>9 DEF TelegramPoll, DiscordPoll
<1>10. ASSUME NEW a \in Adapters, SlackEvent(a) \/ WhatsAppEvent(a)
       PROVE  DaemonTyped'
  BY <1>1, <1>10 DEF SlackEvent, WhatsAppEvent, Delivers
<1>11. ASSUME NEW a \in Adapters, NEW t \in tasks[a], GiveUpRequest(a, t)
       PROVE  DaemonTyped'
  BY <1>1, <1>11 DEF GiveUpRequest
<1>12. ASSUME NEW a \in Adapters, Work(a) PROVE DaemonTyped'
  BY <1>1, <1>12 DEF Work, TelegramTakesUp, DiscordTakesUp, SlackTakesUp,
                     WhatsAppTakesUp, Takes, Turn, Reply
<1> QED
  BY <1>2, <1>3, <1>4, <1>5, <1>6, <1>7, <1>8, <1>9, <1>10, <1>11, <1>12
     DEF PlatformNext, Stopping

LEMMA TriesStayTyped ==
  ASSUME PlatformAssumption, TriesTyped, [PlatformNext]_platformVars
  PROVE  TriesTyped'
<1>1. ASSUME UNCHANGED <<platform, tries>> PROVE TriesTyped'
  BY <1>1 DEF TriesTyped, Posts
<1>2. CASE UNCHANGED platformVars
  BY <1>1, <1>2 DEF platformVars, chats
<1>3. CASE StartDaemon \/ StopDaemon \/ Exit \/ Die
  BY <1>1, <1>3 DEF StartDaemon, StopDaemon, Exit, Die, Ends, chats
<1>4. ASSUME NEW a \in Adapters,
             \/ AdapterStarts(a) \/ StartFails(a) \/ CloseAdapter(a)
             \/ PollerStops(a) \/ ServerStops(a)
      PROVE  TriesTyped'
  BY <1>1, <1>4 DEF AdapterStarts, StartFails, CloseAdapter, PollerStops,
                    ServerStops, chats
<1>5. ASSUME NEW a \in Adapters, NEW k, Post(a, k) PROVE TriesTyped'
  BY <1>1, <1>5 DEF Post
<1>6. ASSUME NEW a \in Adapters, TelegramPoll(a) \/ DiscordPoll(a)
      PROVE  TriesTyped'
  BY <1>1, <1>6 DEF TelegramPoll, DiscordPoll
<1>7. ASSUME NEW a \in Adapters, NEW ms, Delivers(a, ms) PROVE TriesTyped'
  <2>1. /\ tries' = [tries EXCEPT ![a] =
              [m \in DOMAIN tries[a] |-> IF Contains(ms, m) THEN tries[a][m] + 1
                                         ELSE tries[a][m]]]
        /\ platform' = platform
        /\ \A i \in DOMAIN ms : tries[a][ms[i]] < MaxTries
    BY <1>7 DEF Delivers
  <2>2. tries[a] \in [Posts -> 0 .. MaxTries] /\ MaxTries \in Nat
    BY DEF TriesTyped, PlatformAssumption
  <2>3. ASSUME NEW m \in Posts, tries[a][m] < MaxTries
        PROVE  tries[a][m] + 1 \in 0 .. MaxTries
    BY <2>2, <2>3
  <2>4. CASE \E m \in Posts : Contains(ms, m) /\ ~(tries[a][m] < MaxTries)
    <3>1. PICK m \in Posts : Contains(ms, m) /\ ~(tries[a][m] < MaxTries)
      BY <2>4
    <3>2. PICK i \in 1 .. Len(ms) : ms[i] = m
      BY <3>1 DEF Contains
    <3> QED
      BY <2>1, <3>1, <3>2
  <2>5. CASE \A m \in Posts : Contains(ms, m) => tries[a][m] < MaxTries
    <3>1. [m \in DOMAIN tries[a] |-> IF Contains(ms, m) THEN tries[a][m] + 1
                                     ELSE tries[a][m]]
            \in [Posts -> 0 .. MaxTries]
      BY <2>2, <2>3, <2>5
    <3> QED
      BY <2>1, <3>1 DEF TriesTyped, Posts
  <2> QED
    BY <2>4, <2>5
<1>8. ASSUME NEW a \in Adapters, SlackEvent(a) \/ WhatsAppEvent(a)
      PROVE  TriesTyped'
  BY <1>7, <1>8 DEF SlackEvent, WhatsAppEvent
<1>9. ASSUME NEW a \in Adapters, NEW t \in tasks[a], GiveUpRequest(a, t)
      PROVE  TriesTyped'
  BY <1>1, <1>9 DEF GiveUpRequest, chats
<1>10. ASSUME NEW a \in Adapters, Work(a) PROVE TriesTyped'
  BY <1>1, <1>10 DEF Work, TelegramTakesUp, DiscordTakesUp, SlackTakesUp,
                     WhatsAppTakesUp, Takes, Turn, Reply
<1> QED
  BY <1>2, <1>3, <1>4, <1>5, <1>6, <1>8, <1>9, <1>10
     DEF PlatformNext, Stopping

LEMMA RestsStayInside ==
  ASSUME NEW b \in Adapters, Inside(b), Rests(b)
  PROVE  Inside(b)'
  BY DEF Inside, Rests, Messages

LEMMA OneStaysInside ==
  ASSUME NEW a \in Adapters, \A b \in Adapters : Inside(b), Inside(a)',
         \A b \in Adapters \ {a} : Rests(b)
  PROVE  \A b \in Adapters : Inside(b)'
  BY RestsStayInside

(* A poll moves the cursor on; it says where its run began the first time.  *)
LEMMA TakenStaysInside ==
  ASSUME PlatformAssumption, Typed, NEW a \in Adapters, AdapterInv(a),
         Inside(a), tasks[a] = {}, NEW f \in Nat, NEW t \in Nat, Taken(a, f, t),
         f <= t => cursor[a] <= t,
         posted' = posted, acked' = acked, read' = read
  PROVE  Inside(a)'
<1>1. cursor[a] \in Nat /\ base[a] \in Nat /\ base[a] <= cursor[a]
  BY PostedTyped DEF Inside
<1>2. base'[a] <= cursor'[a]
  <2>1. CASE f > t
    <3>1. cursor' = cursor /\ base'[a] = IF base[a] = 0 THEN cursor[a] ELSE base[a]
      BY <2>1, NothingTaken
    <3> QED
      BY <1>1, <3>1
  <2>2. CASE f <= t
    <3>1. cursor'[a] = t /\ base'[a] = IF base[a] = 0 THEN t ELSE base[a]
      BY <2>2, SomethingTaken
    <3> QED
      BY <1>1, <2>2, <3>1
  <2> QED
    BY <2>1, <2>2
<1> QED
  BY <1>2 DEF Inside, Messages

LEMMA PollStaysInside ==
  ASSUME PlatformAssumption, Typed, NEW a \in Adapters, AdapterInv(a),
         Inside(a), TelegramPoll(a) \/ DiscordPoll(a)
  PROVE  Inside(a)'
<1>1. /\ tasks[a] = {} /\ posted' = posted /\ acked' = acked /\ read' = read
  BY DEF TelegramPoll, DiscordPoll, MayPoll
<1>2. /\ Len(posted[a]) \in Nat /\ cursor[a] \in Nat /\ forgotten[a] \in Nat
      /\ Window \in Nat \ {0} /\ cursor[a] <= Len(posted[a])
  BY PostedTyped DEF PlatformAssumption, AdapterInv, CursorsInside
<1>3. CASE TelegramPoll(a)
  <2>1. forgotten' = [forgotten EXCEPT ![a] = Larger(forgotten[a], cursor[a])]
    BY <1>3 DEF TelegramPoll
  <2>2. forgotten'[a] \in Nat
    BY <1>2, <2>1 DEF Typed, Larger
  <2>3. CASE Taken(a, forgotten'[a] + 1, Len(posted[a]))
    <3>1. PICK f \in Nat : f = forgotten'[a] + 1
      BY <2>2
    <3>2. PICK t \in Nat : t = Len(posted[a])
      BY <1>2
    <3>3. Taken(a, f, t) /\ (f <= t => cursor[a] <= t)
      BY <1>2, <2>3, <3>1, <3>2
    <3> QED
      BY <1>1, <3>3, TakenStaysInside
  <2>4. CASE UNCHANGED <<tasks, cursor, base>>
    BY <1>1, <2>4 DEF Inside, Messages
  <2> QED
    BY <1>3, <2>3, <2>4 DEF TelegramPoll
<1>4. CASE DiscordPoll(a)
  <2>1. CASE cursor[a] = 0
    <3>0. Larger(1, Len(posted[a]) - Window + 1) \in Nat
      BY <1>2 DEF Larger
    <3>1. PICK f \in Nat : f = Larger(1, Len(posted[a]) - Window + 1)
      BY <3>0
    <3>2. PICK t \in Nat : t = Len(posted[a])
      BY <1>2
    <3>3. Taken(a, f, t)
      BY <1>4, <2>1, <3>1, <3>2 DEF DiscordPoll
    <3>4. cursor[a] <= t
      BY <1>2, <3>2
    <3> QED
      BY <1>1, <3>3, <3>4, TakenStaysInside
  <2>2. CASE cursor[a] # 0
    <3>1. PICK f \in Nat : f = cursor[a] + 1
      BY <1>2
    <3>2. PICK t \in Nat : t = Smaller(Len(posted[a]), cursor[a] + Window)
      BY <1>2 DEF Smaller
    <3>3. Taken(a, f, t)
      BY <1>4, <2>2, <3>1, <3>2 DEF DiscordPoll
    <3>4. f <= t => cursor[a] <= t
      BY <1>2, <3>1
    <3> QED
      BY <1>1, <3>3, <3>4, TakenStaysInside
  <2> QED
    BY <2>1, <2>2
<1> QED
  BY <1>3, <1>4

(* What is read, and what a request is answered for, was in hand.           *)
LEMMA WorkStaysInside ==
  ASSUME PlatformAssumption, Typed, NEW a \in Adapters, AdapterInv(a),
         Inside(a), Work(a)
  PROVE  Inside(a)'
<1>1. PICK t \in tasks[a] :
        \/ TelegramTakesUp(a, t) \/ DiscordTakesUp(a, t) \/ SlackTakesUp(a, t)
        \/ WhatsAppTakesUp(a, t) \/ Turn(a, t) \/ Reply(a, t)
  BY DEF Work
<1>2. /\ posted' = posted /\ cursor' = cursor /\ base' = base
      /\ \/ read' = read
         \/ read' = [read EXCEPT ![a] = IF Polls(a)
                                          THEN Append(read[a], Head(t.left))
                                          ELSE read[a]]
  BY <1>1 DEF TelegramTakesUp, DiscordTakesUp, SlackTakesUp, WhatsAppTakesUp,
              Takes, Turn, Reply
<1>3. \/ acked' = acked
      \/ acked' = [acked EXCEPT ![a] =
                      IF Polls(a) \/ ~t.alive \/ Len(t.left) > 1 THEN acked[a]
                      ELSE acked[a] \union ToSet(t.msgs)]
  BY <1>1 DEF TelegramTakesUp, DiscordTakesUp, SlackTakesUp, WhatsAppTakesUp,
              Screened, Passes, Turn, Reply, Done, Acknowledge
<1>4. /\ Head(t.left) \in Nat /\ Head(t.left) \in Messages(a)
      /\ \A i \in DOMAIN t.msgs : t.msgs[i] \in Messages(a)
  <2>1. Messages(a) = 1 .. Len(posted[a]) /\ Len(posted[a]) \in Nat
    BY PostedTyped
  <2>2. Head(t.left) = t.left[1] /\ t.left[1] \in 1 .. Len(posted[a])
    BY TaskHas
  <2>3. \A i \in DOMAIN t.msgs : t.msgs[i] \in 1 .. Len(posted[a])
    BY DEF AdapterInv, TasksProper
  <2> QED
    BY <2>1, <2>2, <2>3
<1>5. acked'[a] \subseteq Messages(a)
  <2>1. ToSet(t.msgs) \subseteq Messages(a) /\ acked[a] \subseteq Messages(a)
    BY <1>4 DEF ToSet, Inside
  <2>2. acked \in [Adapters -> SUBSET Nat]
    BY DEF Typed
  <2>3. acked'[a] = acked[a] \/ acked'[a] = acked[a] \union ToSet(t.msgs)
    BY <1>3, <2>2
  <2> QED
    BY <2>1, <2>3
<1>6. \A i \in DOMAIN read'[a] : read'[a][i] \in Messages(a)
  <2>1. read \in [Adapters -> Seq(Nat)] /\ read[a] \in Seq(Nat)
    BY DEF Typed
  <2>2. read'[a] = read[a] \/ read'[a] = Append(read[a], Head(t.left))
    BY <1>2, <2>1
  <2>3. CASE read'[a] = read[a]
    BY <2>3 DEF Inside
  <2>4. CASE read'[a] = Append(read[a], Head(t.left))
    <3> TAKE i \in DOMAIN read'[a]
    <3>1. /\ DOMAIN read[a] = 1 .. Len(read[a]) /\ Len(read[a]) \in Nat
          /\ DOMAIN read'[a] = 1 .. Len(read[a]) + 1
          /\ \A j \in 1 .. Len(read[a]) : read'[a][j] = read[a][j]
          /\ read'[a][Len(read[a]) + 1] = Head(t.left)
      BY <1>4, <2>1, <2>4, OneMore
    <3>2. CASE i = Len(read[a]) + 1
      BY <1>4, <3>1, <3>2
    <3>3. CASE i # Len(read[a]) + 1
      <4>1. i \in DOMAIN read[a]
        BY <3>1, <3>3
      <4> QED
        BY <3>1, <4>1 DEF Inside
    <3> QED
      BY <3>2, <3>3
  <2> QED
    BY <2>2, <2>3, <2>4
<1> QED
  BY <1>2, <1>5, <1>6 DEF Inside, Messages

LEMMA InsideGoesOn ==
  ASSUME PlatformAssumption, DeliveryInv, \A a \in Adapters : Inside(a),
         [PlatformNext]_platformVars
  PROVE  \A a \in Adapters : Inside(a)'
<1>0. Typed /\ \A a \in Adapters : AdapterInv(a)
  BY DEF DeliveryInv
<1>1. ASSUME platform' = platform, UNCHANGED chats, read' = read
      PROVE  \A a \in Adapters : Inside(a)'
  BY <1>1 DEF Inside, Messages, chats
<1>2. CASE UNCHANGED platformVars
  BY <1>1, <1>2 DEF platformVars
<1>3. CASE Exit \/ Die
  <2>1. /\ cursor' = [a \in Adapters |-> 0] /\ base' = [a \in Adapters |-> 0]
        /\ read' = [a \in Adapters |-> <<>>] /\ posted' = posted
        /\ acked' = acked
    BY <1>3 DEF Exit, Die, Ends
  <2>2. DOMAIN << >> = {}
    OBVIOUS
  <2> QED
    BY <2>1, <2>2 DEF Inside, Messages
<1>4. CASE StartDaemon \/ StopDaemon
  BY <1>1, <1>4 DEF StartDaemon, StopDaemon
<1>5. ASSUME NEW a \in Adapters, \/ AdapterStarts(a) \/ StartFails(a)
                                 \/ Stopping(a)
      PROVE  \A b \in Adapters : Inside(b)'
  BY <1>1, <1>5 DEF AdapterStarts, StartFails, Stopping, CloseAdapter,
                    PollerStops, ServerStops
<1>6. ASSUME NEW a \in Adapters, NEW k \in KindsOn[platform[a]], a \in Enabled,
             Post(a, k)
      PROVE  \A b \in Adapters : Inside(b)'
  <2>1. k \in Kinds
    <3>1. platform \in [Adapters -> {"telegram", "discord", "slack",
                                     "whatsapp", "none"}]
      BY <1>0 DEF Typed, PlatformAssumption
    <3>2. platform[a] \in {"telegram", "discord", "slack", "whatsapp"}
      BY <1>6, <3>1 DEF Enabled
    <3>3. KindsOn[platform[a]] \subseteq {"text", "voice", "stranger"}
      BY <3>2 DEF PlatformAssumption
    <3> QED
      BY <1>6, <3>3 DEF Kinds
  <2>2. /\ posted'[a] = Append(posted[a], k) /\ posted[a] \in Seq(Kinds)
        /\ cursor' = cursor /\ base' = base /\ acked' = acked /\ read' = read
    BY <1>0, <1>6 DEF Post, Typed
  <2>3. Messages(a) \subseteq Messages(a)'
    BY <2>1, <2>2, OneMore DEF Messages
  <2>4. Inside(a)'
    BY <2>2, <2>3 DEF Inside
  <2>5. \A b \in Adapters \ {a} : Rests(b)
    BY <1>0, <1>6, <2>1, PostKeeps
  <2> QED
    BY <2>4, <2>5, OneStaysInside
<1>7. ASSUME NEW a \in Adapters, TelegramPoll(a) \/ DiscordPoll(a)
      PROVE  \A b \in Adapters : Inside(b)'
  <2>1. Inside(a)'
    BY <1>0, <1>7, PollStaysInside
  <2>2. \A b \in Adapters \ {a} : Rests(b)
    BY <1>0, <1>7, TelegramPollKeeps, DiscordPollKeeps
  <2> QED
    BY <2>1, <2>2, OneStaysInside
<1>8. ASSUME NEW a \in Adapters, SlackEvent(a) \/ WhatsAppEvent(a)
      PROVE  \A b \in Adapters : Inside(b)'
  BY <1>8 DEF SlackEvent, WhatsAppEvent, Delivers, Inside, Messages
<1>9. ASSUME NEW a \in Adapters, NEW t \in tasks[a], GiveUpRequest(a, t)
      PROVE  \A b \in Adapters : Inside(b)'
  BY <1>1, <1>9 DEF GiveUpRequest
<1>10. ASSUME NEW a \in Adapters, Work(a)
       PROVE  \A b \in Adapters : Inside(b)'
  <2>1. Inside(a)'
    BY <1>0, <1>10, WorkStaysInside
  <2>2. \A b \in Adapters \ {a} : Rests(b)
    BY <1>0, <1>10, WorkKeeps
  <2> QED
    BY <2>1, <2>2, OneStaysInside
<1> QED
  BY <1>2, <1>3, <1>4, <1>5, <1>6, <1>7, <1>8, <1>9, <1>10 DEF PlatformNext

PlatformInv ==
  /\ DeliveryInv /\ DaemonTyped /\ TriesTyped
  /\ \A a \in Adapters : Inside(a)

LEMMA PlatformStarts ==
  ASSUME PlatformAssumption, PlatformInit
  PROVE  PlatformInv
<1>1. DeliveryInv
  BY DeliveryStarts
<1>2. DaemonTyped /\ TriesTyped
  BY DEF PlatformInit, PlatformAssumption, DaemonTyped, TriesTyped
<1>3. DOMAIN << >> = {}
  OBVIOUS
<1>4. \A a \in Adapters : Inside(a)
  BY <1>3 DEF PlatformInit, Inside
<1> QED
  BY <1>1, <1>2, <1>4 DEF PlatformInv

LEMMA PlatformGoesOn ==
  ASSUME PlatformAssumption, PlatformInv, [PlatformNext]_platformVars
  PROVE  PlatformInv'
  BY DeliveryGoesOn, DaemonStaysTyped, TriesStayTyped, InsideGoesOn
     DEF PlatformInv

LEMMA AmongMessages ==
  ASSUME NEW S, NEW s \in Seq(Nat), \A i \in DOMAIN s : s[i] \in S
  PROVE  s \in Seq(S)
<1>1. /\ Len(s) \in Nat /\ DOMAIN s = 1 .. Len(s)
      /\ s = [i \in 1 .. Len(s) |-> s[i]]
  OBVIOUS
<1>2. s \in [1 .. Len(s) -> S]
  BY <1>1
<1> QED
  BY <1>1, <1>2

LEMMA PlatformIsTyped ==
  ASSUME PlatformAssumption, PlatformInv
  PROVE  PlatformTypeOK
<1>1. /\ Typed /\ Quiet /\ DaemonTyped /\ TriesTyped
      /\ \A a \in Adapters : AdapterInv(a) /\ Inside(a)
  BY DEF PlatformInv, DeliveryInv
<1>2. ASSUME NEW a \in Adapters
      PROVE  /\ posted[a] \in Seq({"text", "voice", "stranger"})
             /\ Messages(a) \subseteq Posts
             /\ cursor[a] \in 0 .. Len(posted[a])
             /\ base[a] \in 0 .. cursor[a]
             /\ forgotten[a] \in 0 .. Len(posted[a])
             /\ acked[a] \subseteq Messages(a)
             /\ tries[a] \in [Posts -> 0 .. MaxTries]
  <2>1. /\ posted[a] \in Seq(Kinds) /\ Messages(a) \subseteq Posts
        /\ Len(posted[a]) \in Nat
        /\ cursor[a] \in Nat /\ base[a] \in Nat /\ forgotten[a] \in Nat
    BY <1>1, PostedTyped
  <2>2. /\ cursor[a] <= Len(posted[a]) /\ forgotten[a] <= Len(posted[a])
        /\ base[a] <= cursor[a] /\ acked[a] \subseteq Messages(a)
    BY <1>1 DEF AdapterInv, CursorsInside, Inside
  <2>3. tries[a] \in [Posts -> 0 .. MaxTries]
    BY <1>1 DEF TriesTyped
  <2> QED
    BY <2>1, <2>2, <2>3 DEF Kinds
<1>3. ASSUME NEW a \in Adapters PROVE tasks[a] \subseteq Tasks
  <2> SUFFICES ASSUME NEW t \in tasks[a] PROVE t \in Tasks
    OBVIOUS
  <2>1. /\ t \in TaskStates /\ t.left \in Seq(Nat) /\ t.msgs \in Seq(Nat)
    BY <1>1, TaskHas
  <2>2. Messages(a) = 1 .. Len(posted[a])
    BY <1>1, PostedTyped
  <2>3. /\ \A i \in DOMAIN t.left : t.left[i] \in 1 .. Len(posted[a])
        /\ \A i \in DOMAIN t.msgs : t.msgs[i] \in 1 .. Len(posted[a])
    BY <1>1 DEF AdapterInv, TasksProper
  <2>4. /\ \A i \in DOMAIN t.left : t.left[i] \in Posts
        /\ \A i \in DOMAIN t.msgs : t.msgs[i] \in Posts
    BY <1>2, <2>2, <2>3
  <2>5. t.left \in Seq(Posts) /\ t.msgs \in Seq(Posts)
    BY <2>1, <2>4, AmongMessages
  <2> QED
    BY <2>1, <2>5 DEF TaskStates, Tasks
<1>4. ASSUME NEW a \in Adapters, Polls(a) PROVE Cardinality(tasks[a]) <= 1
  <2>1. \A t, u \in tasks[a] : t = u
    BY <1>1, <1>4 DEF AdapterInv, LoopInOrder
  <2>2. CASE tasks[a] = {}
    BY <2>2, FS_EmptySet
  <2>3. CASE tasks[a] # {}
    <3>1. PICK t \in tasks[a] : TRUE
      BY <2>3
    <3>2. tasks[a] = {t}
      BY <2>1
    <3>3. Cardinality({t}) = 1
      BY FS_Singleton
    <3> QED
      BY <3>2, <3>3
  <2> QED
    BY <2>2, <2>3
<1>5. ASSUME NEW a \in Adapters PROVE read[a] \in Seq(Messages(a))
  <2>1. read[a] \in Seq(Nat) /\ \A i \in DOMAIN read[a] : read[a][i] \in Messages(a)
    BY <1>1 DEF Typed, Inside
  <2> QED
    BY <2>1, AmongMessages
<1>6. \A a \in Adapters : \A m \in Posts : fate[a][m] \subseteq Fates
  BY <1>1 DEF Typed
<1>7. /\ platform \in Lineups /\ untidy \in BOOLEAN
      /\ daemon \in {"off", "starting", "up", "stopping", "rollback"}
      /\ runs \in 0 .. MaxRuns
      /\ running \subseteq Adapters /\ shut \subseteq running
  BY <1>1 DEF Typed, Quiet, DaemonTyped
<1> QED
  BY <1>2, <1>3, <1>4, <1>5, <1>6, <1>7 DEF PlatformTypeOK

-----------------------------------------------------------------------------
(* The conversations (internal/gateway, internal/session).  Two facts carry *)
(* the argument: whoever is past the mutex holds it, and while no two keys  *)
(* were ever in flight at once all events in flight have one key.  Together *)
(* they leave one handler at a time, so what it wrote to the brain's one    *)
(* field is still there when its step reads it.                             *)

Entries == [role : {"user", "assistant"}, event : Events]
Conversations == [key : Keys, live : BOOLEAN, log : Seq(Entries)]

Held == {"resolve", "activate", "pick", "persist", "think", "fetch"}
Resolved == {"activate", "pick", "persist", "think", "fetch"}

(* Who is past the mutex of a key holds it. *)
HoldersHaveLock == \A e \in Events : pc[e] \in Held => lock[KeyOf[e]] = e

OneKey == ~overlap => \A e, f \in InFlight : KeyOf[e] = KeyOf[f]

(* A binding, and what an event was routed to, is a conversation of its key.*)
BoundHome == \A k \in Keys : sessions[k] # 0 => convs[sessions[k]].key = k
RoutedHome ==
  \A e \in Events : pc[e] \in Resolved =>
    /\ routed[e] # 0 /\ convs[routed[e]].key = KeyOf[e]
    /\ sessions[KeyOf[e]] # 0

(* The turn works on the conversation it was routed to, or that one is gone;*)
(* and as far as it has come, its message is the last one there.            *)
Said(role, e) == [role |-> role, event |-> e]
EndsWith(c, entry) ==
  c \in Live => /\ convs[c].log # <<>>
                /\ convs[c].log[Len(convs[c].log)] = entry
TurnHome ==
  ~overlap => \A e \in Events :
    /\ pc[e] = "pick" => activeID = routed[e]
    /\ pc[e] \in {"persist", "think", "fetch"} =>
         /\ picked[e] \in DOMAIN convs
         /\ picked[e] = routed[e] \/ routed[e] \notin Live
    /\ pc[e] = "think" => EndsWith(picked[e], Said("user", e))
    /\ pc[e] = "fetch" => EndsWith(picked[e], Said("assistant", e))

(* Every conversation that is there has its place in the order of updates.  *)
RecentKnows == Live \subseteq ToSet(recent)

LiveOf(k) == {c \in Live : convs[c].key = k}
FewPerKey ==
  \A k \in Keys :
    Cardinality(LiveOf(k)) <= restarts + (IF sessions[k] # 0 THEN 1 ELSE 0)

RoutingInv ==
  /\ RoutingTypeOK /\ HoldersHaveLock /\ OneKey /\ BoundHome /\ RoutedHome
  /\ TurnHome /\ RecentKnows /\ FewPerKey
  /\ IsolatedOneKeyAtATime /\ RepliesMatchMessages

-----------------------------------------------------------------------------
(* What the three ways to change the conversations do.  *)
Fresh(k) == [key |-> k, live |-> TRUE, log |-> <<>>]

(* What the types say of a conversation. *)
LEMMA ConversationsTyped ==
  ASSUME RoutingTypeOK
  PROVE  /\ convs \in Seq(Conversations) /\ Len(convs) \in Nat
         /\ DOMAIN convs = 1 .. Len(convs)
         /\ \A c \in DOMAIN convs : convs[c] \in Conversations
<1>1. convs \in Seq(Conversations)
  BY DEF RoutingTypeOK, Conversations, Entries
<1> QED
  BY <1>1, ElementOfSeq

(* A new conversation is a live one of its key, and leaves the others       *)
(* alone.                                                                   *)
LEMMA IsOpened ==
  ASSUME RoutingTypeOK, NEW k \in Keys, convs' = Append(convs, Fresh(k))
  PROVE  /\ convs' \in Seq(Conversations) /\ Len(convs') = Len(convs) + 1
         /\ DOMAIN convs = 1 .. Len(convs) /\ Len(convs) \in Nat
         /\ DOMAIN convs' = 1 .. Len(convs) + 1
         /\ \A c \in DOMAIN convs : convs'[c] = convs[c]
         /\ convs'[Len(convs) + 1] = Fresh(k)
         /\ Live' = Live \union {Len(convs) + 1}
<1>1. convs \in Seq(Conversations) /\ Fresh(k) \in Conversations
  BY DEF RoutingTypeOK, Conversations, Entries, Fresh
<1>2. /\ convs' \in Seq(Conversations) /\ Len(convs') = Len(convs) + 1
      /\ DOMAIN convs = 1 .. Len(convs) /\ Len(convs) \in Nat
      /\ DOMAIN convs' = 1 .. Len(convs) + 1
      /\ \A c \in DOMAIN convs : convs'[c] = convs[c]
      /\ convs'[Len(convs) + 1] = Fresh(k)
  BY <1>1, AppendProperties
<1>3. Live' = Live \union {Len(convs) + 1}
  BY <1>2 DEF Live, Fresh
<1> QED
  BY <1>2, <1>3

(* An event's message is put behind the log of its conversation. *)
LEMMA Persisted ==
  ASSUME RoutingTypeOK, NEW e \in Events, NEW role \in {"user", "assistant"},
         Persist(e, role)
  PROVE  /\ picked[e] \in Live /\ picked[e] \in DOMAIN convs
         /\ convs' \in Seq(Conversations)
         /\ DOMAIN convs' = DOMAIN convs /\ Len(convs') = Len(convs)
         /\ Live' = Live
         /\ \A c \in DOMAIN convs :
              /\ convs'[c].key = convs[c].key
              /\ c # picked[e] => convs'[c] = convs[c]
         /\ convs[picked[e]].log \in Seq(Entries)
         /\ convs'[picked[e]].log = Append(convs[picked[e]].log, Said(role, e))
<1> DEFINE p == picked[e]
           new == [convs[p] EXCEPT !.log = Append(@, Said(role, e))]
<1>1. p \in Live /\ p \in DOMAIN convs
  BY DEF Persist, Live
<1>2. convs \in Seq(Conversations) /\ convs[p] \in Conversations
  BY <1>1, ConversationsTyped
<1>3. convs' = [convs EXCEPT ![p] = new]
  BY DEF Persist, Said
<1>4. /\ new \in Conversations /\ new.key = convs[p].key /\ new.live = convs[p].live
      /\ convs[p].log \in Seq(Entries)
      /\ new.log = Append(convs[p].log, Said(role, e))
  <2>1. Said(role, e) \in Entries
    BY DEF Said, Entries
  <2>2. convs[p].log \in Seq(Entries)
    BY <1>2 DEF Conversations
  <2>3. Append(convs[p].log, Said(role, e)) \in Seq(Entries)
    BY <2>1, <2>2
  <2> QED
    BY <1>2, <2>2, <2>3 DEF Conversations
<1> HIDE DEF new
<1>5. /\ convs' \in Seq(Conversations) /\ Len(convs') = Len(convs)
      /\ DOMAIN convs' = DOMAIN convs
      /\ \A c \in DOMAIN convs : convs'[c] = IF c = p THEN new ELSE convs[c]
  BY <1>1, <1>2, <1>3, <1>4
<1>6. Live' = Live
  BY <1>4, <1>5 DEF Live
<1> QED
  BY <1>1, <1>4, <1>5, <1>6

(* A conversation that is deleted stays a record that is not live. *)
LEMMA Deleted ==
  ASSUME RoutingTypeOK, NEW d \in Live, Delete(d)
  PROVE  /\ convs' \in Seq(Conversations)
         /\ DOMAIN convs' = DOMAIN convs /\ Len(convs') = Len(convs)
         /\ Live' = Live \ {d} /\ d \in DOMAIN convs
         /\ \A c \in DOMAIN convs :
              /\ convs'[c].key = convs[c].key
              /\ c # d => convs'[c] = convs[c]
<1> DEFINE new == [convs[d] EXCEPT !.live = FALSE, !.log = <<>>]
<1>1. d \in DOMAIN convs
  BY DEF Live
<1>2. convs \in Seq(Conversations) /\ convs[d] \in Conversations
  BY <1>1, ConversationsTyped
<1>3. convs' = [convs EXCEPT ![d] = new]
  BY DEF Delete
<1>4. new \in Conversations /\ new.key = convs[d].key /\ new.live = FALSE
  <2>1. <<>> \in Seq(Entries) /\ FALSE \in BOOLEAN
    OBVIOUS
  <2> QED
    BY <1>2, <2>1 DEF Conversations
<1> HIDE DEF new
<1>5. /\ convs' \in Seq(Conversations) /\ Len(convs') = Len(convs)
      /\ DOMAIN convs' = DOMAIN convs
      /\ \A c \in DOMAIN convs : convs'[c] = IF c = d THEN new ELSE convs[c]
  BY <1>1, <1>2, <1>3, <1>4
<1>6. Live' = Live \ {d}
  BY <1>4, <1>5 DEF Live
<1> QED
  BY <1>1, <1>4, <1>5, <1>6

(* Every step leaves the conversations as they are, opens one, writes to one*)
(* or deletes one.                                                          *)
LEMMA FourWays ==
  ASSUME RoutingTypeOK, [RoutingNext]_routingVars
  PROVE  \/ convs' = convs
         \/ \E k \in Keys : convs' = Append(convs, Fresh(k))
         \/ \E e \in Events, role \in {"user", "assistant"} : Persist(e, role)
         \/ \E d \in Live : Delete(d)
<1> USE RoutingAssumption
<1>1. CASE UNCHANGED routingVars
  BY <1>1 DEF routingVars
<1>2. CASE Restart
  BY <1>2 DEF Restart
<1>3. CASE \E d \in Live : Delete(d)
  BY <1>3
<1>4. ASSUME NEW e \in Events, Deliver(e) \/ Handle(e)
      PROVE  \/ convs' = convs
             \/ \E k \in Keys : convs' = Append(convs, Fresh(k))
             \/ \E role \in {"user", "assistant"} : Persist(e, role)
  <2>1. CASE Deliver(e) \/ TakeLock(e) \/ Activate(e) \/ StepFails(e) \/ Fetch(e)
    BY <2>1 DEF Deliver, TakeLock, Activate, StepFails, Fetch
  <2>2. CASE ResolveConversation(e)
    BY <2>2 DEF ResolveConversation, Create, Fresh
  <2>3. CASE Pick(e)
    BY <2>3 DEF Pick, Fresh
  <2>4. CASE PersistUser(e)
    BY <2>4 DEF PersistUser
  <2>5. CASE PersistReply(e)
    BY <2>5 DEF PersistReply
  <2> QED
    BY <1>4, <2>1, <2>2, <2>3, <2>4, <2>5 DEF Handle
<1> QED
  BY <1>1, <1>2, <1>3, <1>4 DEF RoutingNext

(* A conversation keeps its key for good, and one that is gone stays gone.  *)
LEMMA ConversationsGrow ==
  ASSUME RoutingTypeOK, [RoutingNext]_routingVars
  PROVE  /\ convs' \in Seq(Conversations)
         /\ Len(convs) \in Nat /\ Len(convs') \in Nat
         /\ Len(convs) <= Len(convs')
         /\ DOMAIN convs = 1 .. Len(convs) /\ DOMAIN convs' = 1 .. Len(convs')
         /\ \A c \in DOMAIN convs : /\ convs'[c].key = convs[c].key
                                    /\ c \in Live' => c \in Live
<1>1. Len(convs) \in Nat /\ DOMAIN convs = 1 .. Len(convs)
      /\ convs \in Seq(Conversations)
  BY ConversationsTyped
<1>2. CASE convs' = convs
  BY <1>1, <1>2 DEF Live
<1>3. ASSUME NEW k \in Keys, convs' = Append(convs, Fresh(k))
      PROVE  /\ convs' \in Seq(Conversations) /\ Len(convs') = Len(convs) + 1
             /\ DOMAIN convs' = 1 .. Len(convs')
             /\ \A c \in DOMAIN convs : /\ convs'[c].key = convs[c].key
                                        /\ c \in Live' => c \in Live
  <2>1. convs' \in Seq(Conversations) /\ Len(convs') = Len(convs) + 1
    BY <1>3, IsOpened
  <2>2. DOMAIN convs' = 1 .. Len(convs')
    BY <1>3, IsOpened
  <2>3. \A c \in DOMAIN convs : convs'[c] = convs[c]
    BY <1>3, IsOpened
  <2> QED
    BY <2>1, <2>2, <2>3 DEF Live
<1>4. ASSUME NEW e \in Events, NEW role \in {"user", "assistant"},
             Persist(e, role)
      PROVE  /\ convs' \in Seq(Conversations) /\ Len(convs') = Len(convs)
             /\ DOMAIN convs' = DOMAIN convs /\ Live' = Live
             /\ \A c \in DOMAIN convs : convs'[c].key = convs[c].key
  BY <1>4, Persisted
<1>5. ASSUME NEW d \in Live, Delete(d)
      PROVE  /\ convs' \in Seq(Conversations) /\ Len(convs') = Len(convs)
             /\ DOMAIN convs' = DOMAIN convs /\ Live' = Live \ {d}
             /\ \A c \in DOMAIN convs : convs'[c].key = convs[c].key
  BY <1>5, Deleted
<1> QED
  BY <1>1, <1>2, <1>3, <1>4, <1>5, FourWays

-----------------------------------------------------------------------------
(* The types, in three parts besides the conversations.  *)
StatesTyped ==
  /\ pc \in [Events -> Places]
  /\ lock \in [Keys -> Events \union {None}]
  /\ sent \in [Events -> Events \union {None}]
  /\ overlap \in BOOLEAN /\ restarts \in 0 .. MaxMishaps
ReferencesTyped ==
  /\ sessions \in [Keys -> 0 .. Len(convs)]
  /\ activeID \in 0 .. Len(convs)
  /\ routed \in [Events -> 0 .. Len(convs)]
  /\ picked \in [Events -> 0 .. Len(convs)]
OrderTyped ==
  /\ recent \in Seq(DOMAIN convs)
  /\ \A i, j \in DOMAIN recent : recent[i] = recent[j] => i = j

(* The type invariant is that of the states, the references and the order. *)
LEMMA TypeParts ==
  RoutingTypeOK <=> /\ convs \in Seq(Conversations)
                    /\ StatesTyped /\ ReferencesTyped /\ OrderTyped
BY DEF RoutingTypeOK, Conversations, Entries, StatesTyped, ReferencesTyped,
       OrderTyped

(* Where events stand keeps its type. *)
LEMMA StatesStayTyped ==
  ASSUME RoutingTypeOK, [RoutingNext]_routingVars
  PROVE  StatesTyped'
<1> USE RoutingAssumption
<1>1. StatesTyped
  BY TypeParts
<1>2. CASE UNCHANGED routingVars
  BY <1>1, <1>2 DEF routingVars, StatesTyped
<1>3. CASE Restart
  <2>1. Cardinality(DOMAIN convs \ Live) \in Nat
    <3>1. IsFiniteSet(DOMAIN convs)
      BY ConversationsTyped, FS_Interval
    <3>2. IsFiniteSet(DOMAIN convs \ Live)
      BY <3>1, FS_Subset
    <3> QED
      BY <3>2, FS_CardinalityType
  <2>2. restarts' \in 0 .. MaxMishaps
    BY <1>1, <1>3, <2>1 DEF Restart, MishapAllowed, StatesTyped
  <2>3. pc' \in [Events -> Places]
    BY <1>1, <1>3 DEF Restart, StatesTyped, Places
  <2> QED
    BY <1>1, <1>3, <2>2, <2>3 DEF Restart, StatesTyped
<1>4. ASSUME NEW d \in Live, Delete(d)
      PROVE  StatesTyped'
  BY <1>1, <1>4 DEF Delete, StatesTyped
<1>5. ASSUME NEW e \in Events, Deliver(e)
      PROVE  StatesTyped'
  <2>1. overlap' \in BOOLEAN
    BY <1>1, <1>5 DEF Deliver, StatesTyped
  <2>2. pc' \in [Events -> Places]
    BY <1>1, <1>5 DEF Deliver, Goto, StatesTyped, Places
  <2> QED
    BY <1>1, <1>5, <2>1, <2>2 DEF Deliver, StatesTyped
<1>6. ASSUME NEW e \in Events, Handle(e)
      PROVE  StatesTyped'
  <2>1. \E place \in Places : pc' = [pc EXCEPT ![e] = place]
    BY <1>6 DEF Handle, TakeLock, ResolveConversation, Activate, Pick,
                PersistUser, PersistReply, StepFails, Fetch, Finish, Goto, Places
  <2>2. \/ lock' = lock
        \/ \E owner \in Events \union {None} :
             lock' = [lock EXCEPT ![KeyOf[e]] = owner]
    BY <1>6 DEF Handle, TakeLock, ResolveConversation, Activate, Pick,
                PersistUser, PersistReply, StepFails, Fetch, Finish, Goto
  <2>3. sent' \in [Events -> Events \union {None}]
    <3>1. CASE Fetch(e)
      <4> DEFINE c == routed[e]
                 log == IF c \in Live THEN convs[c].log ELSE <<>>
                 reply == IF log # <<>> /\ log[Len(log)].role = "assistant"
                          THEN log[Len(log)].event ELSE None
      <4>1. sent' = [sent EXCEPT ![e] = reply]
        BY <3>1 DEF Fetch
      <4>2. reply \in Events \union {None}
        <5>1. log \in Seq(Entries)
          <6>1. CASE c \in Live
            <7>1. convs[c] \in Conversations
              BY <6>1, ConversationsTyped DEF Live
            <7> QED
              BY <6>1, <7>1 DEF Conversations
          <6>2. CASE c \notin Live
            BY <6>2
          <6> QED
            BY <6>1, <6>2
        <5> HIDE DEF log
        <5>2. CASE log # <<>>
          <6>1. Len(log) \in 1 .. Len(log)
            BY <5>1, <5>2, EmptySeq
          <6>2. log[Len(log)] \in Entries
            BY <5>1, <6>1, ElementOfSeq
          <6> QED
            BY <6>2 DEF Entries
        <5> QED
          BY <5>2
      <4> HIDE DEF reply
      <4> QED
        BY <1>1, <4>1, <4>2 DEF StatesTyped
    <3>2. CASE ~Fetch(e)
      <4>1. sent' = sent
        BY <1>6, <3>2 DEF Handle, TakeLock, ResolveConversation, Activate, Pick,
                          PersistUser, PersistReply, StepFails
      <4> QED
        BY <1>1, <4>1 DEF StatesTyped
    <3> QED
      BY <3>1, <3>2
  <2>4. UNCHANGED <<overlap, restarts>>
    BY <1>6 DEF Handle, TakeLock, ResolveConversation, Activate, Pick,
                PersistUser, PersistReply, StepFails, Fetch
  <2>5. pc' \in [Events -> Places]
    BY <1>1, <2>1 DEF StatesTyped
  <2>6. lock' \in [Keys -> Events \union {None}]
    BY <1>1, <2>2 DEF StatesTyped
  <2>7. overlap' \in BOOLEAN /\ restarts' \in 0 .. MaxMishaps
    BY <1>1, <2>4 DEF StatesTyped
  <2> QED
    BY <2>3, <2>5, <2>6, <2>7 DEF StatesTyped
<1> QED
  BY <1>2, <1>3, <1>4, <1>5, <1>6 DEF RoutingNext

(* What refers to conversations refers to ones that were made. *)
LEMMA ReferencesStayTyped ==
  ASSUME RoutingTypeOK, [RoutingNext]_routingVars
  PROVE  ReferencesTyped'
<1> USE RoutingAssumption
<1>1. ReferencesTyped /\ OrderTyped
  BY TypeParts
<1>2. /\ Len(convs) \in Nat /\ Len(convs') \in Nat /\ Len(convs) <= Len(convs')
      /\ DOMAIN convs = 1 .. Len(convs) /\ DOMAIN convs' = 1 .. Len(convs')
  BY ConversationsGrow
<1> DEFINE old == 0 .. Len(convs)
           now == 0 .. Len(convs')
<1>3. old \subseteq now /\ 0 \in now
  BY <1>2
<1>4. /\ sessions \in [Keys -> now] /\ activeID \in now
      /\ routed \in [Events -> now] /\ picked \in [Events -> now]
  BY <1>1, <1>3 DEF ReferencesTyped
<1> HIDE DEF old, now
<1>5. SUFFICES /\ sessions' \in [Keys -> now] /\ activeID' \in now
               /\ routed' \in [Events -> now] /\ picked' \in [Events -> now]
  BY DEF ReferencesTyped, now
<1>6. CASE UNCHANGED routingVars
  BY <1>4, <1>6 DEF routingVars
<1>7. CASE Restart
  BY <1>3, <1>4, <1>7 DEF Restart
<1>8. ASSUME NEW d \in Live, Delete(d)
      PROVE  UNCHANGED <<sessions, activeID, routed, picked>>
  BY <1>8 DEF Delete
<1>9. ASSUME NEW e \in Events,
             \/ Deliver(e) \/ TakeLock(e) \/ PersistUser(e) \/ PersistReply(e)
             \/ StepFails(e) \/ Fetch(e)
      PROVE  UNCHANGED <<sessions, activeID, routed, picked>>
  BY <1>9 DEF Deliver, TakeLock, PersistUser, PersistReply, StepFails, Fetch
<1>10. ASSUME NEW e \in Events, ResolveConversation(e)
       PROVE  \E x \in now :
                /\ sessions' \in {sessions, [sessions EXCEPT ![KeyOf[e]] = x]}
                /\ routed' \in {routed, [routed EXCEPT ![e] = x]}
                /\ UNCHANGED <<activeID, picked>>
  <2>1. CASE Create(e)
    <3>1. Len(convs') = Len(convs) + 1
      <4>1. convs' = Append(convs, Fresh(KeyOf[e]))
        BY <2>1 DEF Create, Fresh
      <4> QED
        BY <4>1, IsOpened
    <3>2. Len(convs) + 1 \in now
      BY <1>2, <3>1 DEF now
    <3> QED
      BY <1>10, <2>1, <3>2 DEF ResolveConversation, Create
  <2>2. CASE ~Create(e)
    BY <1>4, <1>10, <2>2 DEF ResolveConversation
  <2> QED
    BY <2>1, <2>2
<1>11. ASSUME NEW e \in Events, Activate(e)
       PROVE  activeID' \in now /\ UNCHANGED <<sessions, routed, picked>>
  BY <1>4, <1>11 DEF Activate
<1>12. ASSUME NEW e \in Events, Pick(e)
       PROVE  /\ \E x \in now : picked' = [picked EXCEPT ![e] = x]
              /\ UNCHANGED <<sessions, activeID, routed>>
  <2>1. CASE activeID \in Live
    BY <1>4, <1>12, <2>1 DEF Pick
  <2>2. CASE activeID \notin Live /\ recent # <<>>
    <3>1. recent[Len(recent)] \in DOMAIN convs
      BY <1>1, <2>2 DEF OrderTyped
    <3>2. recent[Len(recent)] \in now
      BY <1>2, <3>1 DEF now
    <3> QED
      BY <1>12, <2>2, <3>2 DEF Pick
  <2>3. CASE activeID \notin Live /\ recent = <<>>
    <3>1. /\ convs' = Append(convs, Fresh(KeyOf[e]))
          /\ picked' = [picked EXCEPT ![e] = Len(convs) + 1]
          /\ UNCHANGED <<sessions, activeID, routed>>
      BY <1>12, <2>3 DEF Pick, Fresh
    <3>2. Len(convs') = Len(convs) + 1
      BY <3>1, IsOpened
    <3>3. Len(convs) + 1 \in now
      BY <1>2, <3>2 DEF now
    <3> QED
      BY <3>1, <3>3
  <2> QED
    BY <2>1, <2>2, <2>3
<1>13. ASSUME NEW e \in Events, Deliver(e) \/ Handle(e)
       PROVE  /\ sessions' \in [Keys -> now] /\ activeID' \in now
              /\ routed' \in [Events -> now] /\ picked' \in [Events -> now]
  <2>1. CASE ResolveConversation(e)
    BY <1>4, <1>10, <2>1
  <2>2. CASE Activate(e)
    BY <1>4, <1>11, <2>2
  <2>3. CASE Pick(e)
    BY <1>4, <1>12, <2>3
  <2> QED
    BY <1>4, <1>9, <1>13, <2>1, <2>2, <2>3 DEF Handle
<1> QED
  BY <1>4, <1>6, <1>7, <1>8, <1>13 DEF RoutingNext

(* Every conversation that is there has its place in the order of updates.  *)
LEMMA OrderStays ==
  ASSUME RoutingTypeOK, RecentKnows, [RoutingNext]_routingVars
  PROVE  OrderTyped' /\ RecentKnows'
<1> USE RoutingAssumption
<1>1. recent \in Seq(DOMAIN convs) /\ IsInjective(recent)
  BY TypeParts DEF OrderTyped, IsInjective
<1>2. ASSUME NEW s, recent' = s, s \in Seq(DOMAIN convs'), IsInjective(s),
             Live' \subseteq ToSet(s)
      PROVE  OrderTyped' /\ RecentKnows'
  <2>1. ToSet(recent)' = ToSet(s)
    BY <1>2 DEF ToSet
  <2> QED
    BY <1>2, <2>1 DEF OrderTyped, RecentKnows, IsInjective
<1>3. CASE UNCHANGED <<convs, recent>>
  BY <1>1, <1>2, <1>3 DEF RecentKnows, Live
<1>4. ASSUME NEW k \in Keys, convs' = Append(convs, Fresh(k)),
             recent' = Append(recent, Len(convs) + 1)
      PROVE  OrderTyped' /\ RecentKnows'
  <2> DEFINE n == Len(convs) + 1
  <2>1. /\ Len(convs) \in Nat /\ DOMAIN convs = 1 .. Len(convs)
        /\ DOMAIN convs' = 1 .. Len(convs) + 1 /\ Live' = Live \union {n}
    BY <1>4, IsOpened
  <2>2. DOMAIN convs \subseteq DOMAIN convs' /\ n \in DOMAIN convs'
        /\ n \notin DOMAIN convs
    BY <2>1
  <2>3. recent \in Seq(DOMAIN convs') /\ n \notin ToSet(recent)
    <3> HIDE DEF n
    <3>1. \A i \in DOMAIN recent : recent[i] \in DOMAIN convs
      BY <1>1
    <3> QED
      BY <1>1, <2>2, <3>1 DEF ToSet
  <2> DEFINE D == DOMAIN convs'
             s == Append(recent, n)
  <2>4. /\ s \in Seq(D) /\ IsInjective(s) /\ ToSet(s) = ToSet(recent) \union {n}
    <3> HIDE DEF n, D
    <3> QED
      BY <1>1, <2>2, <2>3, PutBehind DEF D
  <2> HIDE DEF s
  <2> QED
    BY <1>2, <1>4, <2>1, <2>4 DEF RecentKnows, s
<1>5. ASSUME NEW c \in DOMAIN convs, recent' = Touched(c),
             DOMAIN convs' = DOMAIN convs, Live' = Live
      PROVE  OrderTyped' /\ RecentKnows'
  <2>1. /\ Touched(c) \in Seq(DOMAIN convs) /\ IsInjective(Touched(c))
        /\ ToSet(Touched(c)) = ToSet(recent) \union {c}
    BY <1>1, MovedBehind DEF Touched
  <2> QED
    BY <1>2, <1>5, <2>1 DEF RecentKnows
<1>6. ASSUME NEW d \in Live, Delete(d)
      PROVE  OrderTyped' /\ RecentKnows'
  <2>1. DOMAIN convs' = DOMAIN convs /\ Live' = Live \ {d}
    BY <1>6, Deleted
  <2>2. recent' = RemoveFirst(recent, d)
    BY <1>6 DEF Delete
  <2>3. /\ recent' \in Seq(DOMAIN convs) /\ IsInjective(recent')
        /\ ToSet(recent') = ToSet(recent) \ {d}
    BY <1>1, <2>2, TakenOut
  <2> QED
    BY <1>2, <2>1, <2>3 DEF RecentKnows
<1>7. ASSUME NEW e \in Events, Deliver(e) \/ Handle(e)
      PROVE  OrderTyped' /\ RecentKnows'
  <2>1. CASE \E role \in {"user", "assistant"} : Persist(e, role)
    <3>1. PICK role \in {"user", "assistant"} : Persist(e, role)
      BY <2>1
    <3>2. /\ picked[e] \in DOMAIN convs /\ DOMAIN convs' = DOMAIN convs
          /\ Live' = Live
      BY <3>1, Persisted
    <3>3. recent' = Touched(picked[e])
      BY <3>1 DEF Persist
    <3> QED
      BY <1>5, <3>2, <3>3
  <2>2. CASE ResolveConversation(e)
    <3>1. \/ UNCHANGED <<convs, recent>>
          \/ /\ convs' = Append(convs, Fresh(KeyOf[e]))
             /\ recent' = Append(recent, Len(convs) + 1)
      BY <2>2 DEF ResolveConversation, Create, Fresh
    <3> QED
      BY <1>3, <1>4, <3>1
  <2>3. CASE Pick(e)
    <3>1. \/ UNCHANGED <<convs, recent>>
          \/ /\ convs' = Append(convs, Fresh(KeyOf[e])) /\ recent = <<>>
             /\ recent' = <<Len(convs) + 1>>
      BY <2>3 DEF Pick, Fresh
    <3>2. Append(<<>>, Len(convs) + 1) = <<Len(convs) + 1>>
      OBVIOUS
    <3> QED
      BY <1>3, <1>4, <3>1, <3>2
  <2>4. CASE Deliver(e) \/ TakeLock(e) \/ Activate(e) \/ StepFails(e) \/ Fetch(e)
    <3>1. UNCHANGED <<convs, recent>>
      BY <2>4 DEF Deliver, TakeLock, Activate, StepFails, Fetch
    <3> QED
      BY <1>3, <3>1
  <2>5. PersistUser(e) => Persist(e, "user")
    BY DEF PersistUser
  <2>6. PersistReply(e) => Persist(e, "assistant")
    BY DEF PersistReply
  <2> QED
    BY <1>7, <2>1, <2>2, <2>3, <2>4, <2>5, <2>6 DEF Handle
<1>8. Restart \/ UNCHANGED routingVars => UNCHANGED <<convs, recent>>
  BY DEF Restart, routingVars
<1> QED
  BY <1>3, <1>6, <1>7, <1>8 DEF RoutingNext

(* The steps of the handlers keep the types. *)
LEMMA TypesStay ==
  ASSUME RoutingTypeOK, RecentKnows, [RoutingNext]_routingVars
  PROVE  RoutingTypeOK' /\ RecentKnows'
<1>1. /\ convs' \in Seq(Conversations) /\ StatesTyped' /\ ReferencesTyped'
      /\ OrderTyped' /\ RecentKnows'
  BY ConversationsGrow, StatesStayTyped, ReferencesStayTyped, OrderStays
<1>2. RoutingTypeOK'
  BY <1>1 DEF RoutingTypeOK, Conversations, Entries, StatesTyped,
              ReferencesTyped, OrderTyped
<1> QED
  BY <1>1, <1>2

-----------------------------------------------------------------------------
(* A handler moves only itself and the mutex of its own key.  *)
LEMMA HandlerMoves ==
  ASSUME RoutingTypeOK, NEW e \in Events, Deliver(e) \/ Handle(e)
  PROVE  /\ \A f \in Events : f # e => pc'[f] = pc[f]
         /\ \A k \in Keys : k # KeyOf[e] => lock'[k] = lock[k]
         /\ KeyOf[e] \in Keys
<1> USE RoutingAssumption
<1>1. pc \in [Events -> Places] /\ lock \in [Keys -> Events \union {None}]
      /\ KeyOf[e] \in Keys
  BY TypeParts DEF StatesTyped
<1>2. \E place \in Places : pc' = [pc EXCEPT ![e] = place]
  BY DEF Deliver, Handle, TakeLock, ResolveConversation, Activate, Pick,
         PersistUser, PersistReply, StepFails, Fetch, Finish, Goto, Places
<1>3. lock' = lock \/ \E owner : lock' = [lock EXCEPT ![KeyOf[e]] = owner]
  BY DEF Deliver, Handle, TakeLock, ResolveConversation, Activate, Pick,
         PersistUser, PersistReply, StepFails, Fetch, Finish
<1> QED
  BY <1>1, <1>2, <1>3

(* The mutexes do serialise the turns of a key.  *)
LEMMA LocksStayHeld ==
  ASSUME RoutingTypeOK, HoldersHaveLock, [RoutingNext]_routingVars
  PROVE  HoldersHaveLock'
<1> USE RoutingAssumption
<1>1. pc \in [Events -> Places] /\ lock \in [Keys -> Events \union {None}]
  BY TypeParts DEF StatesTyped
<1>2. CASE UNCHANGED <<pc, lock>>
  BY <1>2 DEF HoldersHaveLock
<1>3. CASE Restart
  <2>1. \A e \in Events : pc'[e] \notin Held
    BY <1>1, <1>3 DEF Restart, InFlight, Held, Places
  <2> QED
    BY <2>1 DEF HoldersHaveLock
<1>4. ASSUME NEW e \in Events, Deliver(e) \/ Handle(e)
      PROVE  HoldersHaveLock'
  <2>1. pc'[e] \in Held => lock'[KeyOf[e]] = e
    <3>1. CASE Deliver(e)
      BY <1>1, <3>1 DEF Deliver, Goto, Held
    <3>2. CASE TakeLock(e)
      BY <1>1, <3>2 DEF TakeLock
    <3>3. CASE Handle(e) /\ ~TakeLock(e)
      <4>1. pc[e] \in Held
        BY <3>3 DEF Handle, ResolveConversation, Activate, Pick, PersistUser,
                    PersistReply, StepFails, Fetch, Held
      <4>2. lock' = lock \/ pc'[e] = "over"
        BY <1>1, <3>3 DEF Handle, ResolveConversation, Activate, Pick,
                  PersistUser, PersistReply, StepFails, Fetch, Finish, Goto
      <4> QED
        BY <4>1, <4>2 DEF HoldersHaveLock, Held
    <3> QED
      BY <1>4, <3>1, <3>2, <3>3
  <2>2. ASSUME NEW f \in Events, f # e, pc[f] \in Held
        PROVE  lock'[KeyOf[f]] = f
    <3>1. lock[KeyOf[f]] = f /\ KeyOf[f] \in Keys
      BY <2>2 DEF HoldersHaveLock
    <3>2. CASE KeyOf[f] # KeyOf[e]
      BY <1>4, <3>1, <3>2, HandlerMoves
    <3>3. CASE KeyOf[f] = KeyOf[e]
      <4>1. ~TakeLock(e) /\ pc[e] \notin Held
        BY <2>2, <3>1, <3>3 DEF TakeLock, HoldersHaveLock
      <4>2. Deliver(e)
        BY <1>4, <4>1 DEF Handle, ResolveConversation, Activate, Pick,
                  PersistUser, PersistReply, StepFails, Fetch, Held
      <4> QED
        BY <3>1, <4>2 DEF Deliver
    <3> QED
      BY <3>2, <3>3
  <2>3. \A f \in Events : f # e => pc'[f] = pc[f]
    BY <1>4, HandlerMoves
  <2> QED
    BY <2>1, <2>2, <2>3 DEF HoldersHaveLock
<1>5. ASSUME NEW d \in Live, Delete(d)
      PROVE  UNCHANGED <<pc, lock>>
  BY <1>5 DEF Delete
<1> QED
  BY <1>2, <1>3, <1>4, <1>5 DEF RoutingNext, routingVars

(* While no two keys overlapped, all events in flight have one key. *)
LEMMA OneKeyStays ==
  ASSUME RoutingTypeOK, OneKey, [RoutingNext]_routingVars
  PROVE  OneKey'
<1>1. pc \in [Events -> Places]
  BY TypeParts DEF StatesTyped
<1>2. CASE UNCHANGED <<pc, overlap>>
  BY <1>2 DEF OneKey, InFlight
<1>3. CASE Restart
  <2>1. InFlight' = {}
    BY <1>1, <1>3 DEF Restart, InFlight
  <2> QED
    BY <2>1 DEF OneKey
<1>4. ASSUME NEW e \in Events, Deliver(e)
      PROVE  OneKey'
  <2>1. InFlight' \subseteq InFlight \union {e}
    BY <1>1, <1>4 DEF Deliver, Goto, InFlight
  <2>2. ~overlap' => ~overlap /\ \A f \in InFlight : KeyOf[f] = KeyOf[e]
    BY <1>4 DEF Deliver
  <2> QED
    BY <2>1, <2>2 DEF OneKey
<1>5. ASSUME NEW e \in Events, Handle(e)
      PROVE  OneKey'
  <2>1. overlap' = overlap /\ pc[e] \notin {"new", "over"}
    BY <1>5 DEF Handle, TakeLock, ResolveConversation, Activate, Pick,
                PersistUser, PersistReply, StepFails, Fetch
  <2>2. \A f \in Events : f # e => pc'[f] = pc[f]
    BY <1>5, HandlerMoves
  <2>3. InFlight' \subseteq InFlight
    BY <2>1, <2>2 DEF InFlight
  <2> QED
    BY <2>1, <2>3 DEF OneKey
<1>6. ASSUME NEW d \in Live, Delete(d)
      PROVE  UNCHANGED <<pc, overlap>>
  BY <1>6 DEF Delete
<1> QED
  BY <1>2, <1>3, <1>4, <1>5, <1>6 DEF RoutingNext, routingVars

(* While no two keys met, one event at a time is past the mutexes.  *)
LEMMA Alone ==
  ASSUME HoldersHaveLock, OneKey, ~overlap, NEW e \in Events, NEW f \in Events,
         pc[e] \in Held, pc[f] \in Held
  PROVE  e = f
<1>1. e \in InFlight /\ f \in InFlight
  BY DEF InFlight, Held
<1> QED
  BY <1>1 DEF OneKey, HoldersHaveLock

(* Bindings and routes lead home.  *)
LEMMA HomesStay ==
  ASSUME RoutingTypeOK, BoundHome, RoutedHome, [RoutingNext]_routingVars
  PROVE  BoundHome' /\ RoutedHome'
<1> USE RoutingAssumption
<1>1. /\ sessions \in [Keys -> 0 .. Len(convs)]
      /\ routed \in [Events -> 0 .. Len(convs)] /\ pc \in [Events -> Places]
  BY TypeParts DEF ReferencesTyped, StatesTyped
<1>2. /\ Len(convs) \in Nat /\ DOMAIN convs = 1 .. Len(convs)
      /\ \A c \in DOMAIN convs : convs'[c].key = convs[c].key
  BY ConversationsGrow
<1>3. /\ \A k \in Keys : sessions[k] # 0 =>
           sessions[k] \in DOMAIN convs /\ convs[sessions[k]].key = k
      /\ \A e \in Events : pc[e] \in Resolved =>
           /\ routed[e] \in DOMAIN convs /\ convs[routed[e]].key = KeyOf[e]
           /\ sessions[KeyOf[e]] # 0
  BY <1>1, <1>2 DEF BoundHome, RoutedHome
<1>4. CASE UNCHANGED <<pc, sessions, routed>>
  BY <1>2, <1>3, <1>4 DEF BoundHome, RoutedHome
<1>5. CASE Restart
  <2>1. \A e \in Events : pc'[e] \notin Resolved
    BY <1>1, <1>5 DEF Restart, InFlight, Resolved, Places
  <2>2. \A k \in Keys : sessions'[k] = 0
    BY <1>5 DEF Restart
  <2> QED
    BY <2>1, <2>2 DEF BoundHome, RoutedHome
<1>6. ASSUME NEW e \in Events, Deliver(e) \/ Handle(e)
      PROVE  BoundHome' /\ RoutedHome'
  <2>1. /\ \A f \in Events : f # e => pc'[f] = pc[f]
        /\ KeyOf[e] \in Keys
    BY <1>6, HandlerMoves
  <2>2. CASE ResolveConversation(e)
    <3>1. CASE sessions[KeyOf[e]] # 0
      <4>1. sessions' = sessions /\ routed' = [routed EXCEPT ![e] = sessions[KeyOf[e]]]
        BY <2>2, <3>1 DEF ResolveConversation
      <4>2. \A f \in Events : routed'[f] = IF f = e THEN sessions[KeyOf[e]] ELSE routed[f]
        BY <1>1, <4>1
      <4>3. BoundHome'
        BY <1>2, <1>3, <4>1 DEF BoundHome
      <4>4. RoutedHome'
        BY <1>2, <1>3, <2>1, <3>1, <4>1, <4>2 DEF RoutedHome
      <4> QED
        BY <4>3, <4>4
    <3>2. CASE sessions[KeyOf[e]] = 0 /\ Create(e)
      <4> DEFINE n == Len(convs) + 1
      <4>1. /\ convs' = Append(convs, Fresh(KeyOf[e]))
            /\ sessions' = [sessions EXCEPT ![KeyOf[e]] = n]
            /\ routed' = [routed EXCEPT ![e] = n]
        BY <3>2 DEF Create, Fresh
      <4>2. convs'[n].key = KeyOf[e] /\ n # 0
        <5>1. convs'[n] = Fresh(KeyOf[e])
          BY <2>1, <4>1, IsOpened
        <5> QED
          BY <1>2, <5>1 DEF Fresh
      <4> HIDE DEF n
      <4>3. \A k \in Keys : sessions'[k] = IF k = KeyOf[e] THEN n ELSE sessions[k]
        BY <1>1, <4>1
      <4>4. \A f \in Events : routed'[f] = IF f = e THEN n ELSE routed[f]
        BY <1>1, <4>1
      <4>5. BoundHome'
        BY <1>2, <1>3, <4>2, <4>3 DEF BoundHome
      <4>6. RoutedHome'
        <5> SUFFICES ASSUME NEW f \in Events, pc'[f] \in Resolved
                     PROVE  /\ routed'[f] # 0 /\ convs'[routed'[f]].key = KeyOf[f]
                            /\ sessions'[KeyOf[f]] # 0
          BY DEF RoutedHome
        <5>1. CASE f = e
          BY <2>1, <4>2, <4>3, <4>4, <5>1
        <5>2. CASE f # e
          <6>1. /\ routed[f] \in DOMAIN convs /\ convs[routed[f]].key = KeyOf[f]
                /\ sessions[KeyOf[f]] # 0
            BY <1>3, <2>1, <5>2
          <6>2. routed[f] # 0
            BY <1>2, <6>1
          <6> QED
            BY <1>2, <4>2, <4>3, <4>4, <5>2, <6>1, <6>2
        <5> QED
          BY <5>1, <5>2
      <4> QED
        BY <4>5, <4>6
    <3>3. CASE sessions[KeyOf[e]] = 0 /\ ~Create(e)
      <4>1. UNCHANGED <<convs, sessions, routed>> /\ pc'[e] = "over"
        BY <1>1, <2>2, <3>3 DEF ResolveConversation, Finish, Goto
      <4> QED
        BY <2>1, <4>1 DEF BoundHome, RoutedHome, Resolved
    <3> QED
      BY <3>1, <3>2, <3>3
  <2>3. CASE ~ResolveConversation(e)
    <3>1. UNCHANGED <<sessions, routed>>
      BY <1>6, <2>3 DEF Deliver, Handle, TakeLock, Activate, Pick, PersistUser,
                        PersistReply, StepFails, Fetch
    <3>2. pc'[e] \in Resolved => pc[e] \in Resolved
      BY <1>1, <1>6, <2>3 DEF Deliver, Handle, TakeLock, Activate, Pick,
           PersistUser, PersistReply, StepFails, Fetch, Finish, Goto, Resolved
    <3> QED
      BY <1>2, <1>3, <2>1, <3>1, <3>2 DEF BoundHome, RoutedHome
  <2> QED
    BY <2>2, <2>3
<1>7. ASSUME NEW d \in Live, Delete(d)
      PROVE  UNCHANGED <<pc, sessions, routed>>
  BY <1>7 DEF Delete
<1> QED
  BY <1>4, <1>5, <1>6, <1>7 DEF RoutingNext, routingVars

(* The log that was written to, entry by entry.  *)
LEMMA Logged ==
  ASSUME RoutingTypeOK, NEW e \in Events, NEW role \in {"user", "assistant"},
         Persist(e, role)
  PROVE  LET old == convs[picked[e]].log
             now == convs'[picked[e]].log
         IN  /\ Len(old) \in Nat /\ DOMAIN old = 1 .. Len(old)
             /\ DOMAIN now = 1 .. Len(old) + 1 /\ Len(now) = Len(old) + 1
             /\ \A i \in DOMAIN old : now[i] = old[i]
             /\ now[Len(old) + 1] = Said(role, e)
             /\ now # <<>> /\ (old # <<>> => Len(old) > 0)
<1> DEFINE old == convs[picked[e]].log
           now == convs'[picked[e]].log
<1>1. old \in Seq(Entries) /\ now = Append(old, Said(role, e))
  BY Persisted
<1>2. Said(role, e) \in Entries
  BY DEF Said, Entries
<1> HIDE DEF old, now
<1>3. /\ now \in Seq(Entries) /\ Len(now) = Len(old) + 1
      /\ \A i \in 1 .. Len(old) : now[i] = old[i]
      /\ now[Len(old) + 1] = Said(role, e) /\ Len(old) \in Nat
  BY <1>1, <1>2, AppendProperties
<1>4. DOMAIN old = 1 .. Len(old) /\ DOMAIN now = 1 .. Len(now)
  BY <1>1, <1>3
<1>5. now # <<>>
  BY <1>3
<1>6. old # <<>> => Len(old) > 0
  BY <1>1, <1>3, EmptySeq
<1> QED
  BY <1>3, <1>4, <1>5, <1>6 DEF old, now

(* Two keys that overlapped once have overlapped for good. *)
LEMMA OverlapStays ==
  ASSUME [RoutingNext]_routingVars, overlap
  PROVE  overlap'
BY DEF RoutingNext, routingVars, Deliver, Handle, TakeLock, ResolveConversation,
       Activate, Pick, PersistUser, PersistReply, StepFails, Fetch, Delete, Restart

(* The one turn under way stays with the conversation it was routed to.  *)
LEMMA TurnStaysHome ==
  ASSUME RoutingTypeOK, HoldersHaveLock, OneKey, TurnHome,
         [RoutingNext]_routingVars
  PROVE  TurnHome'
<1> USE RoutingAssumption
<1> DEFINE At(f) ==
      /\ pc[f] = "pick" => activeID = routed[f]
      /\ pc[f] \in {"persist", "think", "fetch"} =>
           /\ picked[f] \in DOMAIN convs
           /\ picked[f] = routed[f] \/ routed[f] \notin Live
      /\ pc[f] = "think" => EndsWith(picked[f], Said("user", f))
      /\ pc[f] = "fetch" => EndsWith(picked[f], Said("assistant", f))
<1>1. SUFFICES ASSUME ~overlap, ~overlap', NEW f \in Events
               PROVE  At(f)'
  BY OverlapStays DEF TurnHome
<1>2. At(f)
  BY <1>1 DEF TurnHome
<1>3. /\ routed \in [Events -> 0 .. Len(convs)]
      /\ picked \in [Events -> 0 .. Len(convs)] /\ pc \in [Events -> Places]
      /\ recent \in Seq(DOMAIN convs)
  BY TypeParts DEF ReferencesTyped, StatesTyped, OrderTyped
<1>4. /\ Len(convs) \in Nat /\ DOMAIN convs = 1 .. Len(convs)
      /\ DOMAIN convs' = 1 .. Len(convs') /\ Len(convs') \in Nat
      /\ Len(convs) <= Len(convs')
  BY ConversationsGrow
<1> DEFINE Turning == {"pick", "persist", "think", "fetch"}
<1>5. CASE pc'[f] \notin Turning
  BY <1>5
<1>6. CASE pc'[f] \in Turning /\ pc'[f] = pc[f]
            /\ UNCHANGED <<convs, activeID, routed, picked>>
  <2>1. Live' = Live
    BY <1>6 DEF Live
  <2> QED
    BY <1>2, <1>6, <2>1 DEF EndsWith, Said
<1>7. CASE Restart
  BY <1>3, <1>5, <1>7 DEF Restart, InFlight, Places
<1>8. ASSUME NEW d \in Live, Delete(d)
      PROVE  At(f)'
  <2>1. UNCHANGED <<pc, activeID, routed, picked>>
    BY <1>8 DEF Delete
  <2>2. /\ DOMAIN convs' = DOMAIN convs /\ Live' = Live \ {d}
        /\ \A c \in DOMAIN convs : c # d => convs'[c] = convs[c]
    BY <1>8, Deleted
  <2>3. \A entry : \A c \in DOMAIN convs : EndsWith(c, entry) =>
          (c \in Live' => /\ convs'[c].log # <<>>
                          /\ convs'[c].log[Len(convs'[c].log)] = entry)
    BY <2>2 DEF EndsWith
  <2> QED
    BY <1>2, <2>1, <2>2, <2>3 DEF EndsWith, Said
<1>9. ASSUME NEW e \in Events, Deliver(e) \/ TakeLock(e)
      PROVE  At(f)'
  <2>1. pc'[e] \notin Turning /\ (f # e => pc'[f] = pc[f])
        /\ UNCHANGED <<convs, activeID, routed, picked>>
    BY <1>3, <1>9 DEF Deliver, TakeLock, Goto
  <2> HIDE DEF At, Turning
  <2> QED
    BY <1>5, <1>6, <2>1
<1>10. ASSUME NEW e \in Events, Handle(e), ~TakeLock(e)
       PROVE  At(f)'
  <2>1. pc[e] \in Held
    BY <1>10 DEF Handle, ResolveConversation, Activate, Pick, PersistUser,
                 PersistReply, StepFails, Fetch, Held
  <2>2. CASE f # e
    <3>1. pc'[f] = pc[f]
      BY <1>10, <2>2, HandlerMoves
    <3>2. pc[f] \notin Held
      BY <1>1, <2>1, <2>2, Alone
    <3> QED
      BY <1>5, <3>1, <3>2 DEF Held
  <2>3. CASE f = e /\ ResolveConversation(e)
    BY <1>3, <1>5, <2>3 DEF ResolveConversation, Goto, Finish
  <2>4. CASE f = e /\ Activate(e)
    BY <1>3, <2>4 DEF Activate, Goto
  <2>5. CASE f = e /\ Pick(e)
    <3>1. pc'[e] = "persist" /\ routed' = routed /\ activeID = routed[e]
      BY <1>2, <1>3, <2>5 DEF Pick, Goto
    <3>2. CASE activeID \in Live
      <4>1. picked'[e] = activeID /\ convs' = convs
        BY <1>3, <2>5, <3>2 DEF Pick
      <4>2. activeID \in DOMAIN convs
        BY <3>2 DEF Live
      <4> QED
        BY <2>5, <3>1, <4>1, <4>2
    <3>3. CASE activeID \notin Live /\ recent # <<>>
      <4>1. picked'[e] = recent[Len(recent)] /\ convs' = convs
        BY <1>3, <2>5, <3>3 DEF Pick
      <4>2. recent[Len(recent)] \in DOMAIN convs
        BY <1>3, <3>3
      <4>3. routed'[e] \notin Live'
        BY <3>1, <3>3, <4>1 DEF Live
      <4> QED
        BY <2>5, <3>1, <4>1, <4>2, <4>3
    <3>4. CASE activeID \notin Live /\ recent = <<>>
      <4>1. convs' = Append(convs, Fresh(KeyOf[e])) /\ picked'[e] = Len(convs) + 1
        BY <1>3, <2>5, <3>4 DEF Pick, Fresh
      <4>2. /\ DOMAIN convs' = 1 .. Len(convs) + 1
            /\ Live' = Live \union {Len(convs) + 1}
        BY <4>1, IsOpened
      <4>3. picked'[e] \in DOMAIN convs'
        BY <1>4, <4>1, <4>2
      <4>4. routed'[e] \notin Live'
        BY <1>3, <1>4, <3>1, <3>4, <4>2
      <4> QED
        BY <2>5, <3>1, <4>3, <4>4
    <3> QED
      BY <3>2, <3>3, <3>4
  <2>6. ASSUME f = e, NEW role \in {"user", "assistant"}, Persist(e, role),
               UNCHANGED <<routed, picked>>, pc[e] \in {"persist", "think"},
               pc'[e] = IF role = "user" THEN "think" ELSE "fetch"
        PROVE  At(f)'
    <3>1. /\ DOMAIN convs' = DOMAIN convs /\ Live' = Live
          /\ picked[e] \in DOMAIN convs
      BY <2>6, Persisted
    <3>2. /\ convs'[picked[e]].log # <<>>
          /\ Len(convs'[picked[e]].log) = Len(convs[picked[e]].log) + 1
          /\ convs'[picked[e]].log[Len(convs[picked[e]].log) + 1] = Said(role, e)
      BY <2>6, Logged
    <3>3. EndsWith(picked[e], Said(role, e))'
      BY <2>6, <3>2 DEF EndsWith, Said
    <3>4. picked[e] = routed[e] \/ routed[e] \notin Live
      BY <1>2, <2>6
    <3> QED
      BY <2>6, <3>1, <3>3, <3>4
  <2>7. CASE f = e /\ PersistUser(e)
    <3>1. pc'[e] = "think"
      BY <1>3, <2>7 DEF PersistUser, Goto
    <3> HIDE DEF At
    <3> QED
      BY <2>6, <2>7, <3>1 DEF PersistUser
  <2>8. CASE f = e /\ PersistReply(e)
    <3>1. pc'[e] = "fetch"
      BY <1>3, <2>8 DEF PersistReply, Goto
    <3> HIDE DEF At
    <3> QED
      BY <2>6, <2>8, <3>1 DEF PersistReply
  <2>9. CASE f = e /\ (StepFails(e) \/ Fetch(e))
    BY <1>3, <1>5, <2>9 DEF StepFails, Fetch, Finish, Goto
  <2> HIDE DEF At
  <2> QED
    BY <1>10, <2>2, <2>3, <2>4, <2>5, <2>7, <2>8, <2>9 DEF Handle
<1>11. CASE UNCHANGED routingVars
  <2> HIDE DEF At
  <2> QED
    BY <1>5, <1>6, <1>11 DEF routingVars
<1> HIDE DEF At
<1> QED
  BY <1>7, <1>8, <1>9, <1>10, <1>11 DEF RoutingNext

-----------------------------------------------------------------------------
(* A daemon's run adds one conversation to a key at most.  *)
LEMMA FewStay ==
  ASSUME RoutingTypeOK, RoutedHome, RecentKnows, FewPerKey,
         [RoutingNext]_routingVars
  PROVE  FewPerKey'
<1> USE RoutingAssumption
<1> DEFINE Room(k) == restarts + (IF sessions[k] # 0 THEN 1 ELSE 0)
<1>1. /\ sessions \in [Keys -> 0 .. Len(convs)] /\ restarts \in Nat
      /\ recent \in Seq(DOMAIN convs)
  BY TypeParts DEF ReferencesTyped, StatesTyped, OrderTyped
<1>2. /\ Len(convs) \in Nat /\ DOMAIN convs = 1 .. Len(convs)
      /\ \A c \in DOMAIN convs : convs'[c].key = convs[c].key
  BY ConversationsGrow
<1>3. \A k \in Keys : /\ IsFiniteSet(LiveOf(k)) /\ Cardinality(LiveOf(k)) \in Nat
                      /\ Cardinality(LiveOf(k)) <= Room(k)
                      /\ LiveOf(k) \subseteq DOMAIN convs
  <2> TAKE k \in Keys
  <2>1. IsFiniteSet(DOMAIN convs)
    BY <1>2, FS_Interval
  <2>2. LiveOf(k) \subseteq DOMAIN convs
    BY DEF LiveOf, Live
  <2>3. IsFiniteSet(LiveOf(k))
    BY <2>1, <2>2, FS_Subset
  <2>4. Cardinality(LiveOf(k)) \in Nat
    BY <2>3, FS_CardinalityType
  <2> QED
    BY <2>2, <2>3, <2>4 DEF FewPerKey
<1>4. ASSUME NEW k \in Keys, LiveOf(k)' \subseteq LiveOf(k)
      PROVE  Cardinality(LiveOf(k)') <= Room(k)
  <2>1. /\ Cardinality(LiveOf(k)') <= Cardinality(LiveOf(k))
        /\ IsFiniteSet(LiveOf(k)')
    BY <1>3, <1>4, FS_Subset
  <2>2. Cardinality(LiveOf(k)') \in Nat
    BY <2>1, FS_CardinalityType
  <2> HIDE DEF Room
  <2>3. Room(k) \in Nat
    BY <1>1 DEF Room
  <2> QED
    BY <1>3, <2>1, <2>2, <2>3
<1>5. ASSUME Live' \subseteq Live, UNCHANGED <<sessions, restarts>>
      PROVE  FewPerKey'
  <2>1. \A k \in Keys : LiveOf(k)' \subseteq LiveOf(k)
    BY <1>2, <1>5 DEF LiveOf, Live
  <2> QED
    BY <1>4, <1>5, <2>1 DEF FewPerKey
<1>6. CASE UNCHANGED <<convs, sessions, restarts>>
  BY <1>5, <1>6 DEF Live
<1>7. CASE Restart
  <2>1. \A k \in Keys : LiveOf(k)' \subseteq LiveOf(k)
    BY <1>7 DEF Restart, LiveOf, Live
  <2>2. \A k \in Keys : sessions'[k] = 0 /\ restarts' = restarts + 1
    BY <1>7 DEF Restart
  <2>3. \A k \in Keys : Cardinality(LiveOf(k)') \in Nat
    BY <1>3, <2>1, FS_Subset, FS_CardinalityType
  <2>4. \A k \in Keys : Cardinality(LiveOf(k)') <= restarts + 1
    <3>1. \A k \in Keys : Cardinality(LiveOf(k)') <= Room(k)
      BY <1>4, <2>1
    <3>2. \A k \in Keys : Room(k) \in Nat /\ Room(k) <= restarts + 1
      BY <1>1
    <3> HIDE DEF Room
    <3> QED
      BY <1>1, <2>3, <3>1, <3>2
  <2> QED
    BY <1>1, <2>2, <2>3, <2>4 DEF FewPerKey
<1>8. ASSUME NEW d \in Live, Delete(d)
      PROVE  FewPerKey'
  <2>1. Live' = Live \ {d} /\ UNCHANGED <<sessions, restarts>>
    BY <1>8, Deleted DEF Delete
  <2> QED
    BY <1>5, <2>1
<1>9. ASSUME NEW e \in Events, convs' = Append(convs, Fresh(KeyOf[e])),
             restarts' = restarts
      PROVE  /\ \A k \in Keys : k # KeyOf[e] => LiveOf(k)' = LiveOf(k)
             /\ LiveOf(KeyOf[e])' = LiveOf(KeyOf[e]) \union {Len(convs) + 1}
             /\ KeyOf[e] \in Keys /\ Len(convs) + 1 \notin Live
  <2> DEFINE n == Len(convs) + 1
  <2>1. KeyOf[e] \in Keys
    OBVIOUS
  <2>2. /\ Live' = Live \union {n} /\ convs'[n] = Fresh(KeyOf[e])
        /\ \A c \in DOMAIN convs : convs'[c] = convs[c]
    BY <1>9, <2>1, IsOpened
  <2>3. n \notin DOMAIN convs
    BY <1>2
  <2> HIDE DEF n
  <2>4. convs'[n].key = KeyOf[e] /\ n \notin Live
    BY <2>2, <2>3 DEF Fresh, Live
  <2>5. \A c \in Live : convs'[c].key = convs[c].key
    BY <1>2 DEF Live
  <2>6. \A k : LiveOf(k)' = {c \in Live' : convs'[c].key = k}
    BY DEF LiveOf
  <2>7. \A k : k # KeyOf[e] => LiveOf(k)' = LiveOf(k)
    BY <2>2, <2>4, <2>5, <2>6 DEF LiveOf
  <2>8. LiveOf(KeyOf[e])' = LiveOf(KeyOf[e]) \union {n}
    BY <2>2, <2>4, <2>5, <2>6 DEF LiveOf
  <2> QED
    BY <2>1, <2>4, <2>7, <2>8 DEF n
<1>10. ASSUME NEW e \in Events, ResolveConversation(e)
       PROVE  FewPerKey'
  <2>1. CASE convs' = convs
    <3>1. sessions' = sessions /\ restarts' = restarts
      <4>1. ~Create(e)
        <5>1. Create(e) => convs' = Append(convs, Fresh(KeyOf[e]))
          BY DEF Create, Fresh
        <5>2. Create(e) => Len(convs') = Len(convs) + 1
          BY <5>1, IsOpened
        <5>3. Len(convs) \in Nat
          BY <1>2
        <5>4. Len(convs) # Len(convs) + 1
          BY <5>3
        <5> QED
          BY <2>1, <5>2, <5>4
      <4> QED
        BY <1>10, <4>1 DEF ResolveConversation
    <3> QED
      BY <1>6, <2>1, <3>1
  <2>2. CASE convs' # convs
    <3> DEFINE K == KeyOf[e]
               n == Len(convs) + 1
    <3>1. /\ convs' = Append(convs, Fresh(K)) /\ restarts' = restarts
          /\ sessions[K] = 0 /\ sessions' = [sessions EXCEPT ![K] = n]
      BY <1>10, <2>2 DEF ResolveConversation, Create, Fresh
    <3>2. /\ \A k \in Keys : k # K => LiveOf(k)' = LiveOf(k)
          /\ LiveOf(K)' = LiveOf(K) \union {n} /\ n \notin LiveOf(K)
          /\ K \in Keys /\ n # 0
      <4>1. /\ \A k \in Keys : k # K => LiveOf(k)' = LiveOf(k)
            /\ LiveOf(K)' = LiveOf(K) \union {n} /\ K \in Keys /\ n \notin Live
        BY <1>9, <3>1
      <4>2. n # 0
        BY <1>2
      <4> QED
        BY <4>1, <4>2 DEF LiveOf
    <3> HIDE DEF n, K
    <3>3. \A k \in Keys : sessions'[k] = IF k = K THEN n ELSE sessions[k]
      BY <1>1, <3>1
    <3>4. Cardinality(LiveOf(K)') = Cardinality(LiveOf(K)) + 1
      BY <1>3, <3>2, FS_AddElement
    <3>5. Cardinality(LiveOf(K)') <= restarts + 1
      BY <1>1, <1>3, <3>1, <3>2, <3>4
    <3> QED
      BY <1>1, <1>3, <3>1, <3>2, <3>3, <3>5 DEF FewPerKey
  <2> QED
    BY <2>1, <2>2
<1>11. ASSUME NEW e \in Events, Pick(e)
       PROVE  FewPerKey'
  <2>1. CASE convs' = convs
    BY <1>6, <1>11, <2>1 DEF Pick
  <2>2. CASE convs' # convs
    <3> DEFINE K == KeyOf[e]
               n == Len(convs) + 1
    <3>1. /\ convs' = Append(convs, Fresh(K)) /\ UNCHANGED <<sessions, restarts>>
          /\ recent = <<>> /\ pc[e] = "pick"
      BY <1>11, <2>2 DEF Pick, Fresh
    <3>2. /\ \A k \in Keys : k # K => LiveOf(k)' = LiveOf(k)
          /\ LiveOf(K)' = LiveOf(K) \union {n} /\ K \in Keys
      BY <1>9, <3>1
    <3>3. Live = {}
      BY <3>1 DEF RecentKnows, ToSet
    <3>4. sessions[K] # 0
      BY <3>1 DEF RoutedHome, Resolved
    <3> HIDE DEF n, K
    <3>5. Cardinality(LiveOf(K)') = 1
      <4>1. LiveOf(K)' = {n}
        <5>1. LiveOf(K) = {}
          BY <3>3 DEF LiveOf
        <5> QED
          BY <3>2, <5>1
      <4> QED
        BY <4>1, FS_Singleton
    <3>6. \A k \in Keys : Cardinality(LiveOf(k)') <= Room(k)
      <4>1. Room(K) >= 1 /\ 1 <= Room(K)
        BY <1>1, <3>4
      <4> HIDE DEF Room
      <4> QED
        BY <1>3, <3>2, <3>5, <4>1
    <3> QED
      BY <3>1, <3>6 DEF FewPerKey
  <2> QED
    BY <2>1, <2>2
<1>12. ASSUME NEW e \in Events, PersistUser(e) \/ PersistReply(e)
       PROVE  FewPerKey'
  <2>1. Live' = Live
    BY <1>12, Persisted DEF PersistUser, PersistReply
  <2> QED
    BY <1>5, <1>12, <2>1 DEF PersistUser, PersistReply
<1>13. ASSUME NEW e \in Events,
              Deliver(e) \/ TakeLock(e) \/ Activate(e) \/ StepFails(e) \/ Fetch(e)
       PROVE  UNCHANGED <<convs, sessions, restarts>>
  BY <1>13 DEF Deliver, TakeLock, Activate, StepFails, Fetch
<1>14. UNCHANGED routingVars => UNCHANGED <<convs, sessions, restarts>>
  BY DEF routingVars
<1> QED
  BY <1>6, <1>7, <1>8, <1>10, <1>11, <1>12, <1>13, <1>14 DEF RoutingNext, Handle

-----------------------------------------------------------------------------
(* One key at a time and nothing deleted: histories stay apart.  *)
LEMMA IsolationStays ==
  ASSUME RoutingTypeOK, RoutedHome, TurnHome, IsolatedOneKeyAtATime,
         [RoutingNext]_routingVars
  PROVE  IsolatedOneKeyAtATime'
<1> USE RoutingAssumption
<1>1. SUFFICES ASSUME ~overlap, ~overlap', NothingDeleted'
               PROVE  HistoriesIsolated'
  BY OverlapStays DEF IsolatedOneKeyAtATime
<1>2. /\ Len(convs) \in Nat /\ Len(convs') \in Nat /\ Len(convs) <= Len(convs')
      /\ DOMAIN convs = 1 .. Len(convs) /\ DOMAIN convs' = 1 .. Len(convs')
      /\ \A c \in DOMAIN convs : /\ convs'[c].key = convs[c].key
                                 /\ c \in Live' => c \in Live
  BY ConversationsGrow
<1>3. NothingDeleted
  <2>1. DOMAIN convs \subseteq DOMAIN convs'
    BY <1>2
  <2>2. DOMAIN convs \subseteq Live
    BY <1>1, <1>2, <2>1 DEF NothingDeleted
  <2> QED
    BY <2>2 DEF NothingDeleted, Live
<1>4. HistoriesIsolated
  BY <1>1, <1>3 DEF IsolatedOneKeyAtATime
<1>5. CASE convs' = convs
  BY <1>4, <1>5 DEF HistoriesIsolated, Live
<1>6. ASSUME NEW k \in Keys, convs' = Append(convs, Fresh(k))
      PROVE  HistoriesIsolated'
  <2>1. /\ Live' = Live \union {Len(convs) + 1}
        /\ \A c \in DOMAIN convs : convs'[c] = convs[c]
        /\ convs'[Len(convs) + 1] = Fresh(k)
    BY <1>6, IsOpened
  <2>2. \A c \in Live : convs'[c] = convs[c]
    BY <2>1 DEF Live
  <2>3. DOMAIN convs'[Len(convs) + 1].log = {}
    BY <2>1 DEF Fresh
  <2> QED
    BY <1>4, <2>1, <2>2, <2>3 DEF HistoriesIsolated
<1>7. ASSUME NEW e \in Events, PersistUser(e) \/ PersistReply(e)
      PROVE  HistoriesIsolated'
  <2> DEFINE p == picked[e]
  <2>1. PICK role \in {"user", "assistant"} : Persist(e, role)
    BY <1>7 DEF PersistUser, PersistReply
  <2>2. pc[e] \in {"persist", "think"}
    BY <1>7 DEF PersistUser, PersistReply
  <2>3. /\ p \in Live /\ Live' = Live
        /\ \A c \in DOMAIN convs : c # p => convs'[c] = convs[c]
    BY <2>1, Persisted
  <2>4. /\ DOMAIN convs'[p].log = DOMAIN convs[p].log \union {Len(convs[p].log) + 1}
        /\ \A i \in DOMAIN convs[p].log : convs'[p].log[i] = convs[p].log[i]
        /\ convs'[p].log[Len(convs[p].log) + 1] = Said(role, e)
    <3>1. /\ Len(convs[p].log) \in Nat /\ DOMAIN convs[p].log = 1 .. Len(convs[p].log)
          /\ DOMAIN convs'[p].log = 1 .. Len(convs[p].log) + 1
          /\ \A i \in DOMAIN convs[p].log : convs'[p].log[i] = convs[p].log[i]
          /\ convs'[p].log[Len(convs[p].log) + 1] = Said(role, e)
      BY <2>1, Logged
    <3> HIDE DEF p
    <3> QED
      BY <3>1
  <2>5. convs[p].key = KeyOf[e]
    <3>1. convs[routed[e]].key = KeyOf[e] /\ routed[e] \in DOMAIN convs
      <4>1. routed[e] \in 0 .. Len(convs)
        BY TypeParts DEF ReferencesTyped
      <4> QED
        BY <1>2, <2>2, <4>1 DEF RoutedHome, Resolved
    <3>2. p = routed[e]
      BY <1>1, <1>3, <2>2, <3>1 DEF TurnHome, NothingDeleted
    <3> QED
      BY <3>1, <3>2
  <2>6. convs'[p].key = KeyOf[e]
    BY <1>2, <2>3, <2>5 DEF Live
  <2> HIDE DEF p
  <2>7. ASSUME NEW i \in DOMAIN convs'[p].log
        PROVE  KeyOf[convs'[p].log[i].event] = KeyOf[e]
    <3>1. CASE i \in DOMAIN convs[p].log
      BY <1>4, <2>3, <2>4, <2>5, <3>1 DEF HistoriesIsolated
    <3>2. CASE i = Len(convs[p].log) + 1
      BY <2>4, <3>2 DEF Said
    <3> QED
      BY <2>4, <3>1, <3>2
  <2>8. ASSUME NEW c \in Live, c # p
        PROVE  convs'[c] = convs[c]
    BY <2>3, <2>8 DEF Live
  <2> QED
    BY <1>4, <2>3, <2>6, <2>7, <2>8 DEF HistoriesIsolated
<1>8. ASSUME NEW d \in Live, Delete(d)
      PROVE  FALSE
  <2>1. /\ DOMAIN convs' = DOMAIN convs /\ Live' = Live \ {d} /\ d \in DOMAIN convs
    BY <1>8, Deleted
  <2> QED
    BY <1>1, <2>1 DEF NothingDeleted
<1>9. ASSUME NEW e \in Events, ResolveConversation(e) \/ Pick(e)
      PROVE  convs' = convs \/ \E k \in Keys : convs' = Append(convs, Fresh(k))
  BY <1>9 DEF ResolveConversation, Create, Pick, Fresh
<1>10. ASSUME NEW e \in Events,
              Deliver(e) \/ TakeLock(e) \/ Activate(e) \/ StepFails(e) \/ Fetch(e)
       PROVE  convs' = convs
  BY <1>10 DEF Deliver, TakeLock, Activate, StepFails, Fetch
<1>11. Restart \/ UNCHANGED routingVars => convs' = convs
  BY DEF Restart, routingVars
<1> QED
  BY <1>5, <1>6, <1>7, <1>8, <1>9, <1>10, <1>11 DEF RoutingNext, Handle

(* One key at a time: replies stand behind their messages, and what is      *)
(* delivered for an event is its own reply.                                 *)
LEMMA RepliesStay ==
  ASSUME RoutingTypeOK, TurnHome, RepliesMatchMessages,
         [RoutingNext]_routingVars
  PROVE  RepliesMatchMessages'
<1> USE RoutingAssumption
<1> DEFINE Matched(log) ==
      \A i \in DOMAIN log : log[i].role = "assistant" =>
        i > 1 /\ log[i - 1] = Said("user", log[i].event)
<1>1. SUFFICES ASSUME ~overlap, ~overlap'
               PROVE  /\ \A c \in Live' : Matched(convs'[c].log)
                      /\ \A e \in Events : sent'[e] \in {e, None}
  BY OverlapStays DEF RepliesMatchMessages, TurnsNotInterleaved, ReplyIsOwn, Said
<1>2. /\ \A c \in Live : Matched(convs[c].log)
      /\ \A e \in Events : sent[e] \in {e, None}
  BY <1>1 DEF RepliesMatchMessages, TurnsNotInterleaved, ReplyIsOwn, Said
<1>3. ASSUME Live' \subseteq Live, \A c \in Live' : convs'[c] = convs[c]
      PROVE  \A c \in Live' : Matched(convs'[c].log)
  BY <1>2, <1>3
<1> HIDE DEF Matched
<1>4. CASE UNCHANGED <<convs, sent>>
  BY <1>2, <1>3, <1>4 DEF Live
<1>5. ASSUME NEW k \in Keys, convs' = Append(convs, Fresh(k))
      PROVE  \A c \in Live' : Matched(convs'[c].log)
  <2>1. /\ Live' = Live \union {Len(convs) + 1}
        /\ \A c \in DOMAIN convs : convs'[c] = convs[c]
        /\ convs'[Len(convs) + 1] = Fresh(k)
    BY <1>5, IsOpened
  <2>2. Matched(convs'[Len(convs) + 1].log)
    <3>1. DOMAIN convs'[Len(convs) + 1].log = {}
      BY <2>1 DEF Fresh
    <3> QED
      BY <3>1 DEF Matched
  <2>3. \A c \in Live : Matched(convs'[c].log)
    BY <1>2, <2>1 DEF Live
  <2> QED
    BY <2>1, <2>2, <2>3
<1>6. ASSUME NEW e \in Events, NEW role \in {"user", "assistant"},
             Persist(e, role), role = "assistant" => pc[e] = "think"
      PROVE  \A c \in Live' : Matched(convs'[c].log)
  <2> DEFINE p == picked[e]
             L == Len(convs[p].log)
  <2>1. /\ p \in Live /\ Live' = Live
        /\ \A c \in DOMAIN convs : c # p => convs'[c] = convs[c]
    BY <1>6, Persisted
  <2>2. /\ L \in Nat /\ DOMAIN convs[p].log = 1 .. L
        /\ DOMAIN convs'[p].log = 1 .. L + 1
        /\ \A i \in 1 .. L : convs'[p].log[i] = convs[p].log[i]
        /\ convs'[p].log[L + 1] = Said(role, e)
        /\ convs[p].log # <<>> => L > 0
    BY <1>6, Logged
  <2>3. role = "assistant" =>
          L > 0 /\ convs[p].log[L] = Said("user", e)
    BY <1>1, <1>6, <2>1, <2>2 DEF TurnHome, EndsWith
  <2> HIDE DEF p, L
  <2>4. \A i \in 1 .. L : convs[p].log[i].role = "assistant" =>
          i > 1 /\ convs[p].log[i - 1] = Said("user", convs[p].log[i].event)
    BY <1>2, <2>1, <2>2 DEF Matched
  <2>5. ASSUME NEW i \in 1 .. L + 1, convs'[p].log[i].role = "assistant"
        PROVE  i > 1 /\ convs'[p].log[i - 1] = Said("user", convs'[p].log[i].event)
    <3>1. CASE i \in 1 .. L
      <4>1. i > 1 /\ convs[p].log[i - 1] = Said("user", convs[p].log[i].event)
        BY <2>2, <2>4, <2>5, <3>1
      <4>2. i - 1 \in 1 .. L
        BY <2>2, <3>1, <4>1
      <4> QED
        BY <2>2, <3>1, <4>1, <4>2
    <3>2. CASE i = L + 1
      <4>1. role = "assistant" /\ convs'[p].log[i].event = e
        BY <2>2, <2>5, <3>2 DEF Said
      <4>2. L \in 1 .. L /\ i - 1 = L
        BY <2>2, <2>3, <3>2, <4>1
      <4> QED
        BY <2>2, <2>3, <3>2, <4>1, <4>2
    <3> QED
      BY <2>2, <3>1, <3>2
  <2>6. Matched(convs'[p].log)
    BY <2>2, <2>5 DEF Matched
  <2>7. ASSUME NEW c \in Live, c # p
        PROVE  Matched(convs'[c].log)
    <3>1. convs'[c] = convs[c]
      BY <2>1, <2>7 DEF Live
    <3> QED
      BY <1>2, <3>1
  <2> QED
    BY <2>1, <2>6, <2>7
<1>7. ASSUME NEW d \in Live, Delete(d)
      PROVE  /\ \A c \in Live' : Matched(convs'[c].log)
             /\ sent' = sent
  <2>1. /\ Live' = Live \ {d}
        /\ \A c \in DOMAIN convs : c # d => convs'[c] = convs[c]
    BY <1>7, Deleted
  <2>2. \A c \in Live' : convs'[c] = convs[c]
    BY <2>1 DEF Live
  <2>3. sent' = sent
    BY <1>7 DEF Delete
  <2> QED
    BY <1>3, <2>1, <2>2, <2>3
<1>8. ASSUME NEW e \in Events, Fetch(e)
      PROVE  convs' = convs /\ \A f \in Events : sent'[f] \in {f, None}
  <2> DEFINE c == routed[e]
             log == IF c \in Live THEN convs[c].log ELSE <<>>
             reply == IF log # <<>> /\ log[Len(log)].role = "assistant"
                      THEN log[Len(log)].event ELSE None
  <2>1. /\ sent' = [sent EXCEPT ![e] = reply] /\ convs' = convs
        /\ pc[e] = "fetch"
    BY <1>8 DEF Fetch
  <2>2. reply \in {e, None}
    <3>1. CASE c \in Live
      <4>1. convs[c].log[Len(convs[c].log)] = Said("assistant", e)
        BY <1>1, <2>1, <3>1 DEF TurnHome, EndsWith
      <4> QED
        BY <3>1, <4>1 DEF Said
    <3>2. CASE c \notin Live
      BY <3>2
    <3> QED
      BY <3>1, <3>2
  <2> HIDE DEF reply
  <2>3. sent \in [Events -> Events \union {None}]
    BY TypeParts DEF StatesTyped
  <2> QED
    BY <1>2, <2>1, <2>2, <2>3
<1>9. ASSUME NEW e \in Events, ResolveConversation(e) \/ Pick(e)
      PROVE  /\ convs' = convs \/ \E k \in Keys : convs' = Append(convs, Fresh(k))
             /\ sent' = sent
  BY <1>9 DEF ResolveConversation, Create, Pick, Fresh
<1>10. ASSUME NEW e \in Events, PersistUser(e) \/ PersistReply(e)
       PROVE  /\ \A c \in Live' : Matched(convs'[c].log)
              /\ sent' = sent
  BY <1>6, <1>10 DEF PersistUser, PersistReply
<1>11. ASSUME NEW e \in Events,
              Deliver(e) \/ TakeLock(e) \/ Activate(e) \/ StepFails(e)
       PROVE  UNCHANGED <<convs, sent>>
  BY <1>11 DEF Deliver, TakeLock, Activate, StepFails
<1>12. Restart \/ UNCHANGED routingVars => UNCHANGED <<convs, sent>>
  BY DEF Restart, routingVars
<1>13. convs' = convs => \A c \in Live' : Matched(convs'[c].log)
  BY <1>3 DEF Live
<1> QED
  BY <1>2, <1>4, <1>5, <1>7, <1>8, <1>9, <1>10, <1>11, <1>12, <1>13
     DEF RoutingNext, Handle

-----------------------------------------------------------------------------
(* At first there is no conversation and no event is in flight. *)
LEMMA RoutingStarts ==
  ASSUME RoutingInit
  PROVE  RoutingInv
<1> USE RoutingAssumption DEF RoutingInit
<1>1. DOMAIN convs = {} /\ Live = {} /\ Len(convs) = 0
  BY DEF Live
<1>2. RoutingTypeOK
  <2>1. convs \in Seq(Conversations) /\ recent \in Seq(DOMAIN convs)
    OBVIOUS
  <2>2. StatesTyped
    <3>1. 0 \in 0 .. MaxMishaps /\ FALSE \in BOOLEAN
      OBVIOUS
    <3>2. pc \in [Events -> Places] /\ lock \in [Keys -> Events \union {None}]
          /\ sent \in [Events -> Events \union {None}]
      BY DEF Places
    <3> QED
      BY <3>1, <3>2 DEF StatesTyped
  <2>3. ReferencesTyped
    BY <1>1 DEF ReferencesTyped
  <2>4. OrderTyped
    BY <2>1 DEF OrderTyped
  <2> QED
    BY <2>1, <2>2, <2>3, <2>4, TypeParts
<1>3. HoldersHaveLock /\ OneKey /\ BoundHome /\ RoutedHome /\ TurnHome
  BY DEF HoldersHaveLock, OneKey, InFlight, BoundHome, RoutedHome, TurnHome,
         Held, Resolved
<1>4. RecentKnows /\ IsolatedOneKeyAtATime /\ RepliesMatchMessages
  BY <1>1 DEF RecentKnows, IsolatedOneKeyAtATime, HistoriesIsolated,
              RepliesMatchMessages, TurnsNotInterleaved, ReplyIsOwn
<1>5. FewPerKey
  <2>1. \A k \in Keys : LiveOf(k) = {}
    BY <1>1 DEF LiveOf
  <2> QED
    <3>1. \A k \in Keys : Cardinality(LiveOf(k)) = 0 /\ sessions[k] = 0
      BY <2>1, FS_EmptySet
    <3>2. restarts = 0
      OBVIOUS
    <3> QED
      BY <3>1, <3>2 DEF FewPerKey
<1> QED
  BY <1>2, <1>3, <1>4, <1>5 DEF RoutingInv

(* Every step keeps the invariant. *)
LEMMA RoutingGoesOn ==
  ASSUME RoutingInv, [RoutingNext]_routingVars
  PROVE  RoutingInv'
<1>1. /\ RoutingTypeOK /\ HoldersHaveLock /\ OneKey /\ BoundHome /\ RoutedHome
      /\ TurnHome /\ RecentKnows /\ FewPerKey
      /\ IsolatedOneKeyAtATime /\ RepliesMatchMessages
  BY DEF RoutingInv
<1>2. RoutingTypeOK' /\ RecentKnows'
  BY <1>1, TypesStay
<1>3. HoldersHaveLock' /\ OneKey'
  BY <1>1, LocksStayHeld, OneKeyStays
<1>4. BoundHome' /\ RoutedHome'
  BY <1>1, HomesStay
<1>5. TurnHome' /\ FewPerKey'
  BY <1>1, TurnStaysHome, FewStay
<1>6. IsolatedOneKeyAtATime' /\ RepliesMatchMessages'
  BY <1>1, IsolationStays, RepliesStay
<1> QED
  BY <1>2, <1>3, <1>4, <1>5, <1>6 DEF RoutingInv

(* The invariant holds in every reachable state. *)
LEMMA RoutingHolds == RoutingSpec => []RoutingInv
<1>1. RoutingInit => RoutingInv
  BY RoutingStarts
<1>2. RoutingInv /\ [RoutingNext]_routingVars => RoutingInv'
  BY RoutingGoesOn
<1> QED
  BY <1>1, <1>2, PTL DEF RoutingSpec

(* docs/gateway.md:35 and cron.md:121, as far as the code keeps them: while *)
(* one key is served at a time and nothing is deleted, a conversation holds *)
(* messages of its key only; and a daemon gives a key one conversation each *)
(* time it runs, whatever is deleted and however often it is restarted.     *)
THEOREM KeysKeepTheirConversations == RoutingSpec => []KeysKeepConversations
<1>1. RoutingInv => KeysKeepConversations
  <2> SUFFICES ASSUME RoutingInv
               PROVE  OneConversationPerKey
    BY DEF RoutingInv, KeysKeepConversations
  <2> SUFFICES ASSUME NEW k \in Keys
               PROVE  Cardinality({c \in DOMAIN convs :
                          convs[c].key = k /\ c \in Live}) <= restarts + 1
    BY DEF OneConversationPerKey
  <2>1. {c \in DOMAIN convs : convs[c].key = k /\ c \in Live} = LiveOf(k)
    BY DEF LiveOf, Live
  <2>2. /\ Cardinality(LiveOf(k)) <= restarts + (IF sessions[k] # 0 THEN 1 ELSE 0)
        /\ restarts \in Nat
    BY DEF RoutingInv, FewPerKey, RoutingTypeOK
  <2>3. Cardinality(LiveOf(k)) \in Nat
    <3>1. LiveOf(k) \subseteq 1 .. Len(convs) /\ Len(convs) \in Nat
      BY ConversationsTyped DEF RoutingInv, LiveOf, Live
    <3>2. IsFiniteSet(1 .. Len(convs))
      BY <3>1, FS_Interval
    <3>3. IsFiniteSet(LiveOf(k))
      BY <3>1, <3>2, FS_Subset
    <3> QED
      BY <3>3, FS_CardinalityType
  <2>4. Cardinality(LiveOf(k)) <= restarts + 1
    BY ONLY <2>2, <2>3
  <2> QED
    BY <2>1, <2>4
<1> QED
  BY <1>1, RoutingHolds, PTL

(* multiplexer.go:211: while one key is served at a time, every reply in a  *)
(* log stands right behind the message it answers, and what is delivered    *)
(* for an event is the reply the model gave to that event, also when the    *)
(* conversation is deleted under the turn.                                  *)
THEOREM RepliesStandBehindMessages == RoutingSpec => []RepliesMatchMessages
<1>1. RoutingInv => RepliesMatchMessages
  BY DEF RoutingInv
<1> QED
  BY <1>1, RoutingHolds, PTL

-----------------------------------------------------------------------------
(* The terminal's turns (internal/adapters/tui/app.go).  *)

(* While nothing streams nothing is under way either, and what was written  *)
(* is in the channel, in a message or on the screen.                        *)
StreamDrains ==
  /\ OneTokenReader
  /\ emitted = painted + queued + tokens
  /\ dones > 0 => queued = 0
  /\ ~streaming => readers + tokens + dones = 0 /\ queued = 0

(* A step returns one result, and its turn lasts until that is read.        *)
AtWork == {"brain", "asking", "awaiting"}
ReturnsOnce ==
  /\ errCh + dones <= 1
  /\ step \in AtWork => streaming /\ errCh + dones = 0
  /\ ~streaming => errCh + dones = 0
  /\ turns = 0 => step = "none"

(* A turn brought each of the waiting commands, and each prompt took one.   *)
WatchersCount == watchers + Cardinality(prompts) = turns

(* An ask has one prompt, in one place, and only the step's own is open.    *)
OnScreen == {pending, answerFor} \ {NoAsk}
AsksApart ==
  /\ abandoned \subseteq 1 .. asked
  /\ step \in {"asking", "awaiting"} => asked # NoAsk /\ asked \notin abandoned
  /\ prompts \union OnScreen \subseteq
       abandoned \union (IF step = "awaiting" THEN {asked} ELSE {})
  /\ prompts \intersect OnScreen = {}
  /\ pending # NoAsk => pending # answerFor
  /\ ui = "answering" <=> answerFor # NoAsk

TuiInv ==
  /\ TuiTypeOK /\ StreamDrains /\ ReturnsOnce /\ WatchersCount /\ AsksApart
  /\ AnswerSettlesItsAsk

(* The two ways a reader's wait ends.  *)
TakesToken ==
  /\ ReadToken
  /\ UNCHANGED <<screen, step, ctxDone, asked, closed, watchers, prompts,
                 farewell, emitted, painted, settled, abandoned, crashed,
                 turns>>
TakesResult ==
  /\ ReadDone
  /\ UNCHANGED <<screen, step, ctxDone, asked, closed, watchers, prompts,
                 farewell, emitted, painted, settled, abandoned, crashed,
                 turns>>
TuiStep ==
  \/ Submit \/ UpdateToken \/ UpdateDone \/ UpdatePrompt \/ UpdateClosed
  \/ ResolveApproval \/ Interrupt \/ SessionClosed \/ TakesToken
  \/ TakesResult \/ EmitToken \/ Ask \/ OfferTaken \/ AnswerTaken
  \/ DenyCancelled \/ StepReturns \/ CloseStream

LEMMA TuiSteps == TuiNext => TuiStep
  BY DEF TuiNext, User, Update, WaitToken, TakesToken, TakesResult, Goroutine,
         Approver, TuiStep

LEMMA AsksFinite == IsFiniteSet(AskIds)
  BY TuiAssumption, FS_Interval DEF AskIds

LEMMA TuiNumbers ==
  TuiTypeOK =>
    /\ readers \in Nat /\ watchers \in Nat /\ tokens \in Nat /\ dones \in Nat
    /\ emitted \in Nat /\ painted \in Nat /\ turns \in Nat /\ queued \in Nat
    /\ errCh \in Nat /\ asked \in Nat /\ prompts \subseteq AskIds
  BY TuiAssumption DEF TuiTypeOK, AskIds

LEMMA PromptsFinite ==
  ASSUME TuiTypeOK
  PROVE  IsFiniteSet(prompts) /\ Cardinality(prompts) \in Nat
  BY AsksFinite, FS_Subset, FS_CardinalityType DEF TuiTypeOK

(* The types by their kind: flags, places and counts.  *)
TuiFlags ==
  {streaming, cancelled, closing, ctxDone, closed, farewell, crashed}
    \subseteq BOOLEAN
TuiPlaces ==
  /\ ui \in {"ready", "answering", "quit"}
  /\ {pending, answerFor, asked} \subseteq AskIds
  /\ step \in {"none", "brain", "asking", "awaiting", "closing"}
  /\ prompts \subseteq AskIds /\ settled \in AskIds \X AskIds
  /\ abandoned \subseteq AskIds
TuiCounts ==
  /\ queued \in 0 .. StreamCap /\ errCh \in 0 .. 1
  /\ {readers, watchers, tokens, dones, emitted, painted, turns} \subseteq Nat

LEMMA TypesByKind == TuiTypeOK <=> TuiFlags /\ TuiPlaces /\ TuiCounts
  BY DEF TuiTypeOK, TuiFlags, TuiPlaces, TuiCounts

(* The flags.                                                               *)
LEMMA FlagsStay ==
  ASSUME TuiInv, TuiNext
  PROVE  TuiFlags'
<1> USE TypesByKind DEF TuiInv, TuiFlags, screen, channel, mail, Ready, Running
<1>1. ASSUME Submit PROVE TuiFlags'
  BY <1>1 DEF Submit
<1>2. ASSUME UpdateDone PROVE TuiFlags'
  BY <1>2 DEF UpdateDone
<1>3. ASSUME Interrupt PROVE TuiFlags'
  BY <1>3 DEF Interrupt
<1>4. ASSUME SessionClosed PROVE TuiFlags'
  BY <1>4 DEF SessionClosed
<1>5. ASSUME EmitToken PROVE TuiFlags'
  BY <1>5 DEF EmitToken
<1>6. ASSUME CloseStream PROVE TuiFlags'
  BY <1>6 DEF CloseStream
<1>7. ASSUME UNCHANGED <<streaming, cancelled, closing, ctxDone, closed, farewell, crashed>>
      PROVE  TuiFlags'
  BY <1>7
<1> QED
  BY TuiSteps, <1>1, <1>2, <1>3, <1>4, <1>5, <1>6, <1>7
  DEF TuiStep, UpdateToken, UpdatePrompt, ShowPrompt, UpdateClosed,
         ResolveApproval, TakesToken, ReadToken, TakesResult, ReadDone, Ask,
         OfferTaken, AnswerTaken, DenyCancelled, StepReturns

(* The places.                                                              *)
LEMMA PlacesStay ==
  ASSUME TuiInv, TuiNext
  PROVE  TuiPlaces'
<1> USE TuiAssumption, TypesByKind DEF TuiInv, TuiPlaces, NoAsk, AskIds, screen, channel, mail,
   Ready, Running
<1>1. ASSUME Submit PROVE TuiPlaces'
  BY <1>1 DEF Submit
<1>2. ASSUME UpdatePrompt PROVE TuiPlaces'
  BY <1>2 DEF UpdatePrompt, ShowPrompt
<1>3. ASSUME UpdateClosed PROVE TuiPlaces'
  BY <1>3 DEF UpdateClosed
<1>4. ASSUME ResolveApproval PROVE TuiPlaces'
  BY <1>4 DEF ResolveApproval
<1>5. ASSUME Interrupt PROVE TuiPlaces'
  BY <1>5 DEF Interrupt
<1>6. ASSUME Ask PROVE TuiPlaces'
  BY <1>6 DEF Ask
<1>7. ASSUME OfferTaken PROVE TuiPlaces'
  BY <1>7 DEF OfferTaken
<1>8. ASSUME AnswerTaken PROVE TuiPlaces'
  BY <1>8 DEF AnswerTaken
<1>9. ASSUME DenyCancelled PROVE TuiPlaces'
  BY <1>9 DEF DenyCancelled
<1>10. ASSUME StepReturns PROVE TuiPlaces'
  BY <1>10 DEF StepReturns
<1>11. ASSUME CloseStream PROVE TuiPlaces'
  BY <1>11 DEF CloseStream
<1>12. ASSUME UNCHANGED <<ui, pending, answerFor, asked, step, prompts, settled, abandoned>>
      PROVE  TuiPlaces'
  BY <1>12
<1> QED
  BY TuiSteps, <1>1, <1>2, <1>3, <1>4, <1>5, <1>6, <1>7, <1>8, <1>9, <1>10,
     <1>11, <1>12
  DEF TuiStep, UpdateToken, UpdateDone, SessionClosed, TakesToken, ReadToken,
         TakesResult, ReadDone, EmitToken

(* The counts.                                                              *)
LEMMA CountsStay ==
  ASSUME TuiInv, TuiNext
  PROVE  TuiCounts'
<1> USE TuiAssumption, TypesByKind DEF TuiInv, TuiCounts, screen, channel, mail, Ready, Running
<1>1. ASSUME Submit PROVE TuiCounts'
  BY <1>1 DEF Submit
<1>2. ASSUME UpdateToken PROVE TuiCounts'
  BY <1>2 DEF UpdateToken
<1>3. ASSUME UpdateDone PROVE TuiCounts'
  BY <1>3 DEF UpdateDone
<1>4. ASSUME UpdatePrompt PROVE TuiCounts'
  BY <1>4 DEF UpdatePrompt, ShowPrompt
<1>5. ASSUME TakesToken PROVE TuiCounts'
  BY <1>5 DEF TakesToken, ReadToken
<1>6. ASSUME TakesResult PROVE TuiCounts'
  BY <1>6 DEF TakesResult, ReadDone
<1>7. ASSUME EmitToken PROVE TuiCounts'
  BY <1>7 DEF EmitToken
<1>8. ASSUME OfferTaken PROVE TuiCounts'
  BY <1>8 DEF OfferTaken
<1>9. ASSUME StepReturns PROVE TuiCounts'
  BY <1>9 DEF StepReturns
<1>10. ASSUME UNCHANGED <<queued, errCh, readers, watchers, tokens, dones, emitted, painted, turns>>
      PROVE  TuiCounts'
  BY <1>10
<1> QED
  BY TuiSteps, <1>1, <1>2, <1>3, <1>4, <1>5, <1>6, <1>7, <1>8, <1>9, <1>10
  DEF TuiStep, UpdateClosed, ResolveApproval, Interrupt, SessionClosed, Ask,
         AnswerTaken, DenyCancelled, CloseStream

(* No token is lost between the channel and the screen.                     *)
LEMMA StreamStillDrains ==
  ASSUME TuiInv, TuiNext
  PROVE  StreamDrains'
<1> USE TuiAssumption, TuiNumbers DEF TuiInv, StreamDrains, OneTokenReader,
   ReturnsOnce, AtWork, screen, channel, mail, Ready, Running
<1>1. ASSUME Submit PROVE StreamDrains'
  <2>1. /\ readers + tokens + dones = 0 /\ queued = 0
        /\ readers' = readers + 1 /\ emitted' = 0 /\ painted' = 0
        /\ UNCHANGED <<tokens, dones, queued>> /\ streaming' = TRUE
    BY <1>1 DEF Submit
  <2> QED
    BY <2>1
<1>2. ASSUME UpdateToken PROVE StreamDrains'
  BY <1>2 DEF UpdateToken
<1>3. ASSUME UpdateDone PROVE StreamDrains'
  BY <1>3 DEF UpdateDone
<1>4. ASSUME TakesToken PROVE StreamDrains'
  BY <1>4 DEF TakesToken, ReadToken
<1>5. ASSUME TakesResult PROVE StreamDrains'
  BY <1>5 DEF TakesResult, ReadDone
<1>6. ASSUME EmitToken PROVE StreamDrains'
  BY <1>6 DEF EmitToken
<1>7. ASSUME UNCHANGED <<readers, tokens, dones, emitted, painted, queued, streaming>>
      PROVE  StreamDrains'
  BY <1>7
<1> QED
  BY TuiSteps, <1>1, <1>2, <1>3, <1>4, <1>5, <1>6, <1>7
  DEF TuiStep, UpdatePrompt, ShowPrompt, UpdateClosed, ResolveApproval,
         Interrupt, SessionClosed, Ask, OfferTaken, AnswerTaken,
         DenyCancelled, StepReturns, CloseStream

(* A step has one result.                                                   *)
LEMMA StepsReturnOnce ==
  ASSUME TuiInv, TuiNext
  PROVE  ReturnsOnce'
<1> USE TuiAssumption, TuiNumbers DEF TuiInv, ReturnsOnce, AtWork, screen,
   channel, mail, Ready, Running
<1>1. ASSUME Submit PROVE ReturnsOnce'
  BY <1>1 DEF Submit
<1>2. ASSUME UpdateDone PROVE ReturnsOnce'
  BY <1>2 DEF UpdateDone
<1>3. ASSUME TakesResult PROVE ReturnsOnce'
  BY <1>3 DEF TakesResult, ReadDone
<1>4. ASSUME Ask PROVE ReturnsOnce'
  BY <1>4 DEF Ask
<1>5. ASSUME OfferTaken PROVE ReturnsOnce'
  BY <1>5 DEF OfferTaken
<1>6. ASSUME AnswerTaken PROVE ReturnsOnce'
  BY <1>6 DEF AnswerTaken
<1>7. ASSUME DenyCancelled PROVE ReturnsOnce'
  BY <1>7 DEF DenyCancelled
<1>8. ASSUME StepReturns PROVE ReturnsOnce'
  BY <1>8 DEF StepReturns
<1>9. ASSUME CloseStream PROVE ReturnsOnce'
  BY <1>9 DEF CloseStream
<1>10. ASSUME UNCHANGED <<errCh, dones, step, streaming, turns>>
      PROVE  ReturnsOnce'
  BY <1>10
<1> QED
  BY TuiSteps, <1>1, <1>2, <1>3, <1>4, <1>5, <1>6, <1>7, <1>8, <1>9, <1>10
  DEF TuiStep, UpdateToken, UpdatePrompt, ShowPrompt, UpdateClosed,
         ResolveApproval, Interrupt, SessionClosed, TakesToken, ReadToken,
         EmitToken

(* A prompt takes a watcher, and its display arms one.                      *)
LEMMA WatchersStillCount ==
  ASSUME TuiInv, TuiNext
  PROVE  WatchersCount'
<1> USE TuiAssumption, TuiNumbers DEF TuiInv, WatchersCount, AskIds, NoAsk,
   screen, channel, mail, Ready, Running
<1>1. ASSUME Submit PROVE WatchersCount'
  BY <1>1, PromptsFinite DEF Submit
<1>2. ASSUME UpdatePrompt PROVE WatchersCount'
  <2>1. PICK a \in prompts : prompts' = prompts \ {a}
    BY <1>2 DEF UpdatePrompt, ShowPrompt
  <2>2. Cardinality(prompts \ {a}) = Cardinality(prompts) - 1
    BY PromptsFinite, FS_RemoveElement
  <2> QED
    BY <1>2, <2>1, <2>2, PromptsFinite DEF UpdatePrompt
<1>3. ASSUME OfferTaken PROVE WatchersCount'
  <2>1. asked \notin prompts
    BY <1>3 DEF OfferTaken, AsksApart
  <2>2. Cardinality(prompts \union {asked}) = Cardinality(prompts) + 1
    BY <2>1, PromptsFinite, FS_AddElement
  <2> QED
    BY <1>3, <2>2, PromptsFinite DEF OfferTaken
<1>4. ASSUME UNCHANGED <<watchers, prompts, turns>> PROVE WatchersCount'
  BY <1>4
<1> QED
  BY TuiSteps, <1>1, <1>2, <1>3, <1>4
  DEF TuiStep, UpdateToken, UpdateDone, UpdateClosed, ResolveApproval,
         Interrupt, SessionClosed, TakesToken, ReadToken, TakesResult,
         ReadDone, EmitToken, Ask, AnswerTaken, DenyCancelled, StepReturns,
         CloseStream

(* An open prompt is of the ask its step waits for.                         *)
LEMMA AsksStayApart ==
  ASSUME TuiInv, TuiNext
  PROVE  AsksApart'
<1> USE TuiAssumption, TuiNumbers DEF TuiInv, AsksApart, OnScreen, ReturnsOnce,
   AtWork, AskIds, NoAsk, screen, channel, mail, Ready, Running
<1>1. ASSUME Submit PROVE AsksApart'
  BY <1>1 DEF Submit
<1>2. ASSUME UpdatePrompt PROVE AsksApart'
  BY <1>2 DEF UpdatePrompt, ShowPrompt
<1>3. ASSUME UpdateClosed PROVE AsksApart'
  BY <1>3 DEF UpdateClosed
<1>4. ASSUME ResolveApproval PROVE AsksApart'
  BY <1>4 DEF ResolveApproval
<1>5. ASSUME Interrupt PROVE AsksApart'
  <2>1. /\ ui = "ready" /\ ui' \in {"ready", "quit"}
        /\ UNCHANGED <<pending, answerFor, asked, prompts, abandoned, step>>
    BY <1>5 DEF Interrupt
  <2> QED
    BY <2>1
<1>6. ASSUME Ask PROVE AsksApart'
  BY <1>6 DEF Ask
<1>7. ASSUME OfferTaken PROVE AsksApart'
  BY <1>7 DEF OfferTaken
<1>8. ASSUME AnswerTaken PROVE AsksApart'
  <2>1. /\ step = "awaiting" /\ ui' = "ready" /\ answerFor' = NoAsk
        /\ step' = "brain" /\ UNCHANGED <<pending, asked, prompts>>
        /\ abandoned' = IF asked = answerFor THEN abandoned
                        ELSE abandoned \union {asked}
    BY <1>8 DEF AnswerTaken
  <2>2. abandoned' \subseteq 1 .. asked
    <3>1. asked \in Nat /\ asked # 0
      BY <2>1
    <3>2. asked \in 1 .. asked
      BY <3>1
    <3>3. abandoned \subseteq 1 .. asked
      OBVIOUS
    <3>4. abandoned' \subseteq abandoned \union {asked}
      BY <2>1
    <3> QED
      BY ONLY <3>2, <3>3, <3>4
  <2>3. ASSUME NEW a \in prompts' \union {pending'}, a # NoAsk
        PROVE  a \in abandoned'
    <3>1. a # answerFor /\ (a \in abandoned \/ a = asked)
      BY <2>1, <2>3
    <3> QED
      BY <2>1, <3>1
  <2>4. NoAsk \notin prompts
    BY <2>1
  <2> QED
    BY <2>1, <2>2, <2>3, <2>4
<1>9. ASSUME DenyCancelled PROVE AsksApart'
  <2>1. /\ step \in {"asking", "awaiting"} /\ step' = "brain"
        /\ abandoned' = abandoned \union {asked}
        /\ UNCHANGED <<ui, pending, answerFor, asked, prompts>>
    BY <1>9 DEF DenyCancelled
  <2>2. abandoned' \subseteq 1 .. asked
    <3>1. asked \in Nat /\ asked # 0
      BY <2>1
    <3>2. asked \in 1 .. asked
      BY <3>1
    <3>3. abandoned \subseteq 1 .. asked
      OBVIOUS
    <3>4. abandoned' \subseteq abandoned \union {asked}
      BY <2>1
    <3> QED
      BY ONLY <3>2, <3>3, <3>4
  <2>3. prompts \union OnScreen \subseteq abandoned'
    BY <2>1
  <2> QED
    BY <2>1, <2>2, <2>3
<1>10. ASSUME StepReturns PROVE AsksApart'
  BY <1>10 DEF StepReturns
<1>11. ASSUME CloseStream PROVE AsksApart'
  BY <1>11 DEF CloseStream
<1>12. ASSUME UNCHANGED <<ui, pending, answerFor, asked, prompts, abandoned, step>>
      PROVE  AsksApart'
  BY <1>12
<1> QED
  BY TuiSteps, <1>1, <1>2, <1>3, <1>4, <1>5, <1>6, <1>7, <1>8, <1>9, <1>10,
     <1>11, <1>12
  DEF TuiStep, UpdateToken, UpdateDone, SessionClosed, TakesToken, ReadToken,
         TakesResult, ReadDone, EmitToken

LEMMA TuiStarts == TuiInit => TuiInv
<1> SUFFICES ASSUME TuiInit PROVE TuiInv
  OBVIOUS
<1> USE TuiAssumption DEF TuiInit, NoAsk
<1>1. TuiTypeOK
  <2>1. TuiPlaces /\ TuiCounts
    BY DEF TuiPlaces, TuiCounts, AskIds
  <2>2. TuiFlags
    BY DEF TuiFlags
  <2> QED
    BY <2>1, <2>2, TypesByKind
<1>2. StreamDrains /\ ReturnsOnce
  BY DEF StreamDrains, OneTokenReader, ReturnsOnce, AtWork
<1>3. WatchersCount
  BY FS_EmptySet DEF WatchersCount
<1>4. AsksApart /\ AnswerSettlesItsAsk
  BY DEF AsksApart, OnScreen, AnswerSettlesItsAsk
<1> QED
  BY <1>1, <1>2, <1>3, <1>4 DEF TuiInv

(* The answer that settles an ask is for its prompt, or a prompt left over. *)
LEMMA AnswersStillSettle ==
  ASSUME TuiInv, TuiNext
  PROVE  AnswerSettlesItsAsk'
<1>1. CASE AnswerTaken
  <2>1. settled' = <<asked, answerFor>> /\ abandoned \subseteq abandoned'
    BY <1>1 DEF AnswerTaken
  <2>2. answerFor = asked \/ answerFor \in abandoned
    BY <1>1 DEF AnswerTaken, TuiInv, AsksApart, OnScreen
  <2> QED
    BY <2>1, <2>2 DEF AnswerSettlesItsAsk
<1>2. CASE ~ AnswerTaken
  <2>1. UNCHANGED settled /\ abandoned \subseteq abandoned'
    BY <1>2, TuiSteps
       DEF TuiStep, Submit, UpdateToken, UpdateDone, UpdatePrompt,
           UpdateClosed, ResolveApproval, Interrupt, SessionClosed,
           TakesToken, TakesResult, EmitToken, Ask, OfferTaken,
           DenyCancelled, StepReturns, CloseStream
  <2> QED
    BY <2>1 DEF TuiInv, AnswerSettlesItsAsk
<1> QED
  BY <1>1, <1>2

LEMMA TuiGoesOn == TuiInv /\ [TuiNext]_tuiVars => TuiInv'
<1>1. ASSUME TuiInv, TuiNext PROVE TuiInv'
  <2>1. TuiTypeOK'
    BY <1>1, FlagsStay, PlacesStay, CountsStay
       DEF TuiTypeOK, TuiFlags, TuiPlaces, TuiCounts
  <2> QED
    BY <1>1, <2>1, StreamStillDrains, StepsReturnOnce, WatchersStillCount,
       AsksStayApart, AnswersStillSettle DEF TuiInv
<1>2. ASSUME TuiInv, UNCHANGED tuiVars PROVE TuiInv'
  <2> USE <1>2 DEF tuiVars, screen, channel, mail, TuiInv
  <2>1. TuiTypeOK' /\ StreamDrains' /\ ReturnsOnce'
    BY DEF TuiTypeOK, StreamDrains, OneTokenReader, ReturnsOnce
  <2>2. WatchersCount' /\ AsksApart' /\ AnswerSettlesItsAsk'
    BY DEF WatchersCount, AsksApart, OnScreen, AnswerSettlesItsAsk
  <2> QED
    BY <2>1, <2>2
<1> QED
  BY <1>1, <1>2

(* app.go:385-389, 491-576 and main.go:202-221: what the step writes is     *)
(* painted in order and in full, its asks are taken, and an answer settles  *)
(* the ask whose prompt was shown, for any number of turns, tokens and      *)
(* asks, a channel of any capacity and whenever a turn is cancelled.        *)
THEOREM TurnsReachTheUser ==
  TuiSpec => []TurnReachesUser
<1>1. ASSUME TuiInv PROVE TurnReachesUser
  <2> USE <1>1 DEF TuiInv
  <2>1. TokensInOrder
    <3>1. /\ readers \in Nat /\ tokens \in Nat /\ dones \in Nat
          /\ emitted \in Nat /\ painted \in Nat /\ queued \in Nat
      BY DEF TuiTypeOK
    <3>2. /\ OneTokenReader /\ emitted = painted + queued + tokens
          /\ ~streaming => readers + tokens + dones = 0 /\ queued = 0
      BY DEF StreamDrains
    <3>3. ~streaming => painted = emitted /\ queued = 0
      BY ONLY <3>1, <3>2
    <3> QED
      BY <3>2, <3>3 DEF TokensInOrder, FinishedTurnIsPainted
  <2>2. SomebodyTakesTheAsk
    BY DEF SomebodyTakesTheAsk, WatchersCount, ReturnsOnce, TuiTypeOK
  <2>3. LoopNotFrozen
    BY DEF LoopNotFrozen, AsksApart, OnScreen
  <2> QED
    BY <2>1, <2>2, <2>3 DEF TurnReachesUser, ApprovalsReachTheirAsk
<1> QED
  BY <1>1, TuiStarts, TuiGoesOn, PTL DEF TuiSpec

-----------------------------------------------------------------------------
(* The commands (cmd/agis).  *)

Plan == PlanOf(cmd)

(* A command opens its plan from front to back, what it has had open is     *)
(* behind it, and nothing is closed before it is through.                   *)
OpensInOrder ==
  /\ \E k \in 1 .. Len(Plan) + 1 :
       /\ Len(left) = Len(Plan) + 1 - k
       /\ \A i \in 1 .. Len(left) : left[i] = Plan[i + k - 1]
       /\ \A p \in held : \E i \in 1 .. k - 1 : p = Plan[i]
       /\ phase \in {"shell", "opening"} => k <= Len(Plan)
  /\ phase \in {"shell", "opening", "running"} => gone = {}
OpenedWhatItNeeds ==
  phase = "running" =>
    /\ cmd = "gateway" => "adapters" \in held
    /\ cmd \in {"serve", "webhook"} => "server" \in held
    /\ cmd = "cron" => "engine" \in held
    /\ cmd = "terminal" => "screen" \in held

(* What is held and closed by a deferred call is in that list, once.        *)
DefersWhatIsHeld ==
  /\ deferred \in {<<>>, <<"database">>, <<"mcp">>, <<"database", "mcp">>}
  /\ held \intersect {"database", "mcp"} = ToSet(deferred)
  /\ gone \intersect {"database", "mcp"} # {} => phase \in {"unwinding", "over"}
  /\ phase = "over" /\ ~skipped => deferred = <<>>

(* What takes on turns, and is still to be stopped.                         *)
Feeders == {"adapters", "server", "engine", "screen"}
LeftRunning == IF cmd = "webhook" THEN {"adapters"} ELSE {}
StopsWhatFeeds ==
  /\ stops \in {<<>>, <<"adapters">>, <<"server">>, <<"engine">>,
                <<"engine", "adapters">>}
  /\ ToSet(stops) \subseteq held
  /\ phase = "stopping" =>
       held \intersect Feeders \subseteq ToSet(stops) \union LeftRunning
  /\ phase # "stopping" => stops = <<>>
  /\ phase \in {"unwinding", "over"} =>
       held \intersect Feeders \subseteq LeftRunning

(* A turn that is in progress has its source, or it is known that nobody    *)
(* waits for it.                                                            *)
TurnsHaveSources ==
  /\ \A s \in busy :
       s \in cut \union Unattended \/ \E p \in held : s \in Feeds(p)
  /\ "job" \in busy => "engine" \in held
  /\ "engine" \in held => "adapters" \notin gone
  /\ phase = "closing" => cmd = "terminal" /\ "screen" \in held
  /\ phase = "over" => busy = {}

CommandInv ==
  /\ CommandTypeOK /\ OpensInOrder /\ OpenedWhatItNeeds /\ DefersWhatIsHeld
  /\ StopsWhatFeeds /\ TurnsHaveSources

(* The two ways a function's return goes on.  *)
ClosesOne ==
  /\ phase = "unwinding" /\ deferred # <<>>
  /\ deferred' = Front(deferred)
  /\ held' = held \ {Last(deferred)} /\ gone' = gone \union {Last(deferred)}
  /\ UNCHANGED <<cmd, left, phase, stops, signalled, busy, cut, skipped>>
Returns ==
  /\ phase = "unwinding" /\ deferred = <<>>
  /\ phase' = "over" /\ busy' = {}
  /\ UNCHANGED <<cmd, left, held, gone, deferred, stops, signalled, cut,
                 skipped>>
CommandStep ==
  \/ Launch \/ Opens \/ GoesWithout \/ OpenFails \/ Signal \/ Shuts \/ StopNext
  \/ AllStopped \/ ServerFails \/ CloseSession \/ CloseReturns \/ QuitAtOnce
  \/ ScreenFails \/ ClosesOne \/ Returns
TurnStep(s) == TurnBegins(s) \/ TurnEnds(s)

LEMMA CommandSteps ==
  CommandNext => CommandStep \/ \E s \in Sources : TurnStep(s)
<1>1. Unwind => ClosesOne \/ Returns
  BY DEF Unwind, ClosesOne, Returns
<1> QED
  BY <1>1 DEF CommandNext, CommandStep, TurnStep

Commands == Daemons \union {"terminal"}

LEMMA PlansInFull ==
  /\ Len(TerminalPlan) = 7 /\ Len(GatewayPlan) = 7 /\ Len(ServePlan) = 7
  /\ Len(WebhookPlan) = 7 /\ Len(CronPlan) = 8
  /\ {TerminalPlan, GatewayPlan, ServePlan, WebhookPlan, CronPlan}
       \subseteq Seq(Parts)
  BY DEF TerminalPlan, GatewayPlan, ServePlan, WebhookPlan, CronPlan, Parts

(* What the plans have in common.  *)
LEMMA PlanFacts ==
  ASSUME cmd \in Commands
  PROVE  /\ Plan \in Seq(Parts) /\ Len(Plan) \in {7, 8}
         /\ \A i, k \in 1 .. Len(Plan) :
              /\ Plan[i] = Plan[k] => i = k
              /\ Plan[i] = "mcp" /\ Plan[k] = "database" => k < i
              /\ cmd = "cron" /\ Plan[i] = "adapters" /\ i < k =>
                   Plan[k] \in {"jobs", "engine"}
         /\ \A i \in 1 .. Len(Plan) :
              Plan[i] \in Feeders /\ i < Len(Plan) =>
                Plan[i] = "adapters" /\ cmd \in {"webhook", "cron"}
         /\ Plan[Len(Plan)] =
              CASE cmd = "gateway" -> "adapters"
                [] cmd \in {"serve", "webhook"} -> "server"
                [] cmd = "cron" -> "engine"
                [] cmd = "terminal" -> "screen"
<1> USE PlansInFull DEF Plan, PlanOf, Feeders
<1>1. CASE cmd = "terminal"
  BY <1>1 DEF TerminalPlan
<1>2. CASE cmd = "gateway"
  BY <1>2 DEF GatewayPlan
<1>3. CASE cmd = "serve"
  BY <1>3 DEF ServePlan
<1>4. CASE cmd = "webhook"
  BY <1>4 DEF WebhookPlan
<1>5. CASE cmd = "cron"
  BY <1>5 DEF CronPlan
<1> QED
  BY <1>1, <1>2, <1>3, <1>4, <1>5 DEF Commands, Daemons

(* What takes on turns, and where.  *)
LEMMA FeedsAre ==
  /\ \A p, s : s \in Feeds(p) => p \in Feeders
  /\ \A p : "job" \in Feeds(p) <=> p = "engine"
  /\ Feeds("screen") = {"screen"} /\ Feeds("engine") = {"job"}
  /\ Feeds("database") = {} /\ Feeds("mcp") = {}
  /\ cmd = "webhook" => Feeds("adapters") \subseteq Unattended
  BY DEF Feeds, Feeders, Unattended

(* Where a command stands while it opens: at a place of its plan.  *)
LEMMA NextToOpen ==
  ASSUME CommandInv, phase = "opening"
  PROVE  /\ left # <<>> /\ Head(left) \in Parts \ held /\ gone = {}
         /\ Tail(left) \in Seq(Parts) /\ Len(Tail(left)) = Len(left) - 1
         /\ held \intersect Feeders \subseteq
              (IF cmd \in {"webhook", "cron"} THEN {"adapters"} ELSE {})
         /\ (cmd = "cron" /\ "adapters" \in held) =>
              Head(left) \in {"jobs", "engine"}
         /\ Head(left) = "database" => "mcp" \notin held
         /\ Len(left) = 1 =>
              Head(left) \notin Optional /\ Head(left) = Plan[Len(Plan)]
<1>1. cmd \in Commands /\ left \in Seq(Parts) /\ gone = {}
  BY DEF CommandInv, CommandTypeOK, OpensInOrder, Commands
<1>2. PICK k \in 1 .. Len(Plan) :
        /\ Len(left) = Len(Plan) + 1 - k
        /\ \A i \in 1 .. Len(left) : left[i] = Plan[i + k - 1]
        /\ \A p \in held : \E i \in 1 .. k - 1 : p = Plan[i]
  <2>1. PICK j \in 1 .. Len(Plan) + 1 :
          /\ Len(left) = Len(Plan) + 1 - j
          /\ \A i \in 1 .. Len(left) : left[i] = Plan[i + j - 1]
          /\ \A p \in held : \E i \in 1 .. j - 1 : p = Plan[i]
          /\ phase \in {"shell", "opening"} => j <= Len(Plan)
    BY ZenonT(40) DEF CommandInv, OpensInOrder
  <2>2. Len(Plan) \in {7, 8} /\ phase = "opening"
    BY <1>1, PlanFacts
  <2>3. j <= Len(Plan)
    BY <2>1, <2>2, Zenon
  <2>4. j \in 1 .. Len(Plan)
    BY <2>2, <2>3
  <2> QED
    BY <2>1, <2>4, ZenonT(40)
<1>3. Len(Plan) \in {7, 8}
  BY <1>1, PlanFacts
<1>4. /\ left # <<>> /\ Head(left) = Plan[k] /\ Head(left) \in Parts
      /\ Tail(left) \in Seq(Parts) /\ Len(Tail(left)) = Len(left) - 1
  <2>1. Len(left) \in Nat /\ Len(left) >= 1
    BY <1>2, <1>3
  <2>2. Head(left) = left[1]
    BY <1>1, <2>1
  <2>3. left[1] = Plan[1 + k - 1]
    BY <1>2, <2>1
  <2>4. 1 + k - 1 = k
    BY <1>3
  <2> QED
    BY <1>1, <2>1, <2>2, <2>3, <2>4
<1>5. ASSUME NEW p \in held
      PROVE  /\ p # Plan[k]
             /\ p \in Feeders => p = "adapters" /\ cmd \in {"webhook", "cron"}
             /\ p = "adapters" /\ cmd = "cron" => Plan[k] \in {"jobs", "engine"}
             /\ p = "mcp" => Plan[k] # "database"
  <2>1. PICK i \in 1 .. k - 1 : p = Plan[i]
    BY <1>2
  <2>2. i \in 1 .. Len(Plan) /\ i < k /\ i < Len(Plan) /\ k \in 1 .. Len(Plan)
    BY <1>3
  <2> QED
    BY <1>1, <2>1, <2>2, PlanFacts
<1>6. Len(left) = 1 => k = Len(Plan)
  <2>1. ASSUME Len(left) = 1 PROVE 1 = Len(Plan) + 1 - k
    BY <1>2, <2>1
  <2>2. Len(Plan) \in Int /\ k \in Int
    BY <1>3
  <2>3. \A m, n \in Int : 1 = m + 1 - n => n = m
    OBVIOUS
  <2> QED
    BY <2>1, <2>2, <2>3
<1>7. Plan[Len(Plan)] \notin Optional
  BY <1>1, PlanFacts DEF Optional, Commands, Daemons
<1> QED
  BY <1>1, <1>4, <1>5, <1>6, <1>7

(* What a command may hold that takes on turns.  *)
LEMMA HeldByCommand ==
  ASSUME CommandInv
  PROVE  held \intersect Feeders \subseteq
           (CASE cmd = "gateway" -> {"adapters"}
              [] cmd = "serve" -> {"server"}
              [] cmd = "webhook" -> {"adapters", "server"}
              [] cmd = "cron" -> {"adapters", "engine"}
              [] cmd = "terminal" -> {"screen"})
<1>1. cmd \in Commands
  BY DEF CommandInv, CommandTypeOK, Commands
<1>2. Len(Plan) \in {7, 8}
  BY <1>1, PlanFacts
<1>3. ASSUME NEW p \in held, p \in Feeders
      PROVE  \/ p = Plan[Len(Plan)]
             \/ p = "adapters" /\ cmd \in {"webhook", "cron"}
  <2>1. PICK i \in 1 .. Len(Plan) : p = Plan[i]
    <3>1. PICK k \in 1 .. Len(Plan) + 1 :
            \A q \in held : \E i \in 1 .. k - 1 : q = Plan[i]
      BY DEF CommandInv, OpensInOrder
    <3>2. PICK i \in 1 .. k - 1 : p = Plan[i]
      BY <1>3, <3>1
    <3> QED
      BY <1>2, <3>2
  <2>2. i = Len(Plan) \/ i < Len(Plan)
    BY <1>2
  <2>3. i < Len(Plan) => p = "adapters" /\ cmd \in {"webhook", "cron"}
    BY <1>1, <1>3, <2>1, PlanFacts
  <2> QED
    BY <2>1, <2>2, <2>3
<1> QED
  BY <1>1, <1>3, PlanFacts DEF Commands, Daemons

(* The lists a command keeps are short.  *)
LEMMA Lists ==
  /\ ToSet(<<>>) = {} /\ \A p : ToSet(<<p>>) = {p}
  /\ \A p, q : ToSet(<<p, q>>) = {p, q}
  /\ \A p : Head(<<p>>) = p /\ Tail(<<p>>) = <<>> /\ <<p>> # <<>>
  /\ \A p, q : Head(<<p, q>>) = p /\ Tail(<<p, q>>) = <<q>> /\ <<p, q>> # <<>>
<1>1. ToSet(<<>>) = {} /\ \A p : ToSet(<<p>>) = {p}
  BY DEF ToSet
<1>2. \A p, q : ToSet(<<p, q>>) = {p, q}
  BY DEF ToSet
<1>3. \A p : Head(<<p>>) = p /\ Tail(<<p>>) = <<>> /\ <<p>> # <<>>
  OBVIOUS
<1>4. \A p, q :
        Head(<<p, q>>) = p /\ Tail(<<p, q>>) = <<q>> /\ <<p, q>> # <<>>
  OBVIOUS
<1> QED
  BY <1>1, <1>2, <1>3, <1>4

LEMMA OneBehind ==
  ASSUME NEW p, NEW q
  PROVE  /\ Front(<<p>>) = <<>> /\ Last(<<p>>) = p
         /\ Front(<<p, q>>) = <<p>> /\ Last(<<p, q>>) = q
         /\ Append(<<>>, p) = <<p>> /\ Append(<<p>>, q) = <<p, q>>
         /\ <<p>> \o <<>> = <<p>> /\ <<p>> \o <<q>> = <<p, q>>
<1>1. Front(<<p>>) = <<>> /\ Last(<<p>>) = p
  BY DEF Front, Last
<1>2. Last(<<p, q>>) = q
  BY DEF Last
<1>3. Front(<<p, q>>) = <<p>>
  <2>1. Front(<<p, q>>) = [i \in 1 .. 1 |-> <<p, q>>[i]]
    BY DEF Front
  <2> QED
    BY <2>1
<1> DEFINE Two == Seq({p, q})
<1>6. \A s, t \in Two :
        Len(s) = 1 /\ Len(t) = 1 /\ s[1] = t[1] => s = t
  <2> SUFFICES ASSUME NEW s \in Two, NEW t \in Two,
                      Len(s) = 1, Len(t) = 1, s[1] = t[1]
               PROVE  s = t
    OBVIOUS
  <2>1. \A i \in 1 .. Len(s) : s[i] = t[i]
    OBVIOUS
  <2> QED
    BY <2>1, SeqEqual
<1>7. \A s, t \in Two :
        Len(s) = 2 /\ Len(t) = 2 /\ s[1] = t[1] /\ s[2] = t[2] => s = t
  <2> SUFFICES ASSUME NEW s \in Two, NEW t \in Two,
                      Len(s) = 2, Len(t) = 2, s[1] = t[1], s[2] = t[2]
               PROVE  s = t
    OBVIOUS
  <2>1. \A i \in 1 .. Len(s) : s[i] = t[i]
    OBVIOUS
  <2> QED
    BY <2>1, SeqEqual
<1>8. /\ <<>> \in Two /\ <<p>> \in Two /\ <<q>> \in Two /\ <<p, q>> \in Two
      /\ Len(<<p>>) = 1 /\ Len(<<q>>) = 1 /\ Len(<<p, q>>) = 2
      /\ <<p>>[1] = p /\ <<q>>[1] = q /\ <<p, q>>[1] = p /\ <<p, q>>[2] = q
  OBVIOUS
<1>4. Append(<<>>, p) = <<p>> /\ Append(<<p>>, q) = <<p, q>>
  <2>1. /\ Append(<<>>, p) \in Two /\ Len(Append(<<>>, p)) = 1
        /\ Append(<<>>, p)[1] = p
    BY <1>8
  <2>2. /\ Append(<<p>>, q) \in Two /\ Len(Append(<<p>>, q)) = 2
        /\ Append(<<p>>, q)[1] = p /\ Append(<<p>>, q)[2] = q
    BY <1>8
  <2> QED
    BY <1>6, <1>7, <1>8, <2>1, <2>2
<1>5. <<p>> \o <<>> = <<p>> /\ <<p>> \o <<q>> = <<p, q>>
  <2>1. <<p>> \o <<>> = <<p>>
    BY <1>8, ConcatEmptySeq
  <2>2. /\ <<p>> \o <<q>> \in Two /\ Len(<<p>> \o <<q>>) = 2
        /\ (<<p>> \o <<q>>)[1] = p /\ (<<p>> \o <<q>>)[2] = q
    BY <1>8, ConcatProperties
  <2> QED
    BY <1>7, <1>8, <2>1, <2>2
<1> QED
  BY <1>1, <1>2, <1>3, <1>4, <1>5

LEMMA CommandStays ==
  ASSUME CommandNext
  PROVE  /\ cmd' = cmd /\ Plan' = Plan /\ Unattended' = Unattended
         /\ LeftRunning' = LeftRunning /\ \A p : Feeds(p)' = Feeds(p)
         /\ cut \subseteq cut'
<1>1. cmd' = cmd /\ cut \subseteq cut'
  BY CommandSteps
     DEF CommandStep, TurnStep, Launch, Opens, GoesWithout, Opened, OpenFails,
         Signal, Shuts, StopNext, AllStopped, ServerFails, CloseSession,
         CloseReturns, QuitAtOnce, ScreenFails, ScreenEnds, ClosesOne,
         Returns, TurnBegins, TurnEnds
<1>2. Plan' = Plan /\ Unattended' = Unattended /\ LeftRunning' = LeftRunning
  BY <1>1 DEF Plan, PlanOf, Unattended, LeftRunning
<1>3. \A p : Feeds(p)' = Feeds(p)
  BY <1>1 DEF Feeds
<1> QED
  BY <1>1, <1>2, <1>3

(* The plan is followed: only opening moves on, and nothing is put back.  *)
LEMMA OpeningStaysInOrder ==
  ASSUME CommandInv, CommandNext
  PROVE  OpensInOrder'
<1>1. cmd' = cmd /\ Plan' = Plan
  BY CommandStays
<1>2. PICK k \in 1 .. Len(Plan) + 1 :
       /\ Len(left) = Len(Plan) + 1 - k
       /\ \A i \in 1 .. Len(left) : left[i] = Plan[i + k - 1]
       /\ \A p \in held : \E i \in 1 .. k - 1 : p = Plan[i]
       /\ phase \in {"shell", "opening"} => k <= Len(Plan)
  BY DEF CommandInv, OpensInOrder
<1>3. Len(Plan) \in {7, 8} /\ left \in Seq(Parts)
  BY PlanFacts DEF CommandInv, CommandTypeOK, Commands
<1>4. ASSUME Opens \/ GoesWithout PROVE OpensInOrder'
  <2>1. /\ phase = "opening" /\ left' = Tail(left) /\ gone' = gone
        /\ phase' = IF Len(left) = 1 THEN "running" ELSE "opening"
        /\ held' \subseteq held \union {Head(left)}
    BY <1>4 DEF Opens, GoesWithout, Opened
  <2>2. /\ left # <<>> /\ gone = {} /\ Len(left') = Len(left) - 1
    BY <2>1, NextToOpen
  <2>3. k \in 1 .. Len(Plan) /\ Len(left) \in Nat \ {0}
    BY <1>2, <1>3, <2>1
  <2>4. Head(left) = Plan[k]
    <3>1. Head(left) = left[1] /\ 1 \in 1 .. Len(left) /\ 1 + k - 1 = k
      BY <1>3, <2>2, <2>3
    <3> QED
      BY <1>2, <3>1
  <2>5. \A i \in 1 .. Len(left') : left'[i] = Plan[i + (k + 1) - 1]
    <3> SUFFICES ASSUME NEW i \in 1 .. Len(left')
                 PROVE  left'[i] = Plan[i + (k + 1) - 1]
      OBVIOUS
    <3>1. left'[i] = left[i + 1]
      BY <1>3, <2>1, <2>2
    <3>2. i + 1 \in 1 .. Len(left) /\ (i + 1) + k - 1 = i + (k + 1) - 1
      BY <2>2, <2>3
    <3> QED
      BY <1>2, <3>1, <3>2
  <2>6. \A p \in held' : \E i \in 1 .. (k + 1) - 1 : p = Plan[i]
    <3> SUFFICES ASSUME NEW p \in held'
                 PROVE  \E i \in 1 .. (k + 1) - 1 : p = Plan[i]
      OBVIOUS
    <3>1. CASE p = Plan[k]
      BY <1>3, <2>3, <3>1
    <3>2. CASE p \in held
      <4>1. PICK i \in 1 .. k - 1 : p = Plan[i]
        BY <1>2, <3>2
      <4>2. i \in 1 .. (k + 1) - 1
        BY <1>3, <2>3
      <4> QED
        BY <4>1, <4>2
    <3> QED
      BY <2>1, <2>4, <3>1, <3>2
  <2>7. Len(left') = Len(Plan) + 1 - (k + 1)
    <3>1. Len(left) = Len(Plan) + 1 - k
      BY <1>2
    <3> QED
      BY <1>3, <2>2, <2>3, <3>1
  <2>8. phase' \in {"shell", "opening"} => k + 1 <= Len(Plan)
    <3>1. Len(left) = Len(Plan) + 1 - k /\ (phase' = "opening" => Len(left) # 1)
      BY <1>2, <2>1
    <3> QED
      BY <1>3, <2>1, <2>3, <3>1
  <2>9. k + 1 \in 1 .. Len(Plan) + 1
    BY <1>3, <2>3
  <2> QED
    BY <1>1, <2>1, <2>2, <2>5, <2>6, <2>7, <2>8, <2>9 DEF OpensInOrder
<1>5. ASSUME ~ Opens, ~ GoesWithout PROVE OpensInOrder'
  <2>1. /\ left' = left /\ held' \subseteq held
        /\ phase' \in {"shell", "opening"} => phase \in {"shell", "opening"}
        /\ phase' \in {"shell", "opening", "running"} =>
             phase \in {"shell", "opening", "running"} /\ gone' = gone
    BY <1>5, CommandSteps
       DEF CommandStep, TurnStep, Launch, OpenFails, Signal, Shuts, StopNext,
           BeingStopped, AllStopped, ServerFails, CloseSession, CloseReturns,
           QuitAtOnce, ScreenFails, ScreenEnds, ClosesOne, Returns,
           TurnBegins, TurnEnds
  <2>2. \A p \in held' : \E i \in 1 .. k - 1 : p = Plan[i]
    BY <1>2, <2>1
  <2>3. phase' \in {"shell", "opening"} => k <= Len(Plan)
    BY <1>2, <2>1
  <2>4. gone' = {} \/ phase' \notin {"shell", "opening", "running"}
    BY <2>1 DEF CommandInv, OpensInOrder
  <2> HIDE DEF CommandInv
  <2>5. /\ Len(left') = Len(Plan) + 1 - k
        /\ \A i \in 1 .. Len(left') : left'[i] = Plan[i + k - 1]
    BY <1>2, <2>1
  <2> QED
    BY <1>1, <1>2, <2>2, <2>3, <2>4, <2>5 DEF OpensInOrder
<1> QED
  BY <1>4, <1>5

(* The last place of a plan is what feeds it, and cannot be done without.  *)
LEMMA NeedsStayOpen ==
  ASSUME CommandInv, CommandNext
  PROVE  OpenedWhatItNeeds'
<1>1. cmd' = cmd /\ cmd \in Commands
  BY CommandStays DEF CommandInv, CommandTypeOK, Commands
<1>2. ASSUME Opens PROVE OpenedWhatItNeeds'
  <2> SUFFICES ASSUME phase' = "running"
               PROVE  Plan[Len(Plan)] \in held'
    BY <1>1, PlanFacts DEF OpenedWhatItNeeds, Commands, Daemons
  <2> QED
    BY <1>2, NextToOpen DEF Opens, Opened
<1>3. ASSUME GoesWithout PROVE OpenedWhatItNeeds'
  <2>1. phase' # "running"
    BY <1>3, NextToOpen DEF GoesWithout, Opened
  <2> QED
    BY <2>1 DEF OpenedWhatItNeeds
<1>4. ASSUME ~ Opens, ~ GoesWithout PROVE OpenedWhatItNeeds'
  <2>1. phase' = "running" => phase = "running" /\ held' = held
    BY <1>4, CommandSteps
       DEF CommandStep, TurnStep, Launch, OpenFails, Signal, Shuts, StopNext,
           BeingStopped, AllStopped, ServerFails, CloseSession, CloseReturns,
           QuitAtOnce, ScreenFails, ScreenEnds, ClosesOne, Returns,
           TurnBegins, TurnEnds
  <2> QED
    BY <1>1, <2>1 DEF CommandInv, OpenedWhatItNeeds
<1> QED
  BY <1>2, <1>3, <1>4

(* The deferred calls close what is held, in the turned order.  *)
LEMMA DeferralsStay ==
  ASSUME CommandInv, CommandNext
  PROVE  DefersWhatIsHeld'
<1>1. /\ deferred \in {<<>>, <<"database">>, <<"mcp">>, <<"database", "mcp">>}
      /\ held \intersect {"database", "mcp"} = ToSet(deferred)
      /\ gone \intersect {"database", "mcp"} # {} =>
           phase \in {"unwinding", "over"}
      /\ phase = "over" /\ ~skipped => deferred = <<>>
  BY DEF CommandInv, DefersWhatIsHeld
<1>2. ASSUME Opens PROVE DefersWhatIsHeld'
  <2> DEFINE p == Head(left)
  <2>1. /\ phase = "opening" /\ phase' \in {"opening", "running"}
        /\ gone' = gone /\ held' = held \union {p}
        /\ deferred' = IF p \in {"database", "mcp"} THEN Append(deferred, p)
                       ELSE deferred
    BY <1>2 DEF Opens, Opened
  <2>2. p \notin held /\ gone = {} /\ (p = "database" => "mcp" \notin held)
    BY <2>1, NextToOpen
  <2> HIDE DEF p
  <2>3. CASE p = "database"
    <3>1. deferred = <<>>
      BY <1>1, <2>2, <2>3, Lists
    <3>2. deferred' = <<"database">>
      BY <2>1, <2>3, <3>1, OneBehind
    <3> QED
      BY <1>1, <2>1, <2>2, <2>3, <3>1, <3>2, Lists DEF DefersWhatIsHeld
  <2>4. CASE p = "mcp"
    <3>1. deferred \in {<<>>, <<"database">>}
      BY <1>1, <2>2, <2>4, Lists
    <3>2. /\ deferred = <<>> => deferred' = <<"mcp">>
          /\ deferred = <<"database">> => deferred' = <<"database", "mcp">>
      BY <2>1, <2>4, <3>1, OneBehind
    <3>3. ToSet(deferred') = ToSet(deferred) \union {"mcp"}
      BY <3>1, <3>2, Lists
    <3> QED
      BY <1>1, <2>1, <2>2, <2>4, <3>1, <3>2, <3>3 DEF DefersWhatIsHeld
  <2>5. CASE p \notin {"database", "mcp"}
    BY <1>1, <2>1, <2>2, <2>5 DEF DefersWhatIsHeld
  <2> QED
    BY <2>3, <2>4, <2>5
<1>3. ASSUME ClosesOne PROVE DefersWhatIsHeld'
  <2>1. /\ phase = "unwinding" /\ phase' = phase /\ deferred # <<>>
        /\ deferred' = Front(deferred) /\ held' = held \ {Last(deferred)}
    BY <1>3 DEF ClosesOne
  <2>2. /\ deferred' \in {<<>>, <<"database">>}
        /\ ToSet(deferred') = ToSet(deferred) \ {Last(deferred)}
    <3>1. ASSUME NEW d, deferred = <<d>>
          PROVE  /\ deferred' = <<>>
                 /\ ToSet(deferred') = ToSet(deferred) \ {Last(deferred)}
      <4>1. Front(<<d>>) = <<>> /\ Last(<<d>>) = d
        BY OneBehind
      <4>2. ToSet(<<>>) = {} /\ ToSet(<<d>>) = {d}
        BY Lists
      <4> QED
        BY <2>1, <3>1, <4>1, <4>2
    <3>2. ASSUME deferred = <<"database", "mcp">>
          PROVE  /\ deferred' = <<"database">>
                 /\ ToSet(deferred') = ToSet(deferred) \ {Last(deferred)}
      <4>1. /\ Front(<<"database", "mcp">>) = <<"database">>
            /\ Last(<<"database", "mcp">>) = "mcp"
        BY OneBehind
      <4>2. /\ ToSet(<<"database">>) = {"database"}
            /\ ToSet(<<"database", "mcp">>) = {"database", "mcp"}
        BY Lists
      <4> QED
        BY <2>1, <3>2, <4>1, <4>2
    <3> QED
      BY <1>1, <2>1, <3>1, <3>2
  <2> QED
    BY <1>1, <2>1, <2>2 DEF DefersWhatIsHeld
<1>4. ASSUME ~ Opens, ~ ClosesOne PROVE DefersWhatIsHeld'
  <2>1. /\ deferred' = deferred
        /\ held' \intersect {"database", "mcp"} = held \intersect {"database", "mcp"}
        /\ gone' \intersect {"database", "mcp"} = gone \intersect {"database", "mcp"}
        /\ phase \in {"unwinding", "over"} => phase' \in {"unwinding", "over"}
        /\ phase' = "over" /\ ~skipped' =>
             deferred = <<>> \/ (phase = "over" /\ ~skipped)
    <3>1. ASSUME StopNext
          PROVE  /\ deferred' = deferred /\ phase' = phase /\ skipped' = skipped
                 /\ \E p \in Feeders :
                      held' = held \ {p} /\ gone' = gone \union {p}
      <4>1. stops # <<>> /\ Head(stops) \in Feeders
        <5>1. stops # <<>>
          BY <3>1 DEF StopNext, BeingStopped
        <5> QED
          BY <5>1, Lists DEF CommandInv, StopsWhatFeeds, Feeders
      <4> QED
        BY <3>1, <4>1 DEF StopNext, BeingStopped
    <3>2. ASSUME ~ StopNext
          PROVE  /\ deferred' = deferred
                 /\ \/ held' = held /\ gone' = gone
                    \/ \E p \in Feeders :
                         held' = held \ {p} /\ gone' = gone \union {p}
                 /\ phase \in {"unwinding", "over"} => phase' \in {"unwinding", "over"}
                 /\ phase' = "over" /\ ~skipped' =>
                      deferred = <<>> \/ (phase = "over" /\ ~skipped)
      BY <1>4, <3>2, CommandSteps
         DEF CommandStep, TurnStep, Launch, GoesWithout, Opened, OpenFails,
             Signal, Shuts, AllStopped, ServerFails, CloseSession,
             CloseReturns, QuitAtOnce, ScreenFails, ScreenEnds, Returns,
             TurnBegins, TurnEnds, Feeders
    <3>3. \A p \in Feeders : p \notin {"database", "mcp"}
      BY DEF Feeders
    <3> QED
      BY <3>1, <3>2, <3>3
  <2> QED
    BY <1>1, <2>1 DEF DefersWhatIsHeld
<1> QED
  BY <1>2, <1>3, <1>4


(* What is still to be stopped covers all that takes on turns.  *)
LEMMA StopsStillCover ==
  ASSUME CommandInv, CommandNext
  PROVE  StopsWhatFeeds'
<1>1. /\ LeftRunning' = LeftRunning /\ cmd \in Commands
      /\ LeftRunning \subseteq {"adapters"}
  BY CommandStays DEF CommandInv, CommandTypeOK, Commands, LeftRunning
<1>2. /\ stops \in {<<>>, <<"adapters">>, <<"server">>, <<"engine">>,
                    <<"engine", "adapters">>}
      /\ ToSet(stops) \subseteq held
      /\ phase = "stopping" =>
           held \intersect Feeders \subseteq ToSet(stops) \union LeftRunning
      /\ phase # "stopping" => stops = <<>>
      /\ phase \in {"unwinding", "over"} =>
           held \intersect Feeders \subseteq LeftRunning
  BY DEF CommandInv, StopsWhatFeeds
<1>3. ASSUME OpenFails PROVE StopsWhatFeeds'
  <2>1. /\ phase = "opening" /\ phase' = "stopping" /\ held' = held
        /\ stops' = FailureStops(Head(left))
    BY <1>3 DEF OpenFails
  <2>2. /\ held \intersect Feeders \subseteq
             (IF cmd \in {"webhook", "cron"} THEN {"adapters"} ELSE {})
        /\ (cmd = "cron" /\ "adapters" \in held) =>
             Head(left) \in {"jobs", "engine"}
    BY <2>1, NextToOpen
  <2>3. CASE cmd = "cron" /\ "adapters" \in held
    <3>1. stops' = <<"adapters">> /\ ToSet(stops') = {"adapters"}
      BY <2>1, <2>2, <2>3, Lists DEF FailureStops, Multiplexer
    <3> QED
      BY <1>1, <2>1, <2>2, <2>3, <3>1 DEF StopsWhatFeeds, Feeders
  <2>4. CASE ~(cmd = "cron" /\ "adapters" \in held)
    <3>1. stops' = <<>> /\ ToSet(stops') = {}
      BY <2>1, <2>4, Lists DEF FailureStops, Multiplexer
    <3> QED
      BY <1>1, <2>1, <2>2, <2>4, <3>1
         DEF StopsWhatFeeds, LeftRunning, Feeders
  <2> QED
    BY <2>3, <2>4
<1>4. ASSUME Shuts PROVE StopsWhatFeeds'
  <2>1. /\ phase = "running" /\ phase' = "stopping" /\ held' = held
        /\ stops' = ShutdownStops /\ cmd \in Daemons
    BY <1>4 DEF Shuts, CommandInv, CommandTypeOK
  <2>2. CASE cmd = "gateway"
    <3>1. stops' = <<"adapters">> /\ ToSet(stops') = {"adapters"}
      BY <2>1, <2>2, Lists DEF ShutdownStops
    <3>2. "adapters" \in held /\ held \intersect Feeders \subseteq {"adapters"}
      BY <2>1, <2>2, HeldByCommand DEF CommandInv, OpenedWhatItNeeds
    <3> QED
      BY <1>1, <2>1, <3>1, <3>2 DEF StopsWhatFeeds, Feeders
  <2>3. CASE cmd \in {"serve", "webhook"}
    <3>1. stops' = <<"server">> /\ ToSet(stops') = {"server"}
      BY <2>1, <2>3, Lists DEF ShutdownStops
    <3>2. /\ "server" \in held
          /\ held \intersect Feeders \subseteq {"server"} \union LeftRunning
      BY <2>1, <2>3, HeldByCommand DEF CommandInv, OpenedWhatItNeeds, LeftRunning
    <3> QED
      BY <1>1, <2>1, <3>1, <3>2 DEF StopsWhatFeeds, Feeders
  <2>4. CASE cmd = "cron"
    <3>1. /\ "engine" \in held
          /\ held \intersect Feeders \subseteq {"engine", "adapters"}
      BY <2>1, <2>4, HeldByCommand DEF CommandInv, OpenedWhatItNeeds
    <3>2. CASE "adapters" \in held
      <4>1. stops' = <<"engine", "adapters">>
        BY <2>1, <2>4, <3>2, OneBehind DEF ShutdownStops, Multiplexer
      <4>2. ToSet(stops') = {"engine", "adapters"}
        BY <4>1, Lists
      <4> QED
        BY <1>1, <2>1, <3>1, <3>2, <4>1, <4>2 DEF StopsWhatFeeds, Feeders
    <3>3. CASE "adapters" \notin held
      <4>1. stops' = <<"engine">>
        BY <2>1, <2>4, <3>3, OneBehind DEF ShutdownStops, Multiplexer
      <4>2. ToSet(stops') = {"engine"}
        BY <4>1, Lists
      <4> QED
        BY <1>1, <2>1, <3>1, <3>3, <4>1, <4>2 DEF StopsWhatFeeds, Feeders
    <3> QED
      BY <3>2, <3>3
  <2> QED
    BY <2>1, <2>2, <2>3, <2>4 DEF Daemons
<1>5. ASSUME StopNext PROVE StopsWhatFeeds'
  <2>1. /\ phase = "stopping" /\ phase' = phase /\ stops # <<>>
        /\ stops' = Tail(stops) /\ held' = held \ {Head(stops)}
    BY <1>5 DEF StopNext, BeingStopped
  <2>2. ASSUME NEW p, stops = <<p>>
        PROVE  stops' = <<>> /\ ToSet(stops) = {p} /\ held' = held \ {p}
               /\ ToSet(<<>>) = {}
    BY <2>1, <2>2, Lists
  <2>3. ASSUME stops = <<"engine", "adapters">>
        PROVE  /\ stops' = <<"adapters">> /\ held' = held \ {"engine"}
               /\ ToSet(stops) = {"engine", "adapters"}
               /\ ToSet(<<"adapters">>) = {"adapters"}
    BY <2>1, <2>3, Lists
  <2>4. CASE stops = <<"engine", "adapters">>
    BY <1>1, <1>2, <2>1, <2>3, <2>4 DEF StopsWhatFeeds
  <2>5. CASE stops \in {<<"adapters">>, <<"server">>, <<"engine">>}
    BY <1>1, <1>2, <2>1, <2>2, <2>5 DEF StopsWhatFeeds
  <2> QED
    BY <1>2, <2>1, <2>4, <2>5
<1>6. ASSUME AllStopped \/ Returns PROVE StopsWhatFeeds'
  <2>1. /\ phase \in {"stopping", "unwinding"} /\ phase' \in {"unwinding", "over"}
        /\ held' = held /\ stops' = stops /\ stops = <<>>
    BY <1>2, <1>6 DEF AllStopped, Returns
  <2> QED
    BY <1>1, <1>2, <2>1, Lists DEF StopsWhatFeeds
<1>7. ASSUME ServerFails \/ CloseReturns \/ QuitAtOnce \/ ScreenFails
      PROVE  StopsWhatFeeds'
  <2>1. /\ phase \in {"running", "closing"} /\ phase' \in {"unwinding", "over"}
        /\ stops' = stops
        /\ \E p \in held \intersect {"server", "screen"} : held' = held \ {p}
    BY <1>7 DEF ServerFails, CloseReturns, QuitAtOnce, ScreenFails, ScreenEnds
  <2>2. stops' = <<>> /\ ToSet(stops') = {}
    BY <1>2, <2>1, Lists
  <2>3. held' \intersect Feeders \subseteq LeftRunning
    BY <1>1, <2>1, HeldByCommand DEF LeftRunning, Feeders, Commands, Daemons
  <2> QED
    BY <1>1, <2>1, <2>2, <2>3 DEF StopsWhatFeeds
<1>8. ASSUME ClosesOne PROVE StopsWhatFeeds'
  <2>1. /\ phase = "unwinding" /\ phase' = phase /\ stops' = stops
        /\ held' \subseteq held
    BY <1>8 DEF ClosesOne
  <2> QED
    BY <1>1, <1>2, <2>1, Lists DEF StopsWhatFeeds
<1>9. ASSUME Launch \/ Opens \/ GoesWithout \/ CloseSession
      PROVE  StopsWhatFeeds'
  <2>1. /\ phase \notin {"stopping", "unwinding", "over"}
        /\ phase' \notin {"stopping", "unwinding", "over"}
        /\ stops' = stops
    BY <1>9 DEF Launch, Opens, GoesWithout, Opened, CloseSession
  <2> QED
    BY <1>1, <1>2, <2>1, Lists DEF StopsWhatFeeds
<1>10. ASSUME Signal \/ \E s \in Sources : TurnStep(s) PROVE StopsWhatFeeds'
  <2>1. phase' = phase /\ held' = held /\ stops' = stops
    BY <1>10 DEF Signal, TurnStep, TurnBegins, TurnEnds
  <2> QED
    BY <1>1, <1>2, <2>1 DEF StopsWhatFeeds
<1> QED
  BY <1>3, <1>4, <1>5, <1>6, <1>7, <1>8, <1>9, <1>10, CommandSteps
     DEF CommandStep

(* A turn loses its source only in the step that stops waiting for it.  *)
LEMMA TurnsKeepSources ==
  ASSUME CommandInv, CommandNext
  PROVE  TurnsHaveSources'
<1>1. /\ cmd' = cmd /\ Unattended' = Unattended /\ cut \subseteq cut'
      /\ \A p : Feeds(p)' = Feeds(p)
  BY CommandStays
<1>2. /\ \A s \in busy :
           s \in cut \union Unattended \/ \E p \in held : s \in Feeds(p)
      /\ "job" \in busy => "engine" \in held
      /\ "engine" \in held => "adapters" \notin gone
      /\ phase = "closing" => cmd = "terminal" /\ "screen" \in held
      /\ phase = "over" => busy = {}
  BY DEF CommandInv, TurnsHaveSources
<1>3. ASSUME StopNext PROVE TurnsHaveSources'
  <2>1. PICK p \in held :
          /\ phase = "stopping" /\ stops # <<>> /\ Head(stops) = p
          /\ Feeds(p) \intersect busy \intersect Awaited = {}
          /\ held' = held \ {p} /\ gone' = gone \union {p}
          /\ cut' = cut \union (Feeds(p) \intersect busy)
    BY <1>3 DEF StopNext, BeingStopped
  <2>2. phase' = phase /\ busy' = busy
    BY <1>3 DEF StopNext
  <2>3. \A s \in busy' :
          s \in cut' \union Unattended \/ \E q \in held' : s \in Feeds(q)
    BY <1>2, <2>1, <2>2
  <2>4. "job" \in busy' => "engine" \in held'
    BY <1>2, <2>1, <2>2, FeedsAre DEF Awaited
  <2>5. "engine" \in held' => "adapters" \notin gone'
    <3>1. p = "adapters" => ToSet(stops) \subseteq {"adapters"}
      BY <2>1, Lists DEF CommandInv, StopsWhatFeeds
    <3>2. p = "adapters" => "engine" \notin held
      BY <2>1, <3>1 DEF CommandInv, StopsWhatFeeds, LeftRunning, Feeders
    <3> QED
      BY <1>2, <2>1, <3>2
  <2> QED
    BY <1>1, <2>1, <2>2, <2>3, <2>4, <2>5 DEF TurnsHaveSources
<1>4. ASSUME ServerFails PROVE TurnsHaveSources'
  <2>1. /\ phase' = "unwinding" /\ busy' = busy
        /\ held' = held \ {"server"} /\ gone' = gone \union {"server"}
        /\ cut' = cut \union (Feeds("server") \intersect busy)
    BY <1>4 DEF ServerFails
  <2>2. \A s \in busy' :
          s \in cut' \union Unattended \/ \E q \in held' : s \in Feeds(q)
    BY <1>2, <2>1
  <2> QED
    BY <1>1, <1>2, <2>1, <2>2 DEF TurnsHaveSources
<1>5. ASSUME QuitAtOnce PROVE TurnsHaveSources'
  <2>1. /\ phase' = "unwinding" /\ busy' = busy /\ cut' = cut \union busy
        /\ held' = held \ {"screen"} /\ gone' = gone \union {"screen"}
    BY <1>5 DEF QuitAtOnce, ScreenEnds
  <2> QED
    BY <1>1, <1>2, <2>1 DEF TurnsHaveSources
<1>6. ASSUME CloseReturns \/ ScreenFails \/ Returns PROVE TurnsHaveSources'
  <2>1. /\ phase' \in {"unwinding", "over"} /\ busy' = {} /\ held' \subseteq held
        /\ gone' \subseteq gone \union {"screen"}
    BY <1>6 DEF CloseReturns, ScreenFails, Returns, ScreenEnds
  <2> QED
    BY <1>2, <2>1 DEF TurnsHaveSources
<1>7. ASSUME CloseSession PROVE TurnsHaveSources'
  <2>1. /\ phase' = "closing" /\ busy' = {"screen"} /\ "screen" \in held
        /\ held' = held /\ gone' = gone
    BY <1>7 DEF CloseSession
  <2>2. cmd = "terminal"
    BY <2>1, HeldByCommand
       DEF CommandInv, CommandTypeOK, Feeders, Daemons
  <2> QED
    BY <1>1, <1>2, <2>1, <2>2, FeedsAre DEF TurnsHaveSources
<1>8. ASSUME ClosesOne PROVE TurnsHaveSources'
  <2>1. /\ phase = "unwinding" /\ phase' = phase /\ busy' = busy /\ cut' = cut
        /\ held' = held \ {Last(deferred)} /\ gone' = gone \union {Last(deferred)}
    BY <1>8 DEF ClosesOne
  <2>2. Last(deferred) \in {"database", "mcp"}
    BY <1>8, OneBehind, ZenonT(30) DEF CommandInv, DefersWhatIsHeld, ClosesOne
  <2>3. \A s \in busy' :
          s \in cut' \union Unattended \/ \E q \in held' : s \in Feeds(q)
    BY <1>2, <2>1, <2>2, FeedsAre
  <2> QED
    BY <1>1, <1>2, <2>1, <2>2, <2>3 DEF TurnsHaveSources
<1>9. ASSUME NEW s \in Sources, TurnBegins(s) PROVE TurnsHaveSources'
  <2>1. /\ phase' = phase /\ held' = held /\ gone' = gone /\ cut' = cut
        /\ busy' = busy \union {s} /\ phase \notin {"closing", "over"}
        /\ \E p \in held : s \in Feeds(p)
    BY <1>9 DEF TurnBegins
  <2>2. "job" \in busy' => "engine" \in held'
    BY <1>2, <2>1, FeedsAre
  <2> QED
    BY <1>1, <1>2, <2>1, <2>2 DEF TurnsHaveSources
<1>10. ASSUME NEW s \in Sources, TurnEnds(s) PROVE TurnsHaveSources'
  <2>1. /\ phase' = phase /\ held' = held /\ gone' = gone /\ cut' = cut
        /\ busy' \subseteq busy
    BY <1>10 DEF TurnEnds
  <2> QED
    BY <1>1, <1>2, <2>1 DEF TurnsHaveSources
<1>11. ASSUME Opens \/ GoesWithout PROVE TurnsHaveSources'
  <2>1. /\ phase = "opening" /\ phase' \in {"opening", "running"}
        /\ held \subseteq held' /\ gone' = gone /\ cut' = cut /\ busy' = busy
    BY <1>11 DEF Opens, GoesWithout, Opened
  <2>2. gone = {}
    BY <2>1, NextToOpen
  <2> QED
    BY <1>1, <1>2, <2>1, <2>2 DEF TurnsHaveSources
<1>12. ASSUME Launch \/ OpenFails \/ Signal \/ Shuts \/ AllStopped
       PROVE  TurnsHaveSources'
  <2>1. /\ held' = held /\ gone' = gone /\ cut' = cut /\ busy' = busy
        /\ phase' = phase \/ phase' \notin {"closing", "over"}
    BY <1>12 DEF Launch, OpenFails, Signal, Shuts, AllStopped
  <2> QED
    BY <1>1, <1>2, <2>1 DEF TurnsHaveSources
<1> QED
  BY <1>3, <1>4, <1>5, <1>6, <1>7, <1>8, <1>9, <1>10, <1>11, <1>12,
     CommandSteps DEF CommandStep, TurnStep

LEMMA CommandTypesStay ==
  ASSUME CommandInv, CommandNext, DefersWhatIsHeld', StopsWhatFeeds'
  PROVE  CommandTypeOK'
<1>1. CommandTypeOK /\ cmd' = cmd
  BY CommandStays DEF CommandInv
<1>2. stops' \in Seq(Parts)
  <2>1. /\ <<>> \in Seq(Parts) /\ <<"engine", "adapters">> \in Seq(Parts)
        /\ <<"adapters">> \in Seq(Parts) /\ <<"server">> \in Seq(Parts)
        /\ <<"engine">> \in Seq(Parts)
    BY DEF Parts
  <2> QED
    BY <2>1 DEF StopsWhatFeeds
<1>3. /\ deferred' \in Seq({"database", "mcp"})
      /\ ToSet(deferred') \subseteq held'
  <2> DEFINE Closed == Seq({"database", "mcp"})
  <2>1. /\ <<>> \in Closed /\ <<"database", "mcp">> \in Closed
        /\ <<"database">> \in Closed /\ <<"mcp">> \in Closed
    OBVIOUS
  <2> HIDE DEF Closed
  <2>2. deferred' \in Closed /\ ToSet(deferred') \subseteq held'
    BY <2>1 DEF DefersWhatIsHeld
  <2> QED
    BY <2>2 DEF Closed
<1>4. phase = "opening" =>
        /\ Head(left) \in Parts \ held /\ gone = {}
        /\ Tail(left) \in Seq(Parts)
  BY NextToOpen
<1>5. /\ left' \in Seq(Parts) /\ signalled' \in BOOLEAN /\ skipped' \in BOOLEAN
      /\ signalled' => cmd' \in Daemons
      /\ phase' \in {"shell", "opening", "running", "closing", "stopping",
                     "unwinding", "over"}
  <2>1. left' = left \/ (phase = "opening" /\ left' = Tail(left))
    BY CommandSteps
       DEF CommandStep, TurnStep, Launch, Opens, GoesWithout, Opened,
           OpenFails, Signal, Shuts, StopNext, AllStopped, ServerFails,
           CloseSession, CloseReturns, QuitAtOnce, ScreenFails, ScreenEnds,
           ClosesOne, Returns, TurnBegins, TurnEnds
  <2>2. skipped' = skipped \/ skipped' = TRUE
    BY CommandSteps
       DEF CommandStep, TurnStep, Launch, Opens, GoesWithout, Opened,
           OpenFails, Signal, Shuts, StopNext, AllStopped, ServerFails,
           CloseSession, CloseReturns, QuitAtOnce, ScreenFails, ScreenEnds,
           ClosesOne, Returns, TurnBegins, TurnEnds
  <2>3. signalled' = signalled \/ (signalled' = TRUE /\ cmd \in Daemons)
    BY CommandSteps
       DEF CommandStep, TurnStep, Launch, Opens, GoesWithout, Opened,
           OpenFails, Signal, Shuts, StopNext, AllStopped, ServerFails,
           CloseSession, CloseReturns, QuitAtOnce, ScreenFails, ScreenEnds,
           ClosesOne, Returns, TurnBegins, TurnEnds
  <2>4. \/ phase' = phase
        \/ phase' \in {"opening", "running", "closing", "stopping",
                       "unwinding", "over"}
    BY CommandSteps
       DEF CommandStep, TurnStep, Launch, Opens, GoesWithout, Opened,
           OpenFails, Signal, Shuts, StopNext, AllStopped, ServerFails,
           CloseSession, CloseReturns, QuitAtOnce, ScreenFails, ScreenEnds,
           ClosesOne, Returns, TurnBegins, TurnEnds
  <2> QED
    <3>1. left' \in Seq(Parts)
      BY <1>1, <1>4, <2>1 DEF CommandTypeOK
    <3>2. skipped' \in BOOLEAN
      BY <1>1, <2>2 DEF CommandTypeOK
    <3>3. signalled' \in BOOLEAN /\ (signalled' => cmd' \in Daemons)
      <4>1. CASE signalled' = signalled
        BY <1>1, <4>1 DEF CommandTypeOK
      <4>2. CASE signalled' = TRUE /\ cmd \in Daemons
        BY <1>1, <4>2
      <4> QED
        BY <2>3, <4>1, <4>2
    <3>4. phase' \in {"shell", "opening", "running", "closing", "stopping",
                      "unwinding", "over"}
      BY <1>1, <2>4 DEF CommandTypeOK
    <3> QED
      BY <3>1, <3>2, <3>3, <3>4
<1>6. cut' \subseteq Sources /\ busy' \subseteq Sources
  BY <1>1, CommandSteps
     DEF CommandTypeOK, CommandStep, TurnStep, Launch, Opens, GoesWithout,
         Opened, OpenFails, Signal, Shuts, StopNext, AllStopped, ServerFails,
         CloseSession, CloseReturns, QuitAtOnce, ScreenFails, ScreenEnds,
         ClosesOne, Returns, TurnBegins, TurnEnds, Sources
<1>7. \/ held' = held /\ gone' = gone
      \/ phase = "opening" /\ held' = held \union {Head(left)} /\ gone' = gone
      \/ \E p \in held : held' = held \ {p} /\ gone' = gone \union {p}
  <2>1. ClosesOne => Last(deferred) \in held
    <3>1. ASSUME ClosesOne
          PROVE  /\ deferred \in {<<"database">>, <<"mcp">>, <<"database", "mcp">>}
                 /\ ToSet(deferred) \subseteq held
      BY <3>1 DEF CommandInv, DefersWhatIsHeld, ClosesOne
    <3>2. \A d : Last(<<d>>) = d /\ ToSet(<<d>>) = {d}
      BY OneBehind, Lists
    <3>3. /\ Last(<<"database", "mcp">>) = "mcp"
          /\ ToSet(<<"database", "mcp">>) = {"database", "mcp"}
      BY OneBehind, Lists
    <3> QED
      BY <3>1, <3>2, <3>3
  <2> QED
    BY <2>1, CommandSteps
       DEF CommandStep, TurnStep, Launch, Opens, GoesWithout, Opened,
           OpenFails, Signal, Shuts, StopNext, AllStopped, ServerFails,
           CloseSession, CloseReturns, QuitAtOnce, ScreenFails, ScreenEnds,
           ClosesOne, Returns, TurnBegins, TurnEnds
<1>8. /\ held' \subseteq Parts /\ gone' \subseteq Parts
      /\ held' \intersect gone' = {}
  BY <1>1, <1>4, <1>7 DEF CommandTypeOK
<1> QED
  BY <1>1, <1>2, <1>3, <1>5, <1>6, <1>8 DEF CommandTypeOK

LEMMA CommandStarts == CommandInit => CommandInv
<1> SUFFICES ASSUME CommandInit PROVE CommandInv
  OBVIOUS
<1>1. /\ cmd \in Commands /\ left = Plan /\ phase = "shell" /\ held = {}
      /\ gone = {} /\ deferred = <<>> /\ stops = <<>> /\ ~ signalled
      /\ busy = {} /\ cut = {} /\ ~ skipped
      /\ signalled \in BOOLEAN /\ skipped \in BOOLEAN
  BY DEF CommandInit, Commands, Plan
<1>2. Plan \in Seq(Parts) /\ Len(Plan) \in {7, 8}
  BY <1>1, PlanFacts
<1>3. CommandTypeOK
  BY <1>1, <1>2, Lists DEF CommandTypeOK, Commands
<1>4. OpensInOrder
  <2>1. /\ 1 \in 1 .. Len(Plan) + 1 /\ Len(left) = Len(Plan) + 1 - 1
        /\ 1 <= Len(Plan)
    <3>1. left = Plan
      BY <1>1
    <3> QED
      BY ONLY <1>2, <3>1, SMTT(30)
  <2>2. \A i \in 1 .. Len(left) : left[i] = Plan[i + 1 - 1]
    <3> SUFFICES ASSUME NEW i \in 1 .. Len(left)
                 PROVE  left[i] = Plan[i + 1 - 1]
      OBVIOUS
    <3>3. left = Plan
      BY <1>1
    <3>2. Len(left) \in {7, 8}
      BY ONLY <1>2, <3>3
    <3>1. i + 1 - 1 = i
      BY ONLY <3>2, i \in 1 .. Len(left)
    <3> QED
      BY <1>1, <3>1
  <2> QED
    BY <1>1, <2>1, <2>2 DEF OpensInOrder
<1>5. OpenedWhatItNeeds /\ DefersWhatIsHeld /\ StopsWhatFeeds
  BY <1>1, Lists DEF OpenedWhatItNeeds, DefersWhatIsHeld, StopsWhatFeeds
<1>6. TurnsHaveSources
  BY <1>1 DEF TurnsHaveSources
<1> QED
  BY <1>3, <1>4, <1>5, <1>6 DEF CommandInv

LEMMA CommandGoesOn == CommandInv /\ [CommandNext]_commandVars => CommandInv'
<1> SUFFICES ASSUME CommandInv, [CommandNext]_commandVars
             PROVE  CommandInv'
  OBVIOUS
<1>1. CASE CommandNext
  BY <1>1, OpeningStaysInOrder, NeedsStayOpen, DeferralsStay, StopsStillCover,
     TurnsKeepSources, CommandTypesStay DEF CommandInv
<1>2. CASE UNCHANGED commandVars
  <2> USE <1>2 DEF commandVars
  <2>1. CommandTypeOK' /\ OpenedWhatItNeeds' /\ DefersWhatIsHeld'
    BY DEF CommandInv, CommandTypeOK, OpenedWhatItNeeds, DefersWhatIsHeld
  <2>2. OpensInOrder'
    <3>1. Plan' = Plan
      BY DEF Plan, PlanOf
    <3> QED
      BY <3>1 DEF CommandInv, OpensInOrder
  <2>3. StopsWhatFeeds'
    BY DEF CommandInv, StopsWhatFeeds, LeftRunning
  <2>4. TurnsHaveSources'
    <3>1. Unattended' = Unattended /\ \A p : Feeds(p)' = Feeds(p)
      BY DEF Unattended, Feeds
    <3> QED
      BY <3>1 DEF CommandInv, TurnsHaveSources
  <2> QED
    BY <2>1, <2>2, <2>3, <2>4 DEF CommandInv
<1> QED
  BY <1>1, <1>2

(* Whichever command runs, however far it came and whatever made it stop,   *)
(* the database and the tool servers outlast every turn that is waited for, *)
(* a job's adapters outlast the job, and nothing stays open                 *)
(* (cmd/agis: gateway.go, serve.go, webhook.go, cron.go, session.go).       *)
THEOREM CommandsEndWell == CommandSpec => []CommandsEndInOrder
<1>1. CommandInv => NothingClosedUnderTurn
  <2> SUFFICES ASSUME CommandInv, gone \intersect {"database", "mcp"} # {},
                      NEW s \in busy, s \notin cut, s \notin Unattended
               PROVE  FALSE
    BY DEF NothingClosedUnderTurn
  <2>1. phase = "unwinding"
    BY DEF CommandInv, DefersWhatIsHeld, TurnsHaveSources
  <2>2. PICK p \in held : s \in Feeds(p)
    BY DEF CommandInv, TurnsHaveSources
  <2>3. p \in LeftRunning
    BY <2>1, <2>2, FeedsAre DEF CommandInv, StopsWhatFeeds
  <2> QED
    BY <2>2, <2>3, FeedsAre DEF LeftRunning
<1>2. CommandInv => JobsKeepTheirAdapters
  BY DEF CommandInv, TurnsHaveSources, JobsKeepTheirAdapters
<1>3. CommandInv => NothingLeftOpen
  <2> SUFFICES ASSUME CommandInv, phase = "over", ~skipped
               PROVE  held \intersect ({"database", "mcp"} \union Feeders)
                        \subseteq LeftRunning
    BY DEF NothingLeftOpen, Feeders, LeftRunning
  <2>1. held \intersect {"database", "mcp"} = {}
    BY Lists DEF CommandInv, DefersWhatIsHeld
  <2>2. held \intersect Feeders \subseteq LeftRunning
    BY DEF CommandInv, StopsWhatFeeds
  <2> QED
    BY <2>1, <2>2
<1>4. CommandInv => CommandsEndInOrder
  BY <1>1, <1>2, <1>3 DEF CommandsEndInOrder
<1> QED
  BY CommandStarts, CommandGoesOn, <1>4, PTL DEF CommandSpec

-----------------------------------------------------------------------------
(* The four beside each other, as the run has them: whichever a behaviour   *)
(* is about, all of them keep their types; no count of readers, tokens,     *)
(* turns or tries leaves its range, and what an adapter has read, answered  *)
(* or has in hand was posted (app.go, multiplexer.go, internal/gateway,     *)
(* cmd/agis).                                                               *)
THEOREM FrontEndsKeepTypes == FrontEndsSpec => []FrontEndsTypeOK
<1> DEFINE I == TuiInv /\ RoutingInv /\ PlatformInv /\ CommandInv
<1>1. FrontEndsInit => I
  BY TuiStarts, RoutingStarts, PlatformStarts, CommandStarts,
     PlatformAssumption DEF FrontEndsInit
<1>2. ASSUME I, [FrontEndsNext]_frontVars PROVE I'
  <2>1. /\ [TuiNext]_tuiVars /\ [RoutingNext]_routingVars
        /\ [PlatformNext]_platformVars /\ [CommandNext]_commandVars
    BY <1>2 DEF FrontEndsNext, frontVars
  <2> QED
    BY <1>2, <2>1, TuiGoesOn, RoutingGoesOn, PlatformGoesOn, CommandGoesOn,
       PlatformAssumption
<1>3. I => FrontEndsTypeOK
  BY PlatformIsTyped, PlatformAssumption
     DEF TuiInv, RoutingInv, CommandInv, FrontEndsTypeOK
<1> HIDE DEF I
<1> QED
  BY <1>1, <1>2, <1>3, PTL DEF FrontEndsSpec

(* The parts keep beside each other what each keeps for itself: what is     *)
(* streamed or asked reaches the user, keys keep their conversations,       *)
(* messages are delivered and commands end in order (app.go,                *)
(* multiplexer.go, internal/gateway, cmd/agis).                             *)
THEOREM FrontEndsHold ==
  FrontEndsSpec =>
    [](/\ TurnReachesUser /\ KeysKeepConversations /\ RepliesMatchMessages
       /\ MessagesDelivered /\ CommandsEndInOrder)
<1>1. FrontEndsInit => TuiInit /\ RoutingInit /\ PlatformInit /\ CommandInit
  BY DEF FrontEndsInit
<1>2. [FrontEndsNext]_frontVars =>
        /\ [TuiNext]_tuiVars /\ [RoutingNext]_routingVars
        /\ [PlatformNext]_platformVars /\ [CommandNext]_commandVars
  BY DEF FrontEndsNext, frontVars
<1>3. FrontEndsSpec => TuiSpec /\ RoutingSpec /\ PlatformSpec /\ CommandSpec
  BY <1>1, <1>2, PTL
     DEF FrontEndsSpec, TuiSpec, RoutingSpec, PlatformSpec, CommandSpec
<1> QED
  BY <1>3, TurnsReachTheUser, KeysKeepTheirConversations,
     RepliesStandBehindMessages, MessagesAreDelivered, CommandsEndWell, PTL
=============================================================================
