-------------------------- MODULE PlatformDelivery --------------------------
(***************************************************************************)
(* The daemon `agis gateway` between the chat platforms and the handler of  *)
(* SessionRouting: the multiplexer that starts and stops the adapters, and  *)
(* the adapters of internal/gateway.  Telegram's and Discord's poll with a  *)
(* cursor kept in memory; Slack's and WhatsApp's are web servers the        *)
(* platform calls, and calls again when it got no answer in time.           *)
(*                                                                         *)
(* A message is its place in the order in which one chat of the platform    *)
(* got it.  A task is what an adapter has in hand: a batch that was polled, *)
(* or one web request.  The turn itself succeeds or fails.                  *)
(***************************************************************************)
EXTENDS Integers, Sequences, FiniteSets, SequencesExt

CONSTANTS
  Adapters,
  Lineups,    (* the platforms of the adapters, "none" for one not enabled   *)
  KindsOn,    (* the kinds of messages tried on each platform: "text",       *)
              (* "voice", "stranger" (not on the allowlist, or a bot)        *)
  Window,     (* messages Discord gives for one request, 20 in the code      *)
  MaxPosts,   (* bound: messages posted to an adapter, for each line-up        *)
  MaxRuns,    (* bound: times the daemon is started                          *)
  MaxTries    (* bound: web requests for one message                         *)

ASSUME PlatformAssumption ==
  /\ Lineups \subseteq
       [Adapters -> {"telegram", "discord", "slack", "whatsapp", "none"}]
  /\ MaxPosts \in [Lineups -> Nat]
  /\ KindsOn \in [{"telegram", "discord", "slack", "whatsapp"} ->
                   SUBSET {"text", "voice", "stranger"}]
  /\ Window \in Nat \ {0}
  /\ {MaxRuns, MaxTries} \subseteq Nat

VARIABLES
  platform,
  daemon,     (* "off", "starting", "up", "stopping" or "rollback"           *)
  runs,
  running,    (* adapters started and not yet stopped                        *)
  shut,       (* adapters whose flag closed is set                           *)
  untidy,     (* a Shutdown ran into its timeout in this run                 *)
  posted,     (* for each adapter the kinds of the messages posted           *)
  cursor,     (* lastSeen, or offset - 1                                     *)
  base,       (* history: the cursor after the first poll of the run         *)
  forgotten,  (* Telegram does not offer messages up to this one any more    *)
  acked,      (* messages whose request was answered with 200                *)
  tries,      (* web requests made for each message                          *)
  tasks,
  read,       (* history: messages taken up in this run, in their order      *)
  fate        (* history: what became of each message the times it was done: *)
              (* a reply refused by the adapter, or all that can be done     *)

chats == <<posted, cursor, base, forgotten, acked, tries>>
platformVars == <<platform, daemon, runs, running, shut, untidy, chats,
                  tasks, read, fate>>

Polls(a) == platform[a] \in {"telegram", "discord"}
Fates == {"handled", "refused"}
Enabled == {a \in Adapters : platform[a] # "none"}
Posts == 1 .. MaxPosts[platform]
Messages(a) == DOMAIN posted[a]
Tasks == [msgs : Seq(Posts), left : Seq(Posts),
          stage : {"take", "turn", "reply"}, alive : BOOLEAN]

PlatformTypeOK ==
  /\ platform \in Lineups
  /\ daemon \in {"off", "starting", "up", "stopping", "rollback"}
  /\ runs \in 0 .. MaxRuns
  /\ running \subseteq Adapters /\ shut \subseteq running
  /\ untidy \in BOOLEAN
  /\ \A a \in Adapters :
       /\ posted[a] \in Seq({"text", "voice", "stranger"}) /\ Messages(a) \subseteq Posts
       /\ cursor[a] \in 0 .. Len(posted[a])
       /\ base[a] \in 0 .. cursor[a]
       /\ forgotten[a] \in 0 .. Len(posted[a])
       /\ acked[a] \subseteq Messages(a)
       /\ tries[a] \in [Posts -> 0 .. MaxTries]
       /\ tasks[a] \subseteq Tasks
       /\ Polls(a) => Cardinality(tasks[a]) <= 1
       /\ read[a] \in Seq(Messages(a))
       /\ \A m \in Posts : fate[a][m] \subseteq Fates

PlatformInit ==
  /\ platform \in Lineups
  /\ daemon = "off" /\ runs = 0
  /\ running = {} /\ shut = {} /\ untidy = FALSE
  /\ posted = [a \in Adapters |-> <<>>]
  /\ cursor = [a \in Adapters |-> 0] /\ base = [a \in Adapters |-> 0]
  /\ forgotten = [a \in Adapters |-> 0]
  /\ acked = [a \in Adapters |-> {}]
  /\ tries = [a \in Adapters |-> [m \in Posts |-> 0]]
  /\ tasks = [a \in Adapters |-> {}]
  /\ read = [a \in Adapters |-> <<>>]
  /\ fate = [a \in Adapters |-> [m \in Posts |-> {}]]

(* Somebody writes to the chat of an adapter. *)
Post(a, k) ==
  /\ Len(posted[a]) < MaxPosts[platform]
  /\ posted' = [posted EXCEPT ![a] = Append(@, k)]
  /\ UNCHANGED <<platform, daemon, runs, running, shut, untidy, cursor, base,
                 forgotten, acked, tries, tasks, read, fate>>

-----------------------------------------------------------------------------
(* The life of the daemon.                                                  *)

StartDaemon ==
  /\ daemon = "off" /\ runs < MaxRuns
  /\ daemon' = "starting" /\ runs' = runs + 1
  /\ UNCHANGED <<platform, running, shut, untidy, chats, tasks, read, fate>>

(* Adapters are started in any order (a map is ranged over).                *)
AdapterStarts(a) ==
  /\ daemon = "starting" /\ a \in Enabled \ running
  /\ running' = running \union {a}
  /\ daemon' = IF running' = Enabled THEN "up" ELSE "starting"
  /\ UNCHANGED <<platform, runs, shut, untidy, chats, tasks, read, fate>>

StartFailsAlone(a) ==
  /\ daemon = "starting" /\ a \in Enabled \ running /\ ~Polls(a)
  /\ daemon' = "rollback" /\ running' = {}
  /\ UNCHANGED <<platform, runs, shut, untidy, chats, tasks, read, fate>>

(* A web server cannot listen on its address: the adapters started before   *)
(* it are stopped one after the other.                                      *)
StartFails(a) ==
  /\ daemon = "starting" /\ a \in Enabled \ running /\ ~Polls(a)
  /\ daemon' = "rollback"
  /\ UNCHANGED <<platform, runs, running, shut, untidy, chats, tasks, read,
                 fate>>

(* A signal: the multiplexer cancels its context and stops all adapters.    *)
StopDaemon ==
  /\ daemon = "up"
  /\ daemon' = "stopping"
  /\ UNCHANGED <<platform, runs, running, shut, untidy, chats, tasks, read,
                 fate>>

(* The context of a polling loop and of the turns it runs is done.          *)
CancelledNever(a) == FALSE
Cancelled(a) == Polls(a) /\ (daemon = "stopping" \/ a \in shut)

CloseAdapter(a) ==
  /\ daemon \in {"stopping", "rollback"}
  /\ a \in running \ shut
  /\ daemon = "rollback" => shut = {}
  /\ shut' = shut \union {a}
  /\ UNCHANGED <<platform, daemon, runs, running, untidy, chats, tasks, read,
                 fate>>

Stopped(a) == running' = running \ {a} /\ shut' = shut \ {a}

PollerStopsEarly(a) ==
  /\ a \in shut /\ Polls(a) /\ Cancelled(a)
  /\ Stopped(a)
  /\ UNCHANGED <<platform, daemon, runs, untidy, chats, tasks, read, fate>>

(* Stop waits for the loop, and the loop leaves between two batches.        *)
PollerStops(a) ==
  /\ a \in shut /\ Polls(a) /\ Cancelled(a)
  /\ tasks[a] = {}
  /\ Stopped(a)
  /\ UNCHANGED <<platform, daemon, runs, untidy, chats, tasks, read, fate>>

(* Shutdown waits for the requests in hand, five seconds at most.           *)
ServerStops(a) ==
  /\ a \in shut /\ ~Polls(a)
  /\ Stopped(a)
  /\ untidy' = (untidy \/ tasks[a] # {})
  /\ UNCHANGED <<platform, daemon, runs, chats, tasks, read, fate>>

(* The process ends, by itself or killed; the cursors and what was in hand  *)
(* die with it.                                                             *)
Ends ==
  /\ daemon' = "off"
  /\ running' = {} /\ shut' = {} /\ untidy' = FALSE
  /\ cursor' = [a \in Adapters |-> 0] /\ base' = [a \in Adapters |-> 0]
  /\ tasks' = [a \in Adapters |-> {}]
  /\ read' = [a \in Adapters |-> <<>>]
  /\ UNCHANGED <<platform, runs, posted, forgotten, acked, tries, fate>>
Exit == daemon \in {"stopping", "rollback"} /\ running = {} /\ Ends
Die  == daemon # "off" /\ Ends

-----------------------------------------------------------------------------
(* Messages come in.                                                        *)

Task(ms) == [msgs |-> ms, left |-> ms, stage |-> "take", alive |-> TRUE]
Span(from, to) == [i \in 1 .. to - from + 1 |-> from + i - 1]

MayPollAhead(a) == a \in running /\ Polls(a) /\ ~Cancelled(a)
(* A batch is in the loop's hands until every message of it is done.        *)
MayPoll(a) == a \in running /\ Polls(a) /\ ~Cancelled(a) /\ tasks[a] = {}

Taken(a, from, to) ==
  /\ tasks' = IF from > to THEN tasks
              ELSE [tasks EXCEPT ![a] = @ \union {Task(Span(from, to))}]
  /\ cursor' = [cursor EXCEPT ![a] = IF from > to THEN @ ELSE to]
  /\ base' = [base EXCEPT ![a] = IF @ = 0 THEN cursor'[a] ELSE @]

Larger(x, y) == IF x > y THEN x ELSE y
Smaller(x, y) == IF x < y THEN x ELSE y

(* getUpdates: asking with an offset makes Telegram forget what is below,   *)
(* even when the answer does not arrive.                                    *)
TelegramPoll(a) ==
  /\ MayPoll(a) /\ platform[a] = "telegram"
  /\ forgotten' = [forgotten EXCEPT ![a] = Larger(@, cursor[a])]
  /\ \/ Taken(a, forgotten'[a] + 1, Len(posted[a]))
     \/ UNCHANGED <<tasks, cursor, base>>
  /\ UNCHANGED <<platform, daemon, runs, running, shut, untidy, posted,
                 acked, tries, read, fate>>

DiscordPollFromOldest(a) ==
  /\ MayPoll(a) /\ platform[a] = "discord"
  /\ LET first == cursor[a] = 0
         last  == Len(posted[a])
         from  == IF first THEN Larger(1, last - Window + 1) ELSE cursor[a] + 1
         to    == IF first THEN last ELSE Smaller(last, cursor[a] + Window)
     IN  /\ from <= to
         /\ tasks' = [tasks EXCEPT ![a] = @ \union {Task(Span(from, to))}]
         /\ cursor' = [cursor EXCEPT ![a] = from]
         /\ base' = [base EXCEPT ![a] = IF @ = 0 THEN to ELSE @]
  /\ UNCHANGED <<platform, daemon, runs, running, shut, untidy, posted,
                 forgotten, acked, tries, read, fate>>

(* Without a cursor Discord gives the newest messages, with one those right *)
(* behind it; the newest becomes the cursor, the oldest is handled first.   *)
DiscordPoll(a) ==
  /\ MayPoll(a) /\ platform[a] = "discord"
  /\ LET first == cursor[a] = 0
         last  == Len(posted[a])
     IN  IF first THEN Taken(a, Larger(1, last - Window + 1), last)
         ELSE Taken(a, cursor[a] + 1, Smaller(last, cursor[a] + Window))
  /\ UNCHANGED <<platform, daemon, runs, running, shut, untidy, posted,
                 forgotten, acked, tries, read, fate>>

(* The platform makes a request for messages it has no 200 for, not before  *)
(* it gave up the last request for them.                                    *)
Delivers(a, ms) ==
  /\ a \in running \ shut
  /\ \A i \in DOMAIN ms :
       /\ ms[i] \notin acked[a] /\ tries[a][ms[i]] < MaxTries
       /\ \A t \in tasks[a] : t.alive => ~Contains(t.msgs, ms[i])
  /\ tries' = [tries EXCEPT ![a] =
                 [m \in DOMAIN @ |-> IF Contains(ms, m) THEN @[m] + 1 ELSE @[m]]]
  /\ tasks' = [tasks EXCEPT ![a] = @ \union {Task(ms)}]
  /\ UNCHANGED <<platform, daemon, runs, running, shut, untidy, posted,
                 cursor, base, forgotten, acked, read, fate>>

SlackEvent(a) ==
  platform[a] = "slack" /\ \E m \in Messages(a) : Delivers(a, <<m>>)
WhatsAppEvent(a) ==
  /\ platform[a] = "whatsapp"
  /\ \E m, n \in Messages(a) : m <= n /\ Delivers(a, Span(m, n))

(* The platform hangs up, which cancels the request's context.              *)
GiveUpRequest(a, t) ==
  /\ ~Polls(a) /\ t.alive
  /\ tasks' = [tasks EXCEPT ![a] = (@ \ {t}) \union {[t EXCEPT !.alive = FALSE]}]
  /\ UNCHANGED <<platform, daemon, runs, running, shut, untidy, chats, read,
                 fate>>

-----------------------------------------------------------------------------
(* A message is taken up, gets its turn and its reply.                      *)

Replace(a, t, u) == tasks' = [tasks EXCEPT ![a] = (@ \ {t}) \union {u}]

AckFirst(a, t) ==
  acked' = [acked EXCEPT ![a] = IF Polls(a) THEN @ ELSE @ \union ToSet(t.msgs)]

(* The message is done; behind the last one the handler returns, and only   *)
(* then the status reaches the platform, if it still listens.               *)
Acknowledge(a, t) ==
  acked' = [acked EXCEPT ![a] =
              IF Polls(a) \/ ~t.alive \/ Len(t.left) > 1 THEN @
              ELSE @ \union ToSet(t.msgs)]

Done(a, t, f) ==
  /\ fate' = [fate EXCEPT ![a][Head(t.left)] = @ \union {f}]
  /\ Acknowledge(a, t)
  /\ IF Len(t.left) = 1 THEN tasks' = [tasks EXCEPT ![a] = @ \ {t}]
     ELSE Replace(a, t, [t EXCEPT !.left = Tail(@), !.stage = "take"])

Alive(a, t) == t.alive /\ ~Cancelled(a)

Takes(a, t, p) ==
  /\ t.stage = "take" /\ platform[a] = p
  /\ read' = [read EXCEPT ![a] = IF Polls(a) THEN Append(@, Head(t.left)) ELSE @]
  /\ UNCHANGED <<platform, daemon, runs, running, shut, untidy, posted, cursor,
                 base, forgotten, tries>>
Passes(a, t) == Replace(a, t, [t EXCEPT !.stage = "turn"])
                /\ UNCHANGED <<fate, acked>>

(* Strangers are dropped; a photo or an audio that cannot be fetched is left *)
(* out of its message.                                                       *)
Screened(a, t) ==
  LET stranger == posted[a][Head(t.left)] = "stranger"
  IN  IF stranger THEN Done(a, t, "handled") ELSE Passes(a, t)
TelegramTakesUp(a, t) == Takes(a, t, "telegram") /\ Screened(a, t)
DiscordTakesUp(a, t) == Takes(a, t, "discord") /\ Screened(a, t)
SlackTakesUp(a, t) == Takes(a, t, "slack") /\ Screened(a, t)

(* WhatsApp's drops a message whose audio cannot be fetched, which takes    *)
(* the request to be alive still.                                           *)
Voice(a, t) == posted[a][Head(t.left)] = "voice"
Fetched(a, t) == Voice(a, t) => Alive(a, t)
WhatsAppTakesUp(a, t) ==
  /\ Takes(a, t, "whatsapp")
  /\ \/ Fetched(a, t) /\ Screened(a, t)
     \/ Voice(a, t) /\ Done(a, t, "handled")

(* HandleEvent up to the end of the step, with the lock of the chat held.   *)
Turn(a, t) ==
  /\ t.stage = "turn"
  /\ \A u \in tasks[a] : u.stage # "reply"
  /\ \/ /\ Alive(a, t)
        /\ Replace(a, t, [t EXCEPT !.stage = "reply"])
        /\ UNCHANGED <<fate, acked>>
     \/ Done(a, t, "handled")
  /\ UNCHANGED <<platform, daemon, runs, running, shut, untidy, posted, cursor,
                 base, forgotten, tries, read>>

(* Send goes chunk by chunk up to the first request that fails, and with a  *)
(* context that is done the first one does.  Slack's and WhatsApp's look    *)
(* first whether they are closed, Telegram's and Discord's do not.          *)
TelegramSends(a, t) == platform[a] = "telegram" /\ Alive(a, t)
DiscordSends(a, t) == platform[a] = "discord" /\ Alive(a, t)
SlackSends(a, t) == platform[a] = "slack" /\ a \notin shut /\ Alive(a, t)
WhatsAppSends(a, t) == platform[a] = "whatsapp" /\ a \notin shut /\ Alive(a, t)

(* SendVoice, of Telegram and WhatsApp only; WhatsApp's takes two requests, *)
(* one for the sound and one for the message.                               *)
TelegramSpeaks(a, t) == Voice(a, t) /\ TelegramSends(a, t)
WhatsAppSpeaks(a, t) == Voice(a, t) /\ WhatsAppSends(a, t)

(* The reply to a voice message goes out as one; as text when that fails or *)
(* was not asked for.                                                       *)
GoesOut(a, t) ==
  \/ TelegramSpeaks(a, t) \/ WhatsAppSpeaks(a, t)
  \/ TelegramSends(a, t) \/ DiscordSends(a, t)
  \/ SlackSends(a, t) \/ WhatsAppSends(a, t)
Reply(a, t) ==
  /\ t.stage = "reply"
  /\ Done(a, t, IF GoesOut(a, t) THEN "handled" ELSE "refused")
  /\ UNCHANGED <<platform, daemon, runs, running, shut, untidy, posted, cursor,
                 base, forgotten, tries, read>>

Work(a) ==
  \E t \in tasks[a] :
    \/ TelegramTakesUp(a, t) \/ DiscordTakesUp(a, t) \/ SlackTakesUp(a, t)
    \/ WhatsAppTakesUp(a, t) \/ Turn(a, t) \/ Reply(a, t)
Stopping(a) == CloseAdapter(a) \/ PollerStops(a) \/ ServerStops(a)

PlatformNext ==
  \/ \E a \in Adapters :
       \/ a \in Enabled /\ \E k \in KindsOn[platform[a]] : Post(a, k)
       \/ AdapterStarts(a) \/ StartFails(a) \/ Stopping(a)
       \/ TelegramPoll(a) \/ DiscordPoll(a) \/ SlackEvent(a) \/ WhatsAppEvent(a)
       \/ \E t \in tasks[a] : GiveUpRequest(a, t)
       \/ Work(a)
  \/ StartDaemon \/ StopDaemon \/ Exit \/ Die

PlatformSpec == PlatformInit /\ [][PlatformNext]_platformVars

(* Handlers go on, a turn and its requests come back in the end, and so do  *)
(* the goroutines that stop the adapters.                                   *)
PlatformFairness ==
  /\ \A a \in Adapters : /\ WF_platformVars(Work(a))
                         /\ WF_platformVars(Stopping(a))
  /\ WF_platformVars(Exit)

-----------------------------------------------------------------------------
(* In one run of the daemon a polling adapter takes up the messages of a    *)
(* chat one by one, in their order: none twice, none left out between two   *)
(* (telegram.go:376-402, discord.go:232-264).                               *)
RunReadsOn ==
  \A a \in Adapters : \A i \in 1 .. Len(read[a]) - 1 :
    read[a][i + 1] = read[a][i] + 1

(* Messages the platform, or the cursor, will not give to the daemon again. *)
Passed(a) ==
  CASE platform[a] = "telegram" -> {m \in Messages(a) : m <= forgotten[a]}
    [] platform[a] = "discord" ->
         {m \in Messages(a) :
            /\ base[a] - Window < m /\ m <= cursor[a]
            /\ \A t \in tasks[a] : ~Contains(t.left, m)}
    [] OTHER -> acked[a]

(* Whatever crashes, hangs up or is delivered twice, a message the platform *)
(* considers delivered has been worked on by some run to the end; of those  *)
(* Discord still shows only what lies beyond its window at a start is left  *)
(* out.                                                                     *)
NothingSlipsBy == \A a \in Adapters : \A m \in Passed(a) : fate[a][m] # {}

(* Once all adapters are stopped, and none of them reported that it had to  *)
(* give up waiting, no turn is running: main closes the database next       *)
(* (multiplexer.go:132-173, adapter.go:57).                                 *)
StoppedMeansQuiet ==
  (daemon \in {"stopping", "rollback"} /\ running = {} /\ ~untidy) =>
    \A a \in Adapters : tasks[a] = {}

(* Messages are neither lost nor repeated beyond what the platforms repeat. *)
MessagesDelivered == RunReadsOn /\ NothingSlipsBy /\ StoppedMeansQuiet

(* A daemon told to stop does, also when it failed to start.                *)
GatewayStops == (daemon \in {"stopping", "rollback"}) ~> (daemon = "off")
=============================================================================
