# AGIS: models, model checking and proofs

AGIS is a personal agent written in Go: a *brain* that turns a user's message
into requests to a language model and runs the tools the model asks for, and
around it a terminal interface, chat gateways, a webhook and an API server, a
cron engine, a memory in SQLite, sub-agents and MCP servers. These modules
describe the parts of it in which several goroutines, processes or failures
meet. Each definition follows the code under `src/`; `PROJECT.json` ("map")
names the lines behind each one.

## 1. The system

### Components, their state and their operations

| Component | Code | State | Operations |
|---|---|---|---|
| Brain | `internal/core/brain.go` | conversation in the repository, `activeID`, `assistantCount`, `turnLimitReached`; per turn the message slice, the round, the loaded tools | `Step*`, `runTurns`, `executeTool`, `maybeNudge`, `CloseSession` |
| Policy | `internal/policy` | `policy.yaml` and its copy in memory, session grants, the audit log | `Evaluate`, `ResolveAsk`, `SetRule`, `RemoveRule`, `SetTier` |
| Sub-agents | `internal/subagents` | counting semaphore, depth in the context, a private repository per child | `Engine.Spawn`, distillation |
| LLM adapters | `internal/adapters/llm` | key list and index per provider; one goroutine and channel per stream | `Chat`, `Stream`, `RotateKey`, fail-over |
| MCP transports | `internal/mcp/transport` | a child process, its pipes, a bounded channel, two goroutines | `Send`, `Receive`, `Close` |
| MCP client | `internal/mcp/client.go` | pending map, a channel per request, the transport | `Initialize`, `ListTools`, `CallTool`, `receiveLoop`, `Close` |
| MCP manager | `internal/mcp/manager.go` | one session per server: client, tools, state, use counter, idle timer; `stopped` | `Start`, `CallTool`, `shutdownIdleSession`, `Stop` |
| Memory | `internal/memory` | conversations, messages, observations, vectors, full-text index, user model; the worker's queue | `AppendMessage`, `SaveObservations`, the embedding worker, search, `Close` |
| Curator, summarizer | `internal/memory` | none of their own | `Nudge`, `Close`, `Compress` |
| Session manager | `internal/session` | the active id it pinned | `NewSession`, `Save`, `Restore`, `Rename`, `Snapshot`, `Compress`, `Delete` |
| Gateway | `internal/gateway` | adapters, session key to conversation, a mutex per key; cursors of the pollers | `HandleEvent`, `Start`, `Stop`, `Send`, each adapter's loop or web handler |
| Webhook, cron | `internal/webhook`, `internal/cron` | the same two maps; cron's job list with next runs | `processEvent`; `loop`, `executeJob`, `AddJob`, `Stop` |
| API server | `internal/server` | none; session ids come with the request | chat completions |
| Terminal | `internal/adapters/tui`, `cmd/agis/main.go` | flags of `Model`, the token and approval channels | `submit`, `waitToken`, `resolveApproval`, slash commands, `handleQuit` |
| Skills | `internal/skills` | files, rows, the index of each process | `Reload`, `agis skill create`/`delete`, `create_skill`, `Extract` |
| Plugins | `internal/plugins` | `state.json`, the manager's map | `Load`, `Enable`, `Disable` |
| Profiles | `internal/config` | directories, `.active_profile`, a `config.yaml` each | `Create`, `Switch`, `Delete`, `Load`, `Save` |
| Backup, updater | `internal/backup`, `internal/updater` | files; the executable | create, restore; fetch, verify, apply |
| Commands | `cmd/agis` | what a process holds open | the terminal and four daemons: open in order, stop in order |

### How they interact

The terminal calls `Brain.Step` in a goroutine per turn; tokens come back over
one buffered channel, approval requests over an unbuffered one. Gateway,
webhook and cron each lock a session key, bind it to a conversation, set the
*shared* brain's `activeID`, call `Step` and read the last message back; the API
server hands the brain a session id instead. The brain calls the provider
(perhaps a chain of them, each with a pool of keys), which streams over an
unbuffered channel; each tool call passes the policy guard, perhaps the
approver, and a runner: a local command, an MCP server through the manager and
a transport, `delegate_task` (which runs a child brain under the engine's
semaphore), or `load_tool`, which changes what later requests advertise. After
the reply the curator may save observations, which the memory writes in a
transaction and hands to its embedding worker. All processes of a profile share
its database and its files; nothing locks the files.

### What is hard here

- *Interleaving*: shared brain fields; sessions of different chats; idle timers,
  calls and Stop in the MCP manager; calls that rotate one key pool; processes
  on one policy, plugin, skill or profile file.
- *Blocking*: unbuffered channels between provider, chain and brain, between
  approver and update loop; pipes to a child process; a semaphore held while
  waiting for itself.
- *Ordering*: batches handed over after their commit; late answers; the order of
  painted tokens; the order in which a command closes its parts.
- *Delivery*: cursors in memory, platforms that repeat what was not answered in
  time.
- *Partial failure*: a reply that is shown but not persisted, one refused tool
  call among several, three transactions of one close, two renames of one
  update.
- *Shutdown*: Close and Stop in the middle of everything; what a restart forgets.

`PROJECT.json` lists forty such places under "hazards", each at its line, with
the property that covers it or why none does.

What makes each component correct: the brain keeps the message protocol and its
limits whatever tools do; the engine never loses a slot or nests too deep; a
caller of MCP or of a provider chain gets its own, whole answer or an error;
nothing is left open or waiting after Close or Stop; a chat's messages stay in
its conversation and each is worked on; vectors catch up with observations;
what is learned from a session agrees with itself; tokens appear in order and an
answer reaches its question; deny rules win and policy on disk is policy in
force; a due job runs once; files are replaced whole or not at all.

## 2. Modules

| Module | Models | State and actions against the code |
|---|---|---|
| `SubagentEngine` | `Engine.Spawn` | `sem` is the channel's length; `pc` is where each call stands; `Acquire`/`GiveUp` are the select of lines 120-125, `Enter` the head checks, `StepReplies`, `StepFails`, `Distil` the rest. A nested call is one a child in `step` makes |
| `BoundedPool` | what the engine promises | jobs are admitted up to a limit, finish or are turned away |
| `OrderedStream` | what who listens to a stream is promised | what was sent is heard in order and without a gap, nothing after the end; the end is whole, broken with notice, or cut by the listener's side |
| `FallbackStream` | `fallback.go` over an adapter's goroutine | `at` follows the goroutine; `adapter[p]` is the one below; `delivered` is what the consumer got. `Answer` is the mapping to `OrderedStream`: sent is what the provider that speaks has written |
| `StdioTransport` | `stdio.go` and its child | the three pipes (a line is in them whole; see section 6), the channel `incoming`, the two reading goroutines, senders that share a mutex, `Close` from its flag through the wait and the kill. The child reads, writes output or its log, and exits when it likes. `Output` maps it to `OrderedStream`: sent is what the child wrote, stopped is a Close that has begun |
| `BrainTurn` | one brain, one conversation, several steps | `pc` follows `StepWithSession...`, `runTurns` and `executeTool`; `messages` is the slice sent to the provider (roles, calls, results), `store` the persisted roles; the provider goroutine is `sending`. Guard, approver, runner and repository errors are free choices |
| `EmbeddingIndex` | `SaveObservations`, the worker, `Close` | a save writes a fresh version; `queue` is `embedChan`; a vector remembers the version it was made from |
| `TuiTurn` | update loop, step goroutine, commands and their channels | a command that waits is counted in `readers`/`watchers`, its message in `tokens`, `dones`, `prompts`; `Update*` are the cases of `Update`; `EmitToken`, `Ask`, `AnswerTaken`, `DenyCancelled` are main.go's sink and approver |
| `SessionRouting` | the common path of gateway, webhook and cron | one `pc` per event; `lock`, `sessions`, `activeID`, and the log of each conversation; deletion by another process and a restart are mishaps |
| `PlatformDelivery` | `multiplexer.go` Start/Stop and the four adapters | a message is its place in a chat; a task is a batch that was polled or one web request; `cursor`, `forgotten`, `acked` say what a platform offers again; `fate` what became of a message each time. The turn is one step that succeeds or fails |
| `CommandLife` | the terminal and the daemons of `cmd/agis` | `left` is what a command has still to open, `deferred` its deferred closes, `stops` what the shutdown still stops, `busy` where a turn is in progress |
| `McpClient` | `client.go` over a transport | ids, pending map, one mailbox per id; the receive loop's three phases; two-part steps where the code releases the mutex. `Deliver` is the moment a server has the request, `Sent` that in which `Send` returns without an error, which a delivered one need not reach; `Own` are the server's own requests, numbered by itself. `Exchange` is the mapping to `RequestReply`: a turn is a page |
| `RequestReply` | what the callers of one connection are promised | one request at a time each; an answer only to it, and only if the server received it; while it is being asked a failure proves nothing, once it was asked it has a reason; who asked may be misled by a server that spoke unasked; nobody asks over a closed connection |
| `McpManager` | `manager.go` | one session per server with its mutex (`lock`), the timers that are armed, replaced (`strays`) or have fired (`woken`); clients are numbers, `open` until closed |
| `CronEngine` | `engine.go` | `loop` follows the scheduler goroutine (`Scan` under the mutex, `Arm`, the select); `owed` are `AddJob` calls between unlock and `triggerWake`; a run is only in flight or over. Time is an integer that ticks |
| `CronSchedule` | `scheduler.go` | `Parsed` is `ParseSchedule`; each `Jump` is one iteration of `CronSchedule.Next`. `Date`, `Clock` and `OffsetAt` are Go's calendar with its choice for a missing hour, over a year of three days whose months are a table (`DaysBefore`) as in package time |
| `CredentialPool` | `pool.go`, the retry loops | `idx`, the keys the provider limits, one `phase` per call |
| `PolicyStore` | `guard.go`, `store.go`, `policy init` | `Evaluate` is the decision; a save is `BeginSave`, `WriteTmp`, `Rename` over two file names and their inodes; `mem` is each process's copy |
| `ApiSessions` | `chat.go`, the head and tail of a session-bound step | `place` follows each handler; `store` and `latest` are the conversations and their order; `received` is what the client has |
| `SessionBook` | slash commands, `agis session`, the manager, nudge, compress, close | what was said is a count, what a search finds another (`findable`), a summary the count it covers, an observation the answer it came from; `stage`, `purpose`, `about` follow each terminal through read, answer and the separate transactions |
| `Profiles` | `profile_manager.go`, `Load`/`Save`, the wizard | `conf[h]` is the home whose database `config.yaml` names; each command is cut where it touches the file system |
| `PluginStore` | `manager.go` of plugins | the state file is the set it calls enabled; a write truncates (`Change`) and fills (`Written`) |
| `SkillStore` | loader, hub, the skill commands | a file is where it stands, the name in it and a text; a load reads the directory in its order (`DirOrder`), saves entry by entry, lists |
| `Updater` | `update.go`, `internal/updater` | `upd[u].at` follows a run; a file is a version and what it is (an agis, a package, wrong bytes); the two renames of Windows are two steps |
| `ProfileBackup` | `backup.go`, `restore.go` | what a file holds is a number that every write renews (so a file does not return to an earlier content); `HashOne` and `PackOne` are Create's two passes, `Accept` the checks, `BeginWrite`/`EndWrite` one `os.WriteFile` of the commit; both may fail or die |

`MCWorkers`, `MCBrain`, `MCFrontEnds`, `MCBackground` and `MCStores` put
components side by side, of which a behaviour runs one, chosen by the initial
state (`part`, or a component that is off); they also name the conjunctions a
run checks, such as `FrontEndsSettle`. The other `MC*` modules give constants
for the runs that find a disagreement. `*_proofs` modules hold the theorems, and
`SequenceLemmas` lemmas that they share.

The definitions named `...Unbounded`, `...Late`, `...KeepingSlot` and the like
beside an action are *mutants*: plausible mistakes in that piece of code. They
are used by nothing; replacing the action by its mutant must break the property
that guards it, which shows that the property can fail.

## 3. Runs

Model checking uses small instances; every bound is a constant named in its
module. Each run asks one question of one part of the system; its parts do not
interact, and sharing a run costs nothing but the sum of their states.

| Run | Parts and instance | Shows |
|---|---|---|
| `workers` | engine: 4 calls, 2 slots, `max_depth` misconfigured to 5; chain of 3 providers, 2 tokens each; a child process with pipes and a channel of 1, 2 senders, 2 lines | slots are counted exactly on every way out, nested calls live inside their callers, depth stays at 2, the engine implements `BoundedPool`, every call returns although children can hold all slots; one provider is heard in full or with an error; a server's lines arrive whole and in order; chain and transport implement `OrderedStream`; a cancelled stream ends, a closed transport comes to rest |
| `brain` | rounds: 1 step, cap of 2 rounds, 2 registered tools and an unknown name, 2 calls a stream, pruning on, one stream past the cap; steps: 4 steps, cap 1, nudge every 2 replies; index: 2 topics, 2 savers, queue of 2, 3 saves, 1 restart | each request is fully answered, no provider is left sending, no tool runs at or past the cap, only loaded tools are advertised; log, counter and cadence agree after failures and cancellations; a step that fails adds no reply and leaves its question last; a cancelled step ends; vectors catch up unless a batch is dropped or overtaken, Close ends |
| `frontends` | terminal: 2 turns, channel of 2, 3 tokens, 3 asks; routing: 3 events, 2 chats, 1 deletion or restart; platforms: each alone and Telegram beside Slack, 1 to 3 posts, 2 runs of the daemon, a window of 2, 2 tries; commands: all five | tokens in order and in full, an ask finds its prompt and its answer; turns of one key never interleave, replies match while one key is served at a time; what a platform takes for delivered was worked on, in order, and a stopped gateway is quiet; nothing is closed under a turn that is still waited for; turns finish, locks come back, daemons end |
| `background` | cron: 2 jobs (a daily one and one that is periodic or never matches), 4 ticks; MCP client: 2 callers, 2 pages, 2 server messages, requests of the server's own under the second id; MCP manager: 1 standby and 1 eager server, 2 calls, 3 clients | a due job is launched once and never slept over, Stop leaves nothing in flight; own answers, or a request of the server's own under the very id, nobody forgotten, the client implements `RequestReply`; no client lost or cut; idle servers sleep and Stop ends unless a server keeps silent for ever; Close ends |
| `stores` | 3 keys, 2 calls, 1 change of limits; policy: 2 processes, 2 changes, 3 rules, 3 requests, 2 first files; backup: a database and its log, 2 writes, 2 restores; API: 2 requests, 5 askings, 1 thing elsewhere; profiles: 2 processes, 1 named profile, 3 commands; plugins: 2 processes, 2 plugins, 3 orders; updater: 2 runs, 2 releases, of which the second may have a package where builds know their version and it is not Windows; skills: 2 processes, 2 names, 2 writes; book: 2 terminals, 1 session, 1 topic, 2 answers; search: 360 schedules, 3 zones, 2 starts | no refusal while a key is free; the policy file is whole, memory agrees with it, decisions keep to deny rules and posture; what a restore wrote is the profile of one moment, and a refused one touches nothing; a whole answer is in its conversation, and nowhere a second time; the pointer names a profile that is there; a skill deleted with file and row stays deleted, plugins are as the last command left them; an executable is there, verified and no older; summary, observations and user model agree, a deleted session does not come back; the search skips no minute that was asked for |
| `tui_second_turn` | 2 turns | **violation**: the channel closed after the first turn panics the second |
| `routing_shared` | routing, no mishap | **violation**: two chats at once mix their histories |
| `cron_dst` | a daily schedule for each hour, west of Greenwich, clocks forward | **violation**: the search does not get past the missing hour |
| `restore_half` | a database and its log, 1 restore | **violation**: a restore that breaks off leaves a target that is neither profile |
| `api_session` | 2 requests of one session | **violation**: the second lands in a conversation of its own |
| `profile_isolation` | 1 user, 1 profile | **violation**: the new profile works on another one's database |
| `update_package` | 1 release | **violation**: a package takes the place of the executable |

Why the bounds are enough to be interesting: four calls on two slots are the
least in which two children hold both slots and two nested calls wait; two
calls in a stream let one fail after another; three events of two chats contain
both a second event of one chat and an event of another in between; a queue of
two with three saves fills and drops; three keys let one call overtake another
by more than one rotation; a chain of three has a middle provider; four
minutes contain two matches in a row, which a late loop takes together, a run
that is far off, and a period; pipes of one line make every writer wait for its
reader; two runs of the daemon with a window of two have a cursor that is lost
with messages on both sides of the window; two files are the least that can be
of two moments, and two restores let one follow another that broke off; two
processes with two or three changes are the least in which one overtakes, or is
overwritten by, another, and one session is enough for a deletion to meet
whatever is under way on it; the small calendar has months of unequal length
(so a day that one month lacks), an hour that is missing and one that comes
twice. The brain's cap, the queue of 128, the token channel of 64, the channel
of 16 and Discord's 20 messages are scaled down, which only makes the limits
come earlier. Deadlock checking is off: all of these systems may stop (nothing
more is asked of them), and what must not stop is stated as liveness instead.

### Fairness

Weak fairness is assumed of goroutines that can run (the Go scheduler) and of
timers and deadlines. What lies outside - a provider, an approver, a tool, an
MCP server - is only assumed to come back *once its context is done or its
connection is closed*, which is how the code bounds it. For MCP servers that is
little: a turn in the terminal has a context that somebody may cancel but that
has no deadline (`tui/app.go:540`), so nothing ends a handshake or a call on a
server that keeps silent. `ManagerFairness` therefore assumes nothing of the
answers; `IdleGoesToSleep` and `StopEnds` say what follows. A standby server
stays awake while one of its calls is silent for ever, and because `CallTool`
wakes a server while it holds the mutex of its session (`manager.go:304-313`),
which `Stop` wants too (`manager.go:393`), one handshake that never ends keeps
`Stop` from ever returning. Everything else ends. The exceptions:

- `EventsSettle`, whose handlers have no deadline of their own, assumes that the
  step comes back (the adapters' HTTP clients) and strong fairness for the
  session mutex (Go hands a starving waiter the lock). `GatewayStops` assumes
  the first of these too.
- `TurnFinishes` assumes the step ends by itself and the user answers.
- In `CronProgress` the clock ticks once the engine is on, and a job's run ends
  once its context is cancelled; before that it may last for ever.
- `StdioComesToRest` assumes a line that fits into a pipe gets written; the
  child is never assumed to read, or to exit, before `Close` kills it.
- `CommandsEnd` assumes nothing of web requests, which a stop waits for only so
  long, and nothing of the user; whether a command is started at all is free.

A component that is off in a behaviour has no fair action enabled, or its
fairness would empty the composition of behaviours and every liveness property
would hold of nothing. The liveness mutants show that it is not so: each
component that states liveness has one.

### Qualified properties

Some promises hold only with an exception that the code really has; the
property names the exception with a history variable, so that everything else
still counts:

- `SessionRouting.overlap`: histories and replies are right while one key is
  served at a time (the unqualified form is the violation run);
- `EmbeddingIndex.regular`: no batch was dropped, refused or handed over out of
  the order of its commit;
- `TuiTurn.abandoned`: prompts that outlived their step;
- `PlatformDelivery`: what lies beyond Discord's window at a start (`base`), and
  `untidy`, a web server whose Shutdown ran into its five seconds;
- `CommandLife.cut`: turns the shutdown stopped waiting for; `agis webhook`
  never stops its multiplexer; `skipped`, an exit without deferred calls;
- `StdioTransport`: after a line of standard error over 64 KB (`errLoop` ended)
  the child may be held up;
- `McpClient.AnswerIsOwn`: a request of the server's own, read under the very id
  the caller waits for;
- `McpManager.late`: a call that passed the check of `stopped` before Stop set
  it and wakes the server after Stop let go of the session;
- `CredentialPool.calm` and `begunAt`: the rate limits did not move under calls
  in flight;
- `FallbackStream.abandoned`: the chain left an adapter while it held a token;
- `PolicyStore.overlap`: two processes were saving at once (they share the
  temporary file); `inStep`: the process saw neither a failed save of its own
  nor another writer;
- `PluginStore.stale`, `dropped`: commands that overlapped, a write that stopped
  in the middle, a save while a manifest was invalid;
- `SkillStore.raced`: a load had read the file before the deletion, it was
  written again, or the file or the row could not be removed, of which the
  command drops the error (`skill.go:457-464`);
- `SessionBook.loose`: a close that stopped between its transactions, two at the
  same time, a nudge (which writes no user model), `/persona reset`;
- `Profiles.excused`: commands at the same time, a pointer that could not be
  removed, a deletion by a process that had been given another profile;
- `Updater.stranded`, `pardoned`: a run that ended between the two renames of
  Windows; one that was forced, knew no version of its own, or was overtaken;
- `CronEngine.RunsOncePerDue` excludes the schedule that never matches, which is
  run on every pass; `CronProgress` has no zone west of Greenwich whose
  clocks go forward (the violation run), and `NothingSkipped` none east of it
  whose clocks go back, where a jump to a repeated hour enters its second half;
- `ProfileBackup.RestoredIsSnapshot` speaks of the files in the manifest: a log
  that appears after Create looked for it, or that the target had, is not one.

## 4. Theorems

Checked with TLAPS for every value of the constants.

`Workers_proofs` has what a turn waits for. The inductive invariant of the
engine is

    IInv == TypeOK /\ SlotsMatchHolders /\ NestedInsideCaller /\ DepthBelowLimit

`SlotsMatchHolders` alone is not inductive: that a caller of a nested call is
still a holder when the nested call ends needs `NestedInsideCaller`, and the
depth bound needs that whoever is in flight passed the check at its head
(`DepthBelowLimit`). From it follow `TypesAreKept`, `SlotsAreCounted`,
`NestingIsSafe`, and `EngineImplementsPool`: every step of the engine is a step
of `BoundedPool` or a stutter, where a slot is an admission.
For the chain of providers, `ChainInv` says what the goroutine knows where it
stands (`WhereTheChainIs`: the adapter it reads is open until it sends an error
or closes, and then that is its fate; the one it drains has failed transiently
and is at its end) and that nothing was handed on before the first token
(`Speaks`). For the pipe from a server, `PipeInv` says that a line is its place
among all that were written wherever it is, in the pipe, the loop's hand, the
channel or with the reader, and that as long as the loop reads, none is missing
(`LinesInPlace`), and that the end of the stream has nothing behind it
(`EndIsLast`). `StreamsStayWhole` and `WorkersKeepTypes` are about the
specification of the run, which composes the three, and `WorkersHold` brings
what is proved of the engine by itself there.

That the two streams are ordered streams (`StreamsAreImplemented`) is more than
that what was heard is a prefix of what was sent: the abstract stream has to
take each step. The chain gives no trouble where a provider is heard, but where
it moves to the next one, for then "what was sent" becomes the next provider's;
`SilentSoFar` and `SilentWhenChoosing` show that at that moment it is empty for
both, so the failed provider leaves no trace. For the transport two more
invariants are needed: nothing is written once the loop has seen the end
(`WritesAreOver`), or the end would not be whole, and no line is in the hand or
the channel that was not written (`NoneInvented`). Assumptions:
`EngineAssumption` (finitely many calls, integers for the two limits), nothing
about the configuration's sanity, which `Clamped` derives; `ChainAssumption` and
`StdioAssumption` (bounds and sizes are numbers, pipes and channel hold one).

`FrontEnds_proofs` has what users meet. For the chats, `RoutingInv` adds to the
two properties of the run who holds what: `HoldersHaveLock` (past the mutex of a
key means holding it) and `OneKey` (without overlap all turns in flight are of
one key) together leave one handler at a time (`Alone`); `BoundHome`,
`RoutedHome` and `TurnHome` say that a binding, what an event was routed to and
what its turn works on are conversations of its key, and that the log ends with
what the turn said last. `RecentKnows` is needed because a step picks the
conversation by the order of updates: what is live has a place there.
`FewPerKey` counts: a key has as many live conversations as restarts have cut
its binding, and one more while it is bound. From it follow
`KeysKeepTheirConversations` and `RepliesStandBehindMessages`, for any number of
chats, events and mishaps. For the terminal, `TuiInv` follows the tokens from
the step to the screen (`StreamDrains`: what was written is painted, in a
message, or in the channel, which is empty when the end is noticed), lets a turn
last until its one result is read (`ReturnsOnce`), counts the commands that wait
for a request (`WatchersCount`: one for each turn, or the prompt it became), and
keeps asks in one place each, all of them abandoned but the step's own
(`AsksApart`). Hence `TurnsReachTheUser`. For the commands, `CommandInv` says
that a command is at a place of its plan and has behind it what it holds
(`OpensInOrder`), that its list of deferred calls is what is held of the
database and the tool servers (`DefersWhatIsHeld`), and that what is still to be
stopped covers all that takes on turns (`StopsWhatFeeds`), which is where the
plans' order and `FailureStops` matter: when a command fails nothing after the
failed part is open. A turn then loses its source only in the step that stops
waiting for it (`TurnsHaveSources`), and `CommandsEndWell` follows. For the chat
platforms, `DeliveryInv` is about one adapter at a time: what it has in hand was
posted, and what a web request has behind it was worked on (`TasksProper`); a
polling loop has one batch, which ends at its cursor and goes on where the last
one ended (`LoopInOrder`, `ReadsOn`, `CursorsInside`); what is at or below a
cursor was worked on, is forgotten or is in hand (`TelegramBehind`,
`DiscordBehind`), and what was answered with 200 was worked on
(`AnsweredBehind`). Telegram needs more than Discord: the platform forgets at
the next request, not when a message is handled, so `forgotten` may not pass the
cursor, except after a restart, when the cursor is zero. `Quiet` says that who
is not running has nothing in hand unless a Shutdown ran into its timeout. Hence
`MessagesAreDelivered` for any adapters, window, messages, runs and tries.
`PlatformInv` adds what a task, a cursor and the daemon may be at all (`Inside`,
`TriesTyped`, `DaemonTyped`), which the type invariant of the front ends takes
from here. `FrontEndsKeepTypes` and `FrontEndsHold` put the four together, in
the specification of the run. Assumptions: `RoutingAssumption` (every event has
a key), `TuiAssumption` (the channel has a capacity, the bounds are numbers),
`PlatformAssumption` (platforms and kinds are those there are, bounds are
numbers, the window is positive); none for the commands.

`BrainTurn_proofs` has the step of a brain. `BrainInv` is `TypeOK` with three
parts. `RequestInv` says that the call at hand belongs to the last request of
the messages, which is answered up to it (`ExecutesTheLast`), that every other
request is answered in full (`RequestsAnswered`), and that a result lies within
reach of its request (`ResultsAsked`); without the first, nothing would tell
where the results still to come belong. `RoundInv` compares the tools: a step
begins without messages or loaded tools (`StartsEmpty`), a tool is loaded
exactly when a result in the messages brought it (`LoadedWasBrought`), calls
come only where tools are on (`CallsNeedTools`), and what was advertised is what
the round offers (`OffersAdvertised`). `LogInv` says where in the log a step
stands (`LogInStep`) and that the nudges are the replies, less the one just
written, divided by the cadence (`NudgedSoFar`). Hence `RequestsAreAnswered`,
`ProvidersAreDrained`, `LogsStayInOrder` and `BrainsKeepTypes`, for one brain
with any constants. One part of `StepsLeaveOrder` is about steps rather than
states: what returns an error leaves the log as it found it, and by `LogInStep`
the user's message is its last entry, unless the failure was that it could not
be persisted (`FailuresLeaveQuestions`).

`Brain_proofs` has the index of the brain's memory and the specification of the
run. For the index, `IndexInv` follows a topic without the vector of its
present version to the batch that brings it, with the saver, in the queue or at
the worker (`LatestComes`), which needs that batches are in the order of their
commits (`InOrder`), that two savers never hold the same version (`SavesApart`),
that a batch at hand was committed (`JobsAreReal`) and that nothing is ahead of
its observation (`LagBehind`). Hence `VectorsDoCatchUp`.

The run has a brain whose rounds are looked at, the same brain with other
constants that takes several steps, and the index, of which a behaviour runs
one. The theorems about a step are taken for both: `Several` instantiates
`BrainTurn_proofs` with the constants of the second, whose assumptions
`SeveralAssumed` derives from those of the run, and `SameStep` says that its
step is the one `MCBrain` composes. `RunInv` then gives each its invariant,
whichever `part` a behaviour is about. Hence `RunsAnswerRequests`,
`RunsDrainProviders`, `RoundsStayInLimits`, `RunsLeaveOrder`, `RunsCatchUp` and
`RunsKeepTypes`: every safety property of that run, for all constants. Assumptions:
`BrainAssumption` (tool names are names, the tail holds a message, switches are
switches) and `IndexAssumption`, where a batch is not empty because
SaveObservations returns at once without one (sqlite.go:354).

`Conversations_proofs` has the two modules in which conversations are stored.
For the REST server, `ApiInv` says how far a request has come by the logs alone
(`LogsTell`: nothing of it before its message is stored, then exactly that
message, then exactly one answer behind it), that it works on a conversation
of the name it gave (`Landed`), and that no other conversation has anything of
it (`WhereItLanded`), without which a second copy elsewhere would go unseen. All
survive a deletion elsewhere and a restart, and give `AnswersAreKept`: an answer
a client has in full is stored behind its question, and neither is stored twice. For the sessions, `BookInv` joins the parts of `BookHolds` with
what a task has in hand while it is cut by its transactions: what was read is no
more than what is there (`ReadsWhatIsThere`), and what is about to be written to
the user model is in memory already (`WritesWhatItSaved`). That the index finds
all that was said in a session that is there needs that it has nothing of a
session before it is made (`NoneFoundBefore`). Hence `BooksAreKept`
for any number of terminals, sessions and answers, with `DeletedStayGone`: no
step puts a session that was made and is not there back among those that are. Assumptions: bounds are
numbers, and a name a request gives is not the mark of an untitled conversation.

`Stores_proofs` has the files of an installation and the key pool. The updater's
`UpdaterInv`: a run holds a verified file from its temporary file on
(`HoldsVerified`), only Windows moves the executable aside (`AsideOnWindows`),
and a run that nobody overtook is about to install a version above all that were
installed, while what it may have to move back is none below (`GoesUp`); hence
`UpdatesKeepTheExecutable`. The profiles' `ProfilesInv` writes down what each
command has established before each of its steps (`UsesWhatIsThere`,
`RemovesUnpointed`, `ReadsWhereItSaves`, `RootSavesItsOwn`), which holds unless
commands ran beside each other (`OneCommand`); hence `ProfilesStayInOrder`. The
plugins' `PluginInv` compares what a run read with what was last said
(`HoldsNoMore`, `HoldsNoLess`, `HoldsWhatItWasTold`); hence `PluginStateIsKept`.
The skills' `SkillInv` says of a load that nothing happened beside that what it
has still to save is the rest of the listing, behind all it has saved
(`SavesInOrder`), so that the last file of a name is the one that stays; and of a
name that is gone, by file and row, that no file bears it and no load holds it
(`GoneEverywhere`, `DroppedHasNoFile`). Hence `SkillsAreKept`, and with the plugins
`ExtensionsStayKept` for the specification of the run. For the backup, `BackupInv`
says that a write always gives a file something other than what has been seen of
it (`Seen`), so a file that changed between its hash and the moment when all
were hashed can never match the manifest again, and neither can its copy
(`CopiesTell`); that a commit works from an archive that matched
(`CommitIsExact`); and that it has leave (`TouchedWithLeave`): `BackupsAreSafe`
is `ProfileSurvives` for any files. Assumptions: numbers are numbers, the
default profile is not a named one, an order is about some plugin, the files
Restore guards are among the files, every place a skill's file may stand at has
its turn in the order of the directory and no skill is without a name.

The search for a schedule's next run is in the same module. The months, days and
hours of the local clock are periods that begin with a whole hour and in which
the coarser fields of the clock stay what they are (`MonthAhead`, `DayAhead`,
`HourAhead`: arithmetic on quotients and remainders, and on the table of
months). A jump leads from an instant of such a period, one that does not match,
to what `Date` makes of its end, and `SamePeriod` says that nothing lies between
the two but instants of the period: none of them matches either
(`JumpsOverNothing`). This is where the zone comes in. It is false where the
clocks are put back ahead of Greenwich (section 3 tells what happens there),
and where an hour begins inside the times that a transition leaves out or
repeats; `KindZone` excludes these two. A zone west of Greenwich whose clocks go
forward is kind: there the search may fall back behind the minute it was given
and never end (the violation run), but it passes nothing. So the invariant has
to look both ways: `NoneBetween` says that no minute is wanted between the start
and the candidate, on whichever side of it the candidate is. `MatchesWhatIsWanted`
ties the fields `ParseSchedule` makes to what was written, Sunday's two names
included. Hence `NextIsTheNext` for kind zones, and `NextSkipsNothing` for the
specification of the run, whose zones are kind (`ZonesAreKind`, which TLC
evaluates). Assumption: `CalendarAssumption` (sizes are positive, the table
rises from zero, a schedule's items are numbers).

`StoresKeepTypes` and `StoresHold` put all ten components together, in the
specification of the run.

For the policy, `PolicyStaysKept` rests on `OneSave` (without overlap one
process saves) and `SaveOwnsTmp` (the file it writes is the one the temporary
name stands for, and what it wrote is what it has in memory), without which the
rename could put another's bytes in place. That deny rules win is no invariant
but a fact about `Evaluate` (`DecisionsFollow`), for every policy and request.
Assumption: `PolicyAssumption` (finitely many processes; the file found at the
start is not cut off, as a rename never leaves one).

For the keys, `Ahead(i, g)` is the number of steps from index `i`
forward to key `g`. While the limits stand still, `WithinReach` says of every
call and every free key `g`: the attempts it has made plus the steps still to
go to `g` are fewer than the keys, and when the index is no longer at the key
the call was sent with, it is nearer to `g`. `CurrentView` supplies that a 429
in hand is about a key that is limited now. A rotation therefore only ever
leaves a limited key and never passes a free one (`StepNearer`), and each
attempt of a call finds the index at least one step nearer. Hence
`NoCallRefusedWhileAKeyIsFree` for any number of keys and calls;
`PoolTypesKept` is the type invariant. Assumption: at least one key (an empty
pool sends without one, like a pool of one).

`Background_proofs`. For the MCP manager, `ManagerInv` follows each client from
its creation: it is one session's, one probe's or one waking call's and nobody
else's (`CreatedBefore`, `NotShared`), which is what closing it once, and
counting its users (`InUseCounts`), rest on; while the manager is not stopped a
call uses the open client of its session (`ServedByOpen`), and while it sweeps,
what is open is still to be found in a session (`SweepFinds`). Hence
`ServersAreAccountedFor`. For the client, `ClientInv` counts requests
(`IdsCount`: an id for each caller and page, so ids do not run out), keeps ids
apart (`IdsApart`), and says that a message sits in the channel of its id and
that id is out of the map by then (`Delivered`), whence it is delivered once
and, if it is an answer, to its owner (`AskedByOwner`, `ReadItsOwn`); what is the
server's own has a caller only by its id; and that who is not in the map has
its answer or will get it from the loop (`NoneForgotten`). Hence
`CallersGetTheirAnswers`. `ClientsImplementExchange` says it step by step: every
step of the client is one of `RequestReply` or not seen there. What is
read is an answer to what the server received, or the server's own and the
caller misled, because of `Delivered`; an error of a request that was sent has a
reason because a closed mailbox means a lost or closed stream (`LossTold`).
While a request is being sent an error proves nothing: a POST may fail by its
timeout or its status after the server took it (`sse.go:226-239`). For the cron engine, `CronInv` says that what the loop
noted is the earliest run or it is about to be told of an earlier one
(`LoopKnows`), and charges each time a job is found due with a period
(`PeriodsPass`) or with a match of its own (`MatchesPass`); `StopsOnce` ties the
flags to Stop. Hence `JobsRunInTime`, and `BackgroundKeepsTypes` and
`BackgroundHolds` for the three together. Assumptions: `ManagerAssumption`,
`ClientAssumption`, `EngineAssumption` (finitely many callers and calls, every
call has its server, the marks for noise, the end of the stream and a closed
channel are no requests, schedules name times the clock can show).

`SequenceLemmas`. Conversations are picked by the order of their last update,
kept as a sequence without duplicates. The lemmas say what taking one out and
moving one to the end does to its elements, its length and its last element, and
what `Append`, `Head` and `Tail` do to queues; they are cited wherever a model
keeps such an order or a queue.

Every inductive invariant was first checked with TLC as an invariant of the
component by itself, on the instance of its run or a slightly smaller one.

Every invariant of the passing runs, the action properties that `StepsLeaveOrder`
and `BookHolds` contain, and each of the three refinements, is a theorem. Only
model-checked is what is temporal under fairness
(`EveryCallReturns`, `StreamsComeToRest`, `CancelledStepEnds`, `IndexProgress`,
`FrontEndsSettle`, `CronProgress`, `McpSettles`, and `SearchEnds` of the
violation run), which is beyond the prover. What would need induction over data,
which the installed provers do not have, the invariants carry along instead:
what has been saved of a listing, how far a search has come.

## 5. Disagreements found

With a run (`PROJECT.json`, "findings"): the terminal's second turn panics; two
chats served at once mix histories; the search for a daily job's next run hangs
where clocks are put forward west of Greenwich; a restore is not the "all or
nothing" that `openspec/specs/profile-portability/spec.md:47` asks for; a named
API session never continues; a new profile uses the database of another; a
package may replace the executable.

Seen while modelling, without a run of their own:

Turns and memory.

- `runTurns` goes on asking the model past the cap as long as it calls tools
  (`brain.go:386-398`), where `port_learning.go:45-47` and
  `openspec/specs/tool-calling/spec.md:19` speak of one final round.
- A prompt left behind by a cancelled step can block the update loop or answer
  the next question (`app.go:491-504`).
- Two savers of one topic can hand their batches over in the other order than
  they committed, and a full queue drops one: the vector stays stale
  (`sqlite.go:382-392`, `hybrid.go:88-109`).
- What was said in a deleted session is still found by a search: nothing deletes
  the rows of its messages in `memory_fts` (`sqlite.go:939-954`), where
  `internal/memory/fts.go:18-20` says the index "can never drift".
  `docs/memory.md:59` names the orphaned rows as a follow-up, on the ground that
  "no conversation-delete path exists yet"; `agis session delete` is one.
- `CloseSession` learns from the conversation updated last, not the active one
  (`brain.go:612`). `/save` pins the manager's id while the brain goes to the
  latest conversation; `/compress` and `/snapshot` know no session until `/new`
  or `/restore`; `/list` prints eight characters of an id, which `/restore` does
  not accept.
- `openspec/specs/user-model/spec.md:5` and `:12` want blended confidence, but
  `summarizer.go:71` passes no existing rows; the nudge's observations about the
  user never reach the user model.

Front ends and commands.

- The bindings of session keys are in memory, so a restart starts new
  conversations (`docs/cron.md:121-122`); a conversation deleted elsewhere stays
  bound and the step falls back to the latest one.
- The web adapters' Shutdown waits five seconds and then drops what is in
  flight, where `openspec/specs/gateway/spec.md:13` and `:26` promise that stopping
  completes it. `gateway.go` of the command never passes
  `WithDiscordPollChannels`, so the daemon polls no Discord channel.
- `agis webhook` never stops the multiplexer it starts (`webhook.go:203`), also
  when its server fails to listen; `gateway/spec.md:16` wants a graceful shutdown
  of all adapters.
- When the terminal program returns an error, `os.Exit(1)` skips the deferred
  closes (`main.go:316`); SIGTERM or a second Ctrl+C closes the database under a
  running turn.
- A cron schedule that never matches has a zero next run, which counts as due
  (`engine.go:219-225`). A schedule that names a day of the month and a day of
  the week wants both (`scheduler.go:262-264`), where cron programs take either.

Tools and providers.

- `CallTool` may wake a server after Stop has swept it; a request registered
  after the stream is lost waits for its context; when `Start` fails, `main`
  never defers `Stop` (`main.go:226-230`).
- A request of an MCP server's own may be taken for the answer to a pending one
  that has its number: `ParseResponse` looks at the id alone
  (`protocol.go:109-127`), and `ClassifyMessage`, which would tell the two
  apart, is called by tests only. `openspec/specs/mcp/spec.md:16` wants responses
  correlated with their requests.
- A handshake that wakes a server runs under the session's mutex with a context
  that may have no deadline (`manager.go:304-313`, `tui/app.go:540`): a silent
  server holds the call, later calls of that server, and `Stop`.
- `StdioTransport.Send` does not heed its context while it is blocked in the
  write; the drain of standard error stops at a line over 64 KB.
- The chain leaves an adapter blocked when it is cancelled holding a token
  (`fallback.go:154-156`). A server error with a JSON body is not transient for
  `isTransientError`, which looks for "status NNN" in the text, so the chain
  fails fast. A stream that ends cleanly without `[DONE]` passes as complete and
  drops the tool calls gathered so far (`client.go:284-287`).
- The sandbox is said to refuse the network "regardless of any rule"
  (`guard.go:46-47`), but an allow rule opens it for the web backend
  (`guard.go:93-96`). `ClearSessionGrants` has no caller, so a session grant
  lives as long as the process; asks answered "once" or "deny" never reach
  `ResolveAsk` (`main.go:252-257`) and so no audit entry; "always" fails for
  categories other than commands, files and network (`store.go:144-146`).

Files.

- Create drops the errors of closing its writers (`backup.go:137-140`), so an
  archive cut short by a full disk is reported as done; Restore refuses it.
  `docs/cli.md:477` promises that a database and its log are packed together "to
  prevent database corruption"; what holds is that a copy of two moments is
  refused on restore. A restore with `-force` leaves a log that the archive has
  not beside the database it restores.
- `plugins/spec.md:5` promises atomic state persistence, the manager calls
  `os.WriteFile` (`manager.go:290`); the runners and skills of enabled plugins
  are wired into nothing.
- `agis skill delete` drops the error of deleting the row (`skill.go:464`) and
  reports success: the skill's file is gone and the skill still there.
- A skill file of which the injection scan leaves nothing ends the whole load
  (`SaveSkill` refuses it, `hub.go:69-72`); the hub's registry path is never set; a flat `x.md` overrides `x/SKILL.md`; an imported skill
  overwrites one the agent made.
- `.goreleaser.yaml:36` sets no version, so a release calls itself "dev" and
  `agis update` always installs; the substring `linux_arm` also matches
  `linux_arm64`; the last line of `replaceExecutable` renames a second time
  inside its error report (`apply.go:76`); on Windows a death between the two
  renames leaves no executable.

## 6. What is not modelled, and the plan

Left out for good: text (prompts, parsing, rendering, reports), platform and
provider payloads, SQL, floating-point ranking, the questions of the setup
wizard and the doctor's probes, migrations (each one transaction). Within the
modelled parts: the content of messages, which tool a command is, what error
texts say. `RefreshTools` of the manager is never called by the program. Of
search, only which exchanges are in the full-text index is modelled
(`SessionBook.findable`), neither queries nor the fusion of their results.

A line of a child process is written, and read, as one (`ChildWrites`): of a
child that dies within a line, `readStdoutLoop` hands on what it got before the
end of the stream (`stdio.go:118-130`). `LinesArrive` says nothing of such a
rest. To the client it is a message that does not parse (or the whole one, when
only the newline is missing), and such noise `McpClient` receives at any time.

Small enough to be left for later: the audit log and the ask in a chat
(`gateway/approver.go`), the SSE transport's two connections, two steps of one
brain at the same time with all of its fields (more than a run can hold; the
field that decides where a message goes is in `SessionRouting`).

Proofs: every safety property of the passing runs is a theorem (end of section
4). What could be added are abstract specifications of further components, of
which a policy file that several processes replace, or a message from its
platform to its reply, are the first that come to mind. Constants carry named
assumptions and no module that is proved about uses a RECURSIVE operator.

The runs stay at one per question; components that do not interact
share a run through an MC module with disjoint names, each with an initial state
in which it is off.

## 7. Running

    tlc -workers 2 -config Brain.cfg MCBrain      # likewise the other .cfg files
    tlapm Workers_proofs.tla
    tlapm BrainTurn_proofs.tla
    tlapm Brain_proofs.tla
    tlapm FrontEnds_proofs.tla
    tlapm Conversations_proofs.tla
    tlapm Stores_proofs.tla
    tlapm Background_proofs.tla
    tlapm SequenceLemmas.tla

The five passing runs take two to three and a half minutes each on two cores;
the others end at their counterexample within seconds.
