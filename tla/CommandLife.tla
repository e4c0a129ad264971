----------------------------- MODULE CommandLife -----------------------------
(***************************************************************************)
(* The long-running commands of cmd/agis: what the terminal and the four    *)
(* daemons open before they work, in their order, what they do when that    *)
(* fails, and how they stop.  The parts opened are other modules; here one  *)
(* is there or closed, and a turn is in progress or not.                    *)
(***************************************************************************)
EXTENDS Sequences, FiniteSets, SequencesExt

VARIABLES
  cmd,       (* the command of the process                                   *)
  left,      (* what it has still to open                                    *)
  phase,
  held,      (* what is open                                                 *)
  gone,      (* what was closed again                                        *)
  deferred,  (* what the deferred calls close, the last one first            *)
  stops,     (* what the shutdown has still to stop                          *)
  signalled, (* the context of the command is done                           *)
  busy,      (* where a turn is in progress; for a poller, the batch it has  *)
  cut,       (* history: where a turn was no longer waited for               *)
  skipped    (* history: the process ended without its deferred calls        *)

commandVars == <<cmd, left, phase, held, gone, deferred, stops, signalled, busy,
                 cut, skipped>>

Daemons == {"gateway", "serve", "webhook", "cron"}
Parts == {"config", "database", "persona", "skills", "policy", "mcp",
          "adapters", "server", "jobs", "engine", "screen"}
Sources == {"poller", "request", "job", "screen"}

CommandTypeOK ==
  /\ cmd \in Daemons \union {"terminal"}
  /\ left \in Seq(Parts) /\ stops \in Seq(Parts)
  /\ deferred \in Seq({"database", "mcp"}) /\ ToSet(deferred) \subseteq held
  /\ phase \in {"shell", "opening", "running", "closing", "stopping",
               "unwinding", "over"}
  /\ {held, gone} \subseteq SUBSET Parts /\ held \intersect gone = {}
  /\ signalled \in BOOLEAN /\ (signalled => cmd \in Daemons)
  /\ cut \subseteq Sources /\ busy \subseteq Sources
  /\ skipped \in BOOLEAN

TerminalPlan == <<"config", "database", "persona", "skills", "policy", "mcp",
                  "screen">>
GatewayPlan  == <<"config", "database", "persona", "skills", "policy", "mcp",
                  "adapters">>
ServePlan    == <<"config", "database", "persona", "skills", "policy", "mcp",
                  "server">>
WebhookPlan  == <<"config", "database", "persona", "skills", "policy",
                  "adapters", "server">>
CronPlan     == <<"config", "database", "persona", "skills", "policy",
                  "adapters", "jobs", "engine">>
PlanOf(c) ==
  CASE c = "terminal" -> TerminalPlan [] c = "gateway" -> GatewayPlan
    [] c = "serve" -> ServePlan       [] c = "webhook" -> WebhookPlan
    [] c = "cron" -> CronPlan

(* What may be switched off, or whose failure is no more than logged.       *)
Optional == {"persona", "skills", "policy", "mcp"} \union
            (IF cmd \in {"webhook", "cron"} THEN {"adapters"} ELSE {})
(* Whose failure ends the command.  The API server listens in a goroutine.  *)
Required == {"config", "database", "adapters", "jobs", "engine"} \union
            (IF cmd = "webhook" THEN {"server"} ELSE {})

(* Where turns come from: the chat platforms, which only the gateway lets   *)
(* call in, web requests, jobs, the user.                                   *)
Feeds(p) ==
  CASE p = "adapters" -> IF cmd = "gateway" THEN {"poller", "request"}
                         ELSE {"poller"}
    [] p = "server" -> {"request"}
    [] p = "engine" -> {"job"}
    [] p = "screen" -> {"screen"}
    [] OTHER -> {}

CommandInit ==
  /\ cmd \in Daemons \union {"terminal"}
  /\ left = PlanOf(cmd) /\ phase = "shell"
  /\ held = {} /\ gone = {} /\ deferred = <<>> /\ stops = <<>>
  /\ signalled = FALSE /\ busy = {} /\ cut = {} /\ skipped = FALSE

-----------------------------------------------------------------------------
(* The user, or a service manager, starts the command. *)
Launch ==
  /\ phase = "shell" /\ phase' = "opening"
  /\ UNCHANGED <<cmd, left, held, gone, deferred, stops, signalled, busy, cut,
                 skipped>>

Opened ==
  /\ left' = Tail(left)
  /\ phase' = IF Len(left) = 1 THEN "running" ELSE "opening"
  /\ UNCHANGED <<cmd, gone, stops, signalled, busy, cut, skipped>>

Opens ==
  /\ phase = "opening" /\ Opened
  /\ LET p == Head(left)
     IN  /\ held' = held \union {p}
         /\ deferred' = IF p \in {"database", "mcp"} THEN Append(deferred, p)
                        ELSE deferred

GoesWithout ==
  /\ phase = "opening" /\ Head(left) \in Optional /\ Opened
  /\ UNCHANGED <<held, deferred>>

(* A multiplexer that `agis cron` started.                                  *)
Multiplexer == IF "adapters" \in held THEN <<"adapters">> ELSE <<>>

FailureStopsNothing(p) == <<>>
(* What a command stops before it returns an error: cron's its adapters.    *)
FailureStops(p) ==
  IF cmd = "cron" /\ p \in {"jobs", "engine"} THEN Multiplexer ELSE <<>>

OpenFails ==
  /\ phase = "opening" /\ Head(left) \in Required
  /\ phase' = "stopping" /\ stops' = FailureStops(Head(left))
  /\ UNCHANGED <<cmd, left, held, gone, deferred, signalled, busy, cut, skipped>>

(* SIGINT or SIGTERM; the daemons turn it into the end of their context.    *)
Signal ==
  /\ cmd \in Daemons /\ ~signalled /\ phase \notin {"shell", "over"}
  /\ signalled' = TRUE
  /\ UNCHANGED <<cmd, left, phase, held, gone, deferred, stops, busy, cut,
                 skipped>>

ShutdownStopsAdaptersFirst ==
  CASE cmd = "gateway" -> <<"adapters">>
    [] cmd = "cron" -> Multiplexer \o <<"engine">>
    [] OTHER -> <<"server">>
(* What each daemon stops, in this order; `agis webhook` only its server.   *)
ShutdownStops ==
  CASE cmd = "gateway" -> <<"adapters">>
    [] cmd = "cron" -> <<"engine">> \o Multiplexer
    [] OTHER -> <<"server">>

Shuts ==
  /\ phase = "running" /\ signalled
  /\ phase' = "stopping"
  /\ stops' = ShutdownStops
  /\ UNCHANGED <<cmd, left, held, gone, deferred, signalled, busy, cut, skipped>>

BeingStopped(p) == phase = "stopping" /\ stops # <<>> /\ Head(stops) = p
Awaited == {"poller", "job"}

(* Mutant: the adapters are not waited for. *)
StopNextAtOnce ==
  /\ \E p \in held :
       /\ BeingStopped(p) /\ Feeds(p) \intersect busy \subseteq {"request", "poller"}
       /\ held' = held \ {p} /\ gone' = gone \union {p}
       /\ cut' = cut \union (Feeds(p) \intersect busy \intersect {"request"})
  /\ stops' = Tail(stops)
  /\ UNCHANGED <<cmd, left, phase, deferred, signalled, busy, skipped>>

(* Mutant: the requests are waited for as long as they last. *)
StopNextWithAll ==
  /\ \E p \in held :
       /\ BeingStopped(p) /\ Feeds(p) \intersect busy = {}
       /\ held' = held \ {p} /\ gone' = gone \union {p}
  /\ stops' = Tail(stops)
  /\ UNCHANGED <<cmd, left, phase, deferred, signalled, busy, cut, skipped>>

(* A stop waits for pollers and jobs, for requests only so long (5 s in the *)
(* adapters and the webhook server, 10 s in the API server).                *)
StopNext ==
  /\ \E p \in held :
       /\ BeingStopped(p) /\ Feeds(p) \intersect busy \intersect Awaited = {}
       /\ held' = held \ {p} /\ gone' = gone \union {p}
       /\ cut' = cut \union (Feeds(p) \intersect busy)
  /\ stops' = Tail(stops)
  /\ UNCHANGED <<cmd, left, phase, deferred, signalled, busy, skipped>>

AllStopped ==
  /\ phase = "stopping" /\ stops = <<>>
  /\ phase' = "unwinding"
  /\ UNCHANGED <<cmd, left, held, gone, deferred, stops, signalled, busy, cut,
                 skipped>>

(* The web server of `agis serve` or `agis webhook` stops by itself.        *)
ServerFails ==
  /\ phase = "running" /\ "server" \in held
  /\ phase' = "unwinding"
  /\ held' = held \ {"server"} /\ gone' = gone \union {"server"}
  /\ cut' = cut \union (Feeds("server") \intersect busy)
  /\ UNCHANGED <<cmd, left, deferred, stops, signalled, busy, skipped>>

-----------------------------------------------------------------------------
(* A source takes on turns from when its part is started, which may be      *)
(* before the command is running, until that part is told to stop; pollers  *)
(* and jobs have the command's context.                                     *)
TurnBegins(s) ==
  /\ phase \notin {"closing", "over"} /\ s \notin busy
  /\ \E p \in held : s \in Feeds(p) /\ ~BeingStopped(p)
  /\ s \in Awaited => ~signalled
  /\ busy' = busy \union {s}
  /\ UNCHANGED <<cmd, left, phase, held, gone, deferred, stops, signalled, cut,
                 skipped>>
TurnEnds(s) ==
  /\ phase # "closing" /\ s \in busy
  /\ busy' = busy \ {s}
  /\ UNCHANGED <<cmd, left, phase, held, gone, deferred, stops, signalled, cut,
                 skipped>>
TurnCancelled(s) ==
  /\ s \in Awaited
  /\ signalled \/ \E p \in Parts : BeingStopped(p) /\ s \in Feeds(p)
  /\ TurnEnds(s)

-----------------------------------------------------------------------------
(* The terminal: Ctrl+C while no turn runs closes the session, which takes  *)
(* no longer than its timeout, and then quits.                              *)
CloseSession ==
  /\ phase = "running" /\ "screen" \in held /\ busy = {}
  /\ phase' = "closing" /\ busy' = {"screen"}
  /\ UNCHANGED <<cmd, left, held, gone, deferred, stops, signalled, cut, skipped>>

ScreenEnds ==
  /\ "screen" \in held
  /\ held' = held \ {"screen"} /\ gone' = gone \union {"screen"}
  /\ UNCHANGED <<cmd, left, deferred, stops, signalled>>
CloseReturns ==
  /\ phase = "closing" /\ ScreenEnds
  /\ phase' = "unwinding" /\ busy' = {}
  /\ UNCHANGED <<cut, skipped>>

(* Another Ctrl+C, or SIGTERM: the program returns at once, and goroutines  *)
(* of commands are left behind.                                             *)
QuitAtOnce ==
  /\ phase \in {"running", "closing"} /\ ScreenEnds
  /\ phase' = "unwinding" /\ cut' = cut \union busy
  /\ UNCHANGED <<busy, skipped>>

(* The program returns an error; os.Exit runs no deferred call.             *)
ScreenFails ==
  /\ phase \in {"running", "closing"} /\ ScreenEnds
  /\ phase' = "over" /\ skipped' = TRUE /\ busy' = {}
  /\ UNCHANGED cut

(* The function returns: its deferred calls, then the process ends.         *)
Unwind ==
  /\ phase = "unwinding"
  /\ IF deferred # <<>>
     THEN LET p == Last(deferred)
          IN  /\ deferred' = Front(deferred)
              /\ held' = held \ {p} /\ gone' = gone \union {p}
              /\ UNCHANGED <<phase, busy>>
     ELSE /\ phase' = "over" /\ busy' = {}
          /\ UNCHANGED <<held, gone, deferred>>
  /\ UNCHANGED <<cmd, left, stops, signalled, cut, skipped>>

CommandNext ==
  \/ Launch \/ Opens \/ GoesWithout \/ OpenFails \/ Signal \/ Shuts \/ StopNext
  \/ AllStopped \/ ServerFails
  \/ \E s \in Sources : TurnBegins(s) \/ TurnEnds(s)
  \/ CloseSession \/ CloseReturns \/ QuitAtOnce \/ ScreenFails \/ Unwind

CommandSpec == CommandInit /\ [][CommandNext]_commandVars

(* What the process does by itself goes on, and a turn whose context is     *)
(* done ends.                                                               *)
CommandFairness ==
  /\ WF_commandVars(Opens \/ OpenFails) /\ WF_commandVars(Shuts)
  /\ WF_commandVars(StopNext) /\ WF_commandVars(AllStopped)
  /\ WF_commandVars(CloseReturns) /\ WF_commandVars(Unwind)
  /\ \A s \in Awaited : WF_commandVars(TurnCancelled(s))

-----------------------------------------------------------------------------
(* `agis webhook` never stops the multiplexer it starts (webhook.go:203).   *)
Unattended == IF cmd = "webhook" THEN {"poller"} ELSE {}

(* The database and the tool servers are closed under a running turn only   *)
(* where the shutdown stopped waiting for it, and by `agis webhook`         *)
(* (gateway.go:329, serve.go:237, cron.go:305-313, webhook.go:232).         *)
NothingClosedUnderTurn ==
  gone \intersect {"database", "mcp"} # {} => busy \subseteq cut \union Unattended

(* A job, while it runs, can send what it found: the adapters outlive it    *)
(* (cron.go:305-313).                                                       *)
JobsKeepTheirAdapters == "job" \in busy => "adapters" \notin gone

(* However far a command came before it failed or was stopped, its return   *)
(* leaves nothing behind, but for the adapters of `agis webhook`.           *)
NothingLeftOpen ==
  (phase = "over" /\ ~skipped) =>
    held \intersect {"database", "mcp", "adapters", "server", "engine", "screen"}
      \subseteq (IF cmd = "webhook" THEN {"adapters"} ELSE {})

CommandsEndInOrder ==
  NothingClosedUnderTurn /\ JobsKeepTheirAdapters /\ NothingLeftOpen

(* A daemon that got the signal ends, also while it starts or is at work,   *)
(* and so does a terminal that closes its session.                          *)
CommandsEnd == (signalled \/ phase = "closing") ~> (phase = "over")
=============================================================================
