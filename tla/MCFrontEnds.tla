---------------------------- MODULE MCFrontEnds -----------------------------
(* What brings messages to a brain: a behaviour has the terminal's turns, or *)
(* the gateway's events and conversations, or the daemon and its platforms,  *)
(* or one of the commands from its start to its end.                         *)
EXTENDS TuiTurn, SessionRouting, PlatformDelivery, CommandLife,
        TLC

(* Three events of two chats, the first and the last from the same one. *)
CONSTANTS e1, e2, e3, chatA, chatB
ThreeEvents == {e1, e2, e3}
TwoKeys     == {chatA, chatB}
TwoChats    == e1 :> chatA @@ e2 :> chatB @@ e3 :> chatA

(* Each adapter by itself, and one that polls beside a web server. *)
CONSTANTS adapter1, adapter2
TwoAdapters  == {adapter1, adapter2}
Lineup(p, q) == adapter1 :> p @@ adapter2 :> q
SomeLineups  == {Lineup(p, "none") :
                   p \in {"telegram", "discord", "slack", "whatsapp"}}
                  \union {Lineup("telegram", "slack")}
SomeKinds ==
  [p \in {"telegram", "discord", "slack", "whatsapp"} |->
     CASE p = "whatsapp" -> {"voice"}
       [] p = "discord" -> {"text", "stranger"}
       [] OTHER -> {"text"}]
SomePosts == [l \in SomeLineups |->
  CASE l[adapter1] = "slack" \/ l[adapter2] = "slack" -> 1
    [] l[adapter1] = "whatsapp" -> 2
    [] OTHER -> 3]

VARIABLE part
frontVars == <<part, tuiVars, routingVars, platformVars, commandVars>>

FrontEndsInit ==
  /\ part \in {"terminal", "routing", "platforms", "commands"}
  /\ TuiInit /\ RoutingInit /\ PlatformInit /\ CommandInit
  /\ part # "platforms" => platform = Lineup("telegram", "none")
  /\ part # "commands" => cmd = "terminal"
FrontEndsNext ==
  \/ part = "terminal" /\ TuiNext
     /\ UNCHANGED <<part, routingVars, platformVars, commandVars>>
  \/ part = "routing" /\ RoutingNext
     /\ UNCHANGED <<part, tuiVars, platformVars, commandVars>>
  \/ part = "platforms" /\ PlatformNext
     /\ UNCHANGED <<part, tuiVars, routingVars, commandVars>>
  \/ part = "commands" /\ CommandNext
     /\ UNCHANGED <<part, tuiVars, routingVars, platformVars>>
FrontEndsSpec ==
  /\ FrontEndsInit /\ [][FrontEndsNext]_frontVars
  /\ TuiFairness /\ RoutingFairness /\ PlatformFairness /\ CommandFairness

FrontEndsTypeOK == 
  TuiTypeOK /\ RoutingTypeOK /\ PlatformTypeOK /\ CommandTypeOK

(* A turn submitted in the terminal finishes, events of chats settle, and   *)
(* the adapters and the commands told to stop do.                           *)
FrontEndsSettle == TurnFinishes /\ EventsSettle /\ GatewayStops /\ CommandsEnd
=============================================================================
