------------------------------ MODULE Platform ------------------------------
(***************************************************************************)
(* The parts of the system beside the pipeline, the notices and the duels  *)
(* that keep state of their own: arena, progress, accounts, task table,    *)
(* lobby and live feed of the platform, and the attack runs, the           *)
(* honeypots' connections and the reputation lookups.  They share nothing  *)
(* but the clock, and the arena and the progress API the rows of           *)
(* user_progress; so instead of the product of their states a behaviour    *)
(* exercises one of them, and all of them are chosen.                      *)
(***************************************************************************)
EXTENDS Arena, Accounts, Play, Lobby, LiveFeed,
        Campaigns, SshConnection, Listeners, Lookups

VARIABLE part   \* the part this behaviour exercises

Parts == {"arena", "progress", "sign-up", "admin", "play", "lobby", "feed",
          "campaign", "ssh", "listeners", "lookups"}

apiVars == <<arenaVars, progressVars, accountVars, playVars, lobbyVars, feedVars, clock>>
sensorVars == <<campaignVars, sshVars, listenerVars, lookupVars>>
platformVars == <<apiVars, sensorVars, part>>

Init ==
  /\ ArenaInit /\ ProgressInit /\ AccountsInit /\ PlayInit /\ LobbyInit /\ FeedInit
  /\ CampaignsInit /\ SshInit /\ ListenersInit /\ LookupsInit
  /\ clock = 0
  /\ part \in Parts

Members ==
  /\ \/ part = "arena" /\ ArenaNext
     \/ part = "progress" /\ ProgressNext /\ UNCHANGED arenaVars
  /\ UNCHANGED <<accountVars, playVars, lobbyVars, feedVars, clock>>

UserAccounts ==
  /\ \/ part = "sign-up" /\ SignUpStep /\ UNCHANGED clock
     \/ part = "admin" /\ AdminStep /\ UNCHANGED clock
     \/ part \in {"sign-up", "admin"} /\ AccountsTick
  /\ UNCHANGED <<arenaVars, progressVars, playVars, lobbyVars, feedVars>>

TaskTable ==
  /\ part = "play"
  /\ (PlayStep /\ UNCHANGED clock) \/ PlayTick
  /\ UNCHANGED <<arenaVars, progressVars, accountVars, lobbyVars, feedVars>>

LobbyMatches ==
  /\ part = "lobby"
  /\ (LobbyStep /\ UNCHANGED clock) \/ LobbyTick
  /\ UNCHANGED <<arenaVars, progressVars, accountVars, playVars, feedVars>>

Feed ==
  /\ part = "feed"
  /\ FeedNext
  /\ UNCHANGED <<arenaVars, progressVars, accountVars, playVars, lobbyVars, clock>>

ApiStep ==
  /\ Members \/ UserAccounts \/ TaskTable \/ LobbyMatches \/ Feed
  /\ UNCHANGED <<sensorVars, part>>

AttackRun ==
  /\ part = "campaign"
  /\ CampaignsNext
  /\ UNCHANGED <<sshVars, listenerVars, lookupVars>>

SshHoneypot ==
  /\ part = "ssh"
  /\ SshNext
  /\ UNCHANGED <<campaignVars, listenerVars, lookupVars>>

OtherHoneypots ==
  /\ part = "listeners"
  /\ ListenersNext
  /\ UNCHANGED <<campaignVars, sshVars, lookupVars>>

Reputation ==
  /\ part = "lookups"
  /\ LookupsNext
  /\ UNCHANGED <<campaignVars, sshVars, listenerVars>>

SensorStep ==
  /\ AttackRun \/ SshHoneypot \/ OtherHoneypots \/ Reputation
  /\ UNCHANGED <<apiVars, part>>

Next == ApiStep \/ SensorStep

Spec == Init /\ [][Next]_platformVars

--------------------------------------------------------------------------
(* No stretch of a limiter's window sees more sign-ups, or launches, than  *)
(* the limiter admits, however calls that are refused or that fail later   *)
(* come in between; and no more tasks run at a time than the cap says.     *)
LimitsHold ==
  /\ WithinLimit(admitted, SignUpLimit, SignUpWindow)
  /\ WithinLimit(launchedAt, LaunchLimit, LaunchWindow)
  /\ Cardinality(RunningTasks) <= MaxConcurrent
=============================================================================
