----------------------------- MODULE Campaigns -----------------------------
(***************************************************************************)
(* An attack run against the honeypots and graded afterwards: the catalogue*)
(* of api/routers/play.py and cli/attack/campaigns.py, the runners they    *)
(* drive (cli/attack/runners.py), the sessions the listeners record of     *)
(* them, the enrichment of each session once it is closed and the grade of *)
(* cli/defend/campaign_score.py.                                           *)
(***************************************************************************)
EXTENDS Detection
LOCAL INSTANCE FiniteSetsExt

CONSTANTS
  Scheduled,     \* the entries of the catalogue that are run
  AllowAfter,    \* SSH_ALLOW_AFTER_N_ATTEMPTS
  SiblingLimit,  \* limit() of the sibling query
  Dwell,         \* dwell_seconds of a step
  LongStep,      \* how long a step takes that runs into time-outs
  LostChecks     \* bound: how many attempt checks of a connection may fail

ASSUME CampaignAssumption ==
  /\ AllowAfter \in Nat \ {0}
  /\ SiblingLimit \in Nat \ {0}
  /\ Dwell \in Nat /\ LongStep \in Nat /\ LostChecks \subseteq Nat

VARIABLES
  entry,      \* the entry of the catalogue that is run, or NoEntry
  driver,     \* who runs it: the command line, or a task of the play API
  steps,      \* the steps left
  dials,      \* the connections the current step has left to make
  sessions,   \* the rows of sessions, with their events and what was found
  closings,   \* the SESSION_CLOSED entries of the stream not yet consumed
  attempts,   \* ssh:attempts of the attacker's address
  now,        \* seconds since the run began
  envelope,   \* hs:campaign:{id}, or the same facts of a task
  blocked,    \* the defender has blocked the attacker's address
  hindered    \* history: what stood in the way of the run

campaignVars == <<entry, driver, steps, dials, sessions, closings, attempts,
                  now, envelope, blocked, hindered>>

--------------------------------------------------------------------------
(* The runners: the connections each makes, with what the client says.     *)
Dial(service, talk) == [service |-> service, talk |-> talk]

HttpDial(target, body, agent) ==
  Dial("http", <<HttpRequest(target, body, agent)>>)

(* http_recon's own list, one path for each way the detectors see them.    *)
ReconPaths == <<{"/.env"}, {"/wp-login.php"}, {"/server-status"}>>

HttpRecon(paths, agent) == [i \in DOMAIN paths |-> HttpDial(paths[i], {}, agent)]
HttpSqlmap(target) == <<HttpDial(target, {}, "sqlmap")>>
HttpLog4shell == <<HttpDial({}, {"${jndi:"}, "other")>>
HttpTraversal(segment) == <<HttpDial({segment}, {}, "other")>>

(* A connection for each pair: USER, PASS, QUIT.                           *)
FtpCommand(verb, user) ==
  [type |-> "FTP_COMMAND", verb |-> verb, user |-> user, common |-> verb = "PASS"]
FtpHydra(users) ==
  [i \in DOMAIN users |->
     Dial("ftp", <<FtpCommand("USER", users[i]), FtpCommand("PASS", users[i]),
                   FtpCommand("OTHER", users[i])>>)]

(* One connection for all passwords; they are tried when it is served.     *)
SshHydra(count, keepShell) ==
  <<Dial("ssh", [passwords |-> count, keepShell |-> keepShell])>>

RdpScan(requested) ==
  <<Dial("rdp", <<[type |-> "RDP_CONNECT", protocols |-> requested]>>)>>
TlsFingerprint == <<Dial("tls", <<[type |-> "TLS_CLIENT_HELLO"]>>)>>

Sqlmap == HttpSqlmap({"union+select"})
Probe == HttpSqlmap({"/wp-login.php"})
Hydra == SshHydra(10, FALSE)
HydraShell == SshHydra(10, TRUE)

(* One connection to each.                                                 *)
MultiService(services) ==
  LET probe == [ssh |-> SshHydra(1, FALSE), http |-> Probe, ftp |-> FtpHydra(<<"root">>),
                tls |-> TlsFingerprint]
  IN [i \in DOMAIN services |-> probe[services[i]][1]]

FullCompromise ==
  HttpRecon(ReconPaths, "Nikto") \o Sqlmap \o HydraShell
  \o FtpHydra(<<"root", "admin">>) \o TlsFingerprint

--------------------------------------------------------------------------
(* The catalogue: the steps of each entry, and what each is expected to    *)
(* be recognised by.                                                       *)
Step(run, expected) == [run |-> run, expected |-> expected]

Playbooks == [
  apt28 |-> <<Step(HttpRecon(ReconPaths, "Nikto"), {"T1592", "T1595.001"}),
              Step(Sqlmap, {"T1190"}),
              Step(HydraShell, {"T1110.001", "T1078", "T1083", "T1592"})>>,
  fin7 |-> <<Step(HttpSqlmap({"or+1=1"}), {"T1190"}),
             Step(HttpTraversal("..%2f"), {"T1083"}),
             Step(FtpHydra(<<"root", "admin", "oracle">>), {"T1110.001"})>>,
  ransomware |-> <<Step(RdpScan(0), {"T1595.001"}),
                   Step(Hydra, {"T1110.001"}),
                   Step(HttpRecon(ReconPaths, "other"), {"T1592"}),
                   Step(MultiService(<<"ssh", "http", "ftp">>), {"T1595.001"})>>,
  scriptKiddie |-> <<Step(HttpRecon(<<{"/wp-login.php"}>>, "curl"), {}),
                     Step(SshHydra(1, FALSE), {})>>]

Scenarios == [
  sshHydra |-> Step(HydraShell, {"T1110.001"}),
  httpSqlmap |-> Step(Sqlmap, {"T1190"}),
  httpLog4shell |-> Step(HttpLog4shell, {"T1190"}),
  httpTraversal |-> Step(HttpTraversal("../"), {"T1083"}),
  httpRecon |-> Step(HttpRecon(ReconPaths, "Nikto"), {"T1592", "T1595.001"}),
  ftpHydra |-> Step(FtpHydra(<<"root", "admin", "oracle">>), {"T1110.001"}),
  rdpScan |-> Step(RdpScan(0), {"T1595.001"}),
  tlsFingerprint |-> Step(TlsFingerprint, {}),
  multiService |-> Step(MultiService(<<"ssh", "http", "ftp", "tls">>), {"T1595.001"}),
  fullCompromise |->
    Step(FullCompromise, {"T1190", "T1110.001", "T1078", "T1083", "T1592"})]

StepsOf(e) == IF e \in DOMAIN Playbooks THEN Playbooks[e] ELSE <<Scenarios[e]>>

(* Campaign.expected_ttps.                                                 *)
ExpectedOf(plan) == UNION {plan[i].expected : i \in DOMAIN plan}

(* The API and the command line know no other entries.                     *)
Entries == DOMAIN Playbooks \cup DOMAIN Scenarios
ASSUME ScheduledAssumption == Scheduled \subseteq Entries

NoEntry == "none"
NoEnvelope == [status |-> "none", ended |-> 0]

CampaignsInit ==
  /\ entry = NoEntry
  /\ driver = NoEntry
  /\ steps = <<>>
  /\ dials = <<>>
  /\ sessions = <<>>
  /\ closings = <<>>
  /\ attempts = 0
  /\ now = 0
  /\ envelope = NoEnvelope
  /\ blocked = FALSE
  /\ hindered = {}

Running == envelope.status = "running"

(* campaign_cmd(), launch_campaign() and launch_attack(): the envelope is  *)
(* recorded before the first step.                                         *)
Launch(e, d) ==
  /\ entry = NoEntry
  /\ d = "play" \/ e \in DOMAIN Playbooks
  /\ entry' = e
  /\ driver' = d
  /\ steps' = Tail(StepsOf(e))
  /\ dials' = StepsOf(e)[1].run
  /\ envelope' = [status |-> "running", ended |-> 0]
  /\ UNCHANGED <<sessions, closings, attempts, now, blocked, hindered>>

--------------------------------------------------------------------------
NotYet == [ttps |-> {}, score |-> -1]

Row(service, evs, state) ==
  [service |-> service, start |-> now, events |-> evs, state |-> state, found |-> NotYet]

(* The passwords ssh_hydra tries on one connection when the checks of the  *)
(* first `lost' fail, `counted' of which the counter saw all the same:     *)
(* from AllowAfter attempts of the address on, any password is granted,    *)
(* and the runner stops there.                                             *)
Needed(seen) == IF seen + 1 >= AllowAfter THEN 1 ELSE AllowAfter - seen
Granted(talk, lost, counted) == lost + Needed(attempts + counted) <= talk.passwords
Guesses(talk, lost, counted) ==
  IF Granted(talk, lost, counted) THEN lost + Needed(attempts + counted)
  ELSE talk.passwords

Command(raw) == [type |-> "SSH_COMMAND", raw |-> raw]
Shell == <<Command({"host info"}), Command({"discovery", "host info"}), Command({})>>

SshEvents(talk, lost, counted) ==
  LET tries == Guesses(talk, lost, counted)
      granted == Granted(talk, lost, counted)
  IN <<[type |-> "SSH_BANNER_GRAB", version |-> {}]>>
     \o [i \in 1..tries |->
           [type |-> "SSH_AUTH_ATTEMPT", auth_type |-> "password", user |-> "root",
            common |-> i <= 4, ts |-> 0, success |-> granted /\ i = tries]]
     \o (IF granted /\ talk.keepShell THEN Shell ELSE <<>>)

(* A blocked address gets no session.  The HTTP, RDP and TLS runners take  *)
(* the refusal as an answer; paramiko raises SSHException and ftplib       *)
(* EOFError, which ssh_hydra and ftp_hydra do not catch.                   *)
Raises(service) == service \in {"ssh", "ftp"}

(* The next connection of the step, served by its listener to its end,     *)
(* which also happens to a blocked address when is_blocked() fails.  The   *)
(* HTTP honeypot closes the session before it answers; the SSH honeypot    *)
(* records nothing before the connection is over.  One that breaks off in  *)
(* the middle and leaves a part of its session behind is left out.         *)
Connect ==
  /\ Running /\ dials # <<>>
  /\ LET dial == Head(dials)
     IN IF dial.service = "ssh"
        THEN \E lost \in LostChecks : \E counted \in {0, lost} :
               /\ lost <= dial.talk.passwords
               /\ sessions' = Append(sessions,
                    Row("ssh", SshEvents(dial.talk, lost, counted), "open"))
               /\ attempts' = attempts + counted
                              + Guesses(dial.talk, lost, counted) - lost
               /\ hindered' = hindered \cup (IF lost > 0 THEN {"lost check"} ELSE {})
               /\ UNCHANGED closings
        ELSE /\ sessions' = Append(sessions, Row(dial.service, dial.talk,
                              IF dial.service = "http" THEN "closed" ELSE "open"))
             /\ closings' = IF dial.service = "http"
                            THEN Append(closings, Len(sessions')) ELSE closings
             /\ UNCHANGED <<attempts, hindered>>
  /\ dials' = Tail(dials)
  /\ UNCHANGED <<entry, driver, steps, now, envelope, blocked>>

Refused ==
  /\ Running /\ dials # <<>> /\ blocked
  /\ ~Raises(Head(dials).service)
  /\ dials' = Tail(dials)
  /\ UNCHANGED <<entry, driver, steps, sessions, closings, attempts, now,
                 envelope, blocked, hindered>>

(* Nobody listens at the target, or does not answer in time: every runner  *)
(* swallows the OSError or httpx.HTTPError, and the step goes on to its    *)
(* end as if the connection had been made.                                 *)
Unreached ==
  /\ Running /\ dials # <<>>
  /\ dials' = Tail(dials)
  /\ hindered' = hindered \cup {"unreached"}
  /\ UNCHANGED <<entry, driver, steps, sessions, closings, attempts, now,
                 envelope, blocked>>

(* The connection is dropped before a greeting, because the address is     *)
(* blocked or the listener dies: _run_campaign() goes on with the next     *)
(* step, the task of the play API fails.                                   *)
RunnerRaises ==
  /\ Running /\ dials # <<>>
  /\ Raises(Head(dials).service)
  /\ dials' = <<>>
  /\ IF driver = "cli" THEN UNCHANGED <<steps, envelope>>
     ELSE steps' = <<>> /\ envelope' = [status |-> "failed", ended |-> now]
  /\ hindered' = hindered \cup {"unreached"}
  /\ UNCHANGED <<entry, driver, sessions, closings, attempts, now, blocked>>

(* The dwell after a step; a step may have taken long.                     *)
StepDone ==
  /\ Running /\ dials = <<>> /\ steps # <<>>
  /\ \E took \in {Dwell, LongStep} :
       /\ now' = now + took
       /\ hindered' = hindered \cup (IF took = LongStep THEN {"slow"} ELSE {})
  /\ dials' = Head(steps).run
  /\ steps' = Tail(steps)
  /\ UNCHANGED <<entry, driver, sessions, closings, attempts, envelope, blocked>>

(* _finalise_envelope(), _run_task().                                      *)
Finish ==
  /\ Running /\ dials = <<>> /\ steps = <<>>
  /\ now' = now + Dwell
  /\ envelope' = [status |-> "done", ended |-> now']
  /\ UNCHANGED <<entry, driver, steps, dials, sessions, closings, attempts,
                 blocked, hindered>>

(* The listener writes what the connection gave and closes its session.    *)
ListenerEnds(s) ==
  /\ sessions[s].state = "open"
  /\ sessions' = [sessions EXCEPT ![s].state = "closed"]
  /\ closings' = Append(closings, s)
  /\ UNCHANGED <<entry, driver, steps, dials, attempts, now, envelope, blocked,
                 hindered>>

--------------------------------------------------------------------------
(* The sibling query has a limit and no order: which rows it returns of    *)
(* too many is the database's choice.                                      *)
SiblingChoices(s) ==
  LET near == {i \in DOMAIN sessions \ {s} :
                 Apart(sessions[i].start, sessions[s].start) <= ScanWindow}
  IN IF Cardinality(near) <= SiblingLimit THEN {near} ELSE kSubset(SiblingLimit, near)

Context(s, siblings) ==
  [service |-> sessions[s].service, start |-> sessions[s].start,
   events |-> sessions[s].events,
   siblings |-> {[service |-> sessions[i].service, start |-> sessions[i].start] :
                  i \in siblings}]

(* _enrich_and_persist(), one session after the other in the order of the  *)
(* stream.                                                                 *)
EnrichSession ==
  /\ closings # <<>>
  /\ LET s == Head(closings)
     IN \E siblings \in SiblingChoices(s) :
          LET ctx == Context(s, siblings)
              ttps == TTPMatches(ctx)
          IN sessions' = [sessions EXCEPT
               ![s].state = "enriched",
               ![s].found = [ttps |-> {m.id : m \in ttps},
                             score |-> ScoreSession(0, ToolMatches(ctx), ttps)]]
  /\ closings' = Tail(closings)
  /\ UNCHANGED <<entry, driver, steps, dials, attempts, now, envelope, blocked,
                 hindered>>

(* An administrator's correct label, or the block itself; Redis may refuse *)
(* it, and nobody is told.                                                 *)
DefenderBlocks ==
  /\ Running /\ ~blocked
  /\ blocked' = TRUE
  /\ hindered' = hindered \cup {"blocked"}
  /\ UNCHANGED <<entry, driver, steps, dials, sessions, closings, attempts, now,
                 envelope>>

(* The block's key expires or is removed.                                  *)
BlockEnds ==
  /\ Running /\ blocked
  /\ blocked' = FALSE
  /\ UNCHANGED <<entry, driver, steps, dials, sessions, closings, attempts, now,
                 envelope, hindered>>

(* The counter's hour is over.                                             *)
CounterExpires ==
  /\ Running /\ attempts > 0
  /\ attempts' = 0
  /\ UNCHANGED <<entry, driver, steps, dials, sessions, closings, now, envelope,
                 blocked, hindered>>

CampaignsNext ==
  \/ \E e \in Scheduled, d \in {"cli", "play"} : Launch(e, d)
  \/ Connect \/ Refused \/ Unreached \/ RunnerRaises \/ StepDone \/ Finish
  \/ \E s \in DOMAIN sessions : ListenerEnds(s)
  \/ EnrichSession
  \/ DefenderBlocks \/ BlockEnds
  \/ CounterExpires

--------------------------------------------------------------------------
(* _detected_ttps(): the techniques of the sessions begun in the window.   *)
Detected ==
  LET last == IF envelope.status = "running" THEN now + 600 ELSE envelope.ended
  IN UNION {sessions[s].found.ttps :
              s \in {i \in DOMAIN sessions : sessions[i].start <= last}}

Expected == IF entry = NoEntry THEN {} ELSE ExpectedOf(StepsOf(entry))

Graded == /\ envelope.status = "done"
          /\ \A s \in DOMAIN sessions : sessions[s].state = "enriched"
ServicesOf == {sessions[s].service : s \in DOMAIN sessions}

(* A run nothing hindered (every connection of it reached its listener, no *)
(* block, no step as long as a time-out, no failed attempt check) is       *)
(* recognised by all it is expected to be, whatever the order in which its *)
(* sessions are enriched, but for two techniques: guessing (see            *)
(* GuessedIfUngranted), and scanning by a run that knocks at one service   *)
(* only.                                                                   *)
OnlyTheseAreMissed ==
  Graded /\ hindered = {} =>
    \A t \in Expected \ Detected :
      t = "T1110.001" \/ (t = "T1595.001" /\ Cardinality(ServicesOf) = 1)

(* A session is attributed to password guessing only if checks of the      *)
(* attempt counter failed: as long as they do not, the honeypot lets the   *)
(* attacker in before the rule's threshold is passed.                      *)
GuessedIfUngranted ==
  \A s \in DOMAIN sessions :
    "T1110.001" \in sessions[s].found.ttps => "lost check" \in hindered

=============================================================================
