----------------------------- MODULE Detection -----------------------------
(***************************************************************************)
(* What the platform concludes from a session: the request detectors of    *)
(* the HTTP honeypot, the tool signatures, the MITRE rules and the score   *)
(* (services/http/detectors.py, workers/intel/signatures.py, ttp_rules.py, *)
(* threat_scoring.py).                                                     *)
(*                                                                         *)
(* A request or a command line is the set of the fragments some pattern of *)
(* the code looks for; the rest of its text matters to nobody.  A session  *)
(* context is a record [service, start, events, siblings]; confidences are *)
(* in hundredths.                                                          *)
(***************************************************************************)
EXTENDS Integers, Sequences, FiniteSets
LOCAL INSTANCE FiniteSetsExt

--------------------------------------------------------------------------
(* services/http: what a captured request says.                            *)

(* unquote_plus() decodes one level.                                       *)
Decoded(fragment) ==
  CASE fragment = "..%252f" -> "..%2f"
    [] fragment = "..%2f" -> "../"
    [] fragment = "union+select" -> "union select"
    [] fragment = "or+1=1" -> "or 1=1"
    [] OTHER -> fragment

SqliPatterns == {"union select", "or 1=1"}
TraversalPatterns == {"../", "..%2f", "/etc/passwd"}
CvePatterns == {"/.env", "/.git/HEAD", "/wp-login.php", "${jndi:"}
HostInfoPaths == {"/.env", "/.git/HEAD", "/server-status", "/.aws/"}

(* The scanner a User-Agent gives away.                                    *)
Scanners == [sqlmap |-> 99, Nikto |-> 95, curl |-> 30]

Found(patterns, text) == patterns \cap text # {}

HttpRequest(target, body, agent) ==
  LET uri == {Decoded(f) : f \in target}
      content == {Decoded(f) : f \in body}
  IN [type |-> "HTTP_REQUEST",
      sqli_pattern |-> Found(SqliPatterns, uri \cup content),
      path_traversal |-> Found(TraversalPatterns, uri),
      cve_signature |-> Found(CvePatterns, uri \cup content),
      uri_decoded |-> uri,
      agent |-> agent]

--------------------------------------------------------------------------
Payloads(ctx, type) == SelectSeq(ctx.events, LAMBDA e : e.type = type)
Seen(ctx, type) == {ctx.events[i] : i \in {j \in DOMAIN ctx.events : ctx.events[j].type = type}}

ScanWindow == 60
Apart(s, t) == IF s > t THEN s - t ELSE t - s

(* The services its address touched around the session.                    *)
ServicesSeen(ctx) ==
  {ctx.service} \cup {s.service : s \in {t \in ctx.siblings :
                                           Apart(t.start, ctx.start) <= ScanWindow}}

--------------------------------------------------------------------------
(* ttp_rules.py: each rule gives the technique and a confidence, or none.  *)
Match(id, confidence) == {[id |-> id, confidence |-> confidence]}

(* Mutant: three attempts are enough.                                      *)
LowThreshold == 2
GuessThreshold == 5

GuessEvents(ctx) ==
  {i \in DOMAIN ctx.events :
     LET e == ctx.events[i]
     IN \/ ctx.service = "ssh" /\ e.type = "SSH_AUTH_ATTEMPT"
        \/ ctx.service = "telnet" /\ e.type = "TELNET_AUTH_ATTEMPT"
        \/ ctx.service = "ftp" /\ e.type = "FTP_COMMAND" /\ e.verb = "PASS"}

PasswordGuessing(ctx) ==
  IF Cardinality(GuessEvents(ctx)) <= GuessThreshold THEN {} ELSE Match("T1110.001", 90)

StuffingEvents(ctx) ==
  CASE ctx.service = "ssh" -> Payloads(ctx, "SSH_AUTH_ATTEMPT")
    [] ctx.service = "ftp" -> SelectSeq(Payloads(ctx, "FTP_COMMAND"),
                                        LAMBDA e : e.verb \in {"USER", "PASS"})
    [] OTHER -> <<>>

(* The argument of USER is the name; that of PASS is not.                  *)
UserNames(events) ==
  {events[i].user : i \in {j \in DOMAIN events :
     events[j].type = "SSH_AUTH_ATTEMPT" \/ events[j].verb = "USER"}}

CredentialStuffing(ctx) ==
  IF Len(StuffingEvents(ctx)) >= 5 /\ Cardinality(UserNames(StuffingEvents(ctx))) >= 4
  THEN Match("T1110.004", 85) ELSE {}

ExploitPublicApp(ctx) ==
  IF ctx.service = "http"
     /\ \E e \in Seen(ctx, "HTTP_REQUEST") : e.cve_signature \/ e.sqli_pattern
  THEN Match("T1190", 85) ELSE {}

FileDiscovery(ctx) ==
  CASE ctx.service = "http" /\ \E e \in Seen(ctx, "HTTP_REQUEST") : e.path_traversal
         -> Match("T1083", 75)
    [] ctx.service = "ssh" /\ \E e \in Seen(ctx, "SSH_COMMAND") : "discovery" \in e.raw
         -> Match("T1083", 70)
    [] OTHER -> {}

VictimHostInfo(ctx) ==
  IF \/ /\ ctx.service = "http"
        /\ \E e \in Seen(ctx, "HTTP_REQUEST") : Found(HostInfoPaths, e.uri_decoded)
     \/ ctx.service = "ssh" /\ \E e \in Seen(ctx, "SSH_COMMAND") : "host info" \in e.raw
  THEN Match("T1592", 65) ELSE {}

ValidAccounts(ctx) ==
  IF /\ ctx.service = "ssh"
     /\ \E e \in Seen(ctx, "SSH_AUTH_ATTEMPT") : e.success
     /\ Seen(ctx, "SSH_COMMAND") # {}
  THEN Match("T1078", 90) ELSE {}

(* Mutant: only an address seen on three services scans.                   *)
ThreeServices(ctx) ==
  IF Cardinality(ServicesSeen(ctx)) < 3 THEN {} ELSE Match("T1595.001", 95)

IpBlockScanning(ctx) ==
  IF Cardinality(ServicesSeen(ctx)) < 2 THEN {} ELSE Match("T1595.001", 95)

(* evaluate(): each technique has one rule, so nothing is there twice.     *)
TTPMatches(ctx) ==
  UNION {PasswordGuessing(ctx), CredentialStuffing(ctx), ExploitPublicApp(ctx),
         FileDiscovery(ctx), VictimHostInfo(ctx), ValidAccounts(ctx),
         IpBlockScanning(ctx)}

--------------------------------------------------------------------------
(* signatures.py: each rule names a tool and a confidence, or none.        *)
Tool(name, confidence) == {[name |-> name, confidence |-> confidence]}

(* The first pattern of the list that the client version matches.          *)
BannerPatterns == << <<"hydra", "Hydra", 95>>, <<"medusa", "Medusa", 95>>,
                     <<"crowbar", "Crowbar", 90>>, <<"putty", "PuTTY", 30>>,
                     <<"libssh", "libssh-based tool", 55>> >>

SshBanner(ctx) ==
  LET grabs == Payloads(ctx, "SSH_BANNER_GRAB")
      hits == IF ctx.service # "ssh" \/ grabs = <<>> THEN {}
              ELSE {i \in DOMAIN BannerPatterns : BannerPatterns[i][1] \in grabs[1].version}
      first == CHOOSE i \in hits : \A j \in hits : i <= j
  IN IF hits = {} THEN {} ELSE Tool(BannerPatterns[first][2], BannerPatterns[first][3])

(* Three credentials, two of them from Hydra's list.                       *)
FastCredentials(creds) ==
  IF /\ Len(creds) >= 3
     /\ Cardinality({i \in DOMAIN creds : creds[i].common}) >= 2
  THEN Tool("Hydra", 70) ELSE {}

SshCredentials(ctx) ==
  IF ctx.service # "ssh" THEN {}
  ELSE FastCredentials(SelectSeq(Payloads(ctx, "SSH_AUTH_ATTEMPT"),
                                 LAMBDA e : e.auth_type = "password"))

(* PASS takes the name of the last USER, once.                             *)
FtpCredentials(ctx) ==
  LET events == ctx.events
      paired(i) == /\ events[i].verb = "PASS"
                   /\ \E j \in 1..(i - 1) :
                        /\ events[j].verb = "USER"
                        /\ \A k \in (j + 1)..(i - 1) : events[k].verb \notin {"USER", "PASS"}
  IN IF ctx.service # "ftp" THEN {}
     ELSE LET all == {i \in DOMAIN events : paired(i)}
          IN IF Cardinality(all) >= 3
                /\ Cardinality({i \in all : events[i].common}) >= 2
             THEN Tool("Hydra", 70) ELSE {}

(* More than ten, or more than two, attempts a second; a burst within one  *)
(* tick of the clock is the fastest there is.                              *)
SshBurst(ctx) ==
  LET tries == Payloads(ctx, "SSH_AUTH_ATTEMPT")
      span == tries[Len(tries)].ts - tries[1].ts
  IN CASE ctx.service # "ssh" \/ Len(tries) < 5 -> {}
       [] Len(tries) > 10 * span -> Tool("brute force, high rate", 65)
       [] Len(tries) > 2 * span -> Tool("brute force, medium rate", 45)
       [] OTHER -> {}

MultiServiceScan(ctx) ==
  CASE Cardinality(ServicesSeen(ctx)) >= 3 -> Tool("Masscan / port-scan", 95)
    [] Cardinality(ServicesSeen(ctx)) = 2 -> Tool("Multi-service scanner", 75)
    [] OTHER -> {}

HttpUserAgent(ctx) ==
  LET requests == Payloads(ctx, "HTTP_REQUEST")
  IN IF ctx.service = "http" /\ requests # <<>> /\ requests[1].agent \in DOMAIN Scanners
     THEN Tool(requests[1].agent, Scanners[requests[1].agent]) ELSE {}

RdpProtocols(ctx) ==
  LET connects == Payloads(ctx, "RDP_CONNECT")
  IN IF ctx.service = "rdp" /\ connects # <<>> /\ connects[1].protocols = 0
     THEN Tool("Internet-wide RDP scanner", 60) ELSE {}

(* evaluate(): of two rules that name one tool the surer one stays.        *)
ToolMatches(ctx) ==
  LET all == UNION {SshBanner(ctx), SshCredentials(ctx), SshBurst(ctx),
                    FtpCredentials(ctx), HttpUserAgent(ctx), RdpProtocols(ctx),
                    MultiServiceScan(ctx)}
  IN {t \in all : \A u \in all : u.name = t.name => u.confidence <= t.confidence}

--------------------------------------------------------------------------
(* threat_scoring.py.  round() of Python goes to the even neighbour.       *)
Rounded(n, d) ==
  LET q == n \div d
      r == n % d
  IN IF 2 * r > d \/ (2 * r = d /\ q % 2 = 1) THEN q + 1 ELSE q

AtMost(cap, n) == IF n > cap THEN cap ELSE n

AbuseComponent(abuse) == AtMost(40, Rounded(40 * abuse, 100))
ToolComponent(tools) ==
  AtMost(30, 15 * Cardinality({t \in tools : t.confidence >= 70}))
TTPComponent(ttps) ==
  IF ttps = {} THEN 0
  ELSE AtMost(50, Rounded(50 * MapThenSumSet(LAMBDA m : m.confidence, ttps),
                          100 * Cardinality(ttps)))
PrivilegeBonus(ttps) == IF \E m \in ttps : m.id = "T1078" THEN 25 ELSE 0

ScoreSession(abuse, tools, ttps) ==
  AtMost(100, AbuseComponent(abuse) + ToolComponent(tools)
              + TTPComponent(ttps) + PrivilegeBonus(ttps))
=============================================================================
