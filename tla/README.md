# HoneyStrike in TLA+

A formal model of HoneyStrike: TLA+ modules that follow the Python under
`src/src/honeystrike/`, TLC configurations that check them on small instances,
and theorems about them that TLAPS proves for every value of the constants.
`PROJECT.json` maps every definition to the lines it models and lists the runs,
mutants, hazards, findings and theorems. Paths below are relative to
`src/src/honeystrike/` unless they begin with another directory.

## 1. What HoneyStrike is

Honeypot listeners (SSH, FTP, HTTP, Telnet, SMTP, RDP, Redis, TLS) accept
attackers and write what they do to PostgreSQL and to a Redis stream. A
*fingerprint worker* collects a session's events, enriches them into one row
(fingerprint, ATT&CK techniques, threat score) and queues alerts and reports,
which two more workers send and render. A FastAPI process serves the collected
data and a training game: duels between two players, an instructor's arena,
replays, lessons, XP and badges. A separate lobby (SQLite) matches players of the
command line. Every part is asyncio or a thread; what they share is PostgreSQL at
READ COMMITTED, Redis, or the memory of one process.

## 2. Inventory

| component | state | operations | what makes it correct |
|---|---|---|---|
| session manager (`core/session_manager.py`) | `sessions`, `events` rows | `open`, `record_event`, `close`: a commit, then an XADD | a consumer never hears of what the database does not have |
| event bus (`core/event_bus.py`, `core/events.py`) | Redis stream, consumer group, pending list | XADD with trim, XREADGROUP, XACK, envelope codec | entries are delivered once, in order; a bad entry blocks nobody |
| aggregator (`workers/intel/aggregator.py`) | ordered dictionary of buffers | `ingest`, `drain_idle`, `_evict_if_full` | keys, order and cap agree; an event is in one buffer only |
| fingerprint worker (`workers/intel/fingerprint.py`) | `_pending_ids`, fingerprint/TTP rows, score | `run`, `_ingest_entry`, `_drain_idle`, `_flush`, `_enrich_and_persist`, `_ack` | no XACK before a commit; rows only move forward; notices follow the row |
| alerting worker (`workers/alerting/`) | dedup keys, `alerts` rows | claim, dispatch, persist, ack | one burst per address, severity and window, and not none |
| reports worker (`workers/reports/`) | files, `reports` rows | generate, upsert, ack | a row's file exists; an asked-for report is written |
| threat scoring (`threat_scoring.py`) | none | sum of four components, clamp, severity | bounds, monotonicity, severity bands |
| TTP rules, signatures, ML (`ttp_rules.py`, `signatures.py`, `ml_anomaly.py`) | none | rules over a buffer | each rule's window and thresholds |
| AbuseIPDB client (`abuseipdb.py`) | Redis cache and daily counter | lookup, reserve, cache | the day's quota is kept |
| geo lookup (`geo.py`) | cache | lookup | none that depends on order |
| listeners (`services/*`) | one connection each | protocol state machines, captures | every attempt is recorded once, every session closed |
| SSH attempt counter (`services/ssh/attempt_counter.py`) | Redis counter | INCR, EXPIRE | the window ends |
| blocklist and defender API (`core/blocklist.py`, `api/routers/defender.py`) | Redis keys, labels | block, unblock, check, label | a block expires; a label counts once |
| duels (`api/routers/duels.py`) | `duels` rows | challenge, accept, decline, fire, label, finish, expire | one open duel per pair, one payment, waves counted as labelled |
| progression (`core/progression.py`, `api/routers/progress.py`) | `user_progress` | `record_event`, streaks, ranks, badges | XP, counts and badges agree with the events |
| arena (`api/routers/arena.py`) | one in-memory window | open, fire, label, close | scores equal resolved waves |
| play API (`api/routers/play.py`) | task table | launch, poll, garbage collection | 3 at a time, 12 a minute |
| accounts (`api/auth.py`, `api/routers/admin.py`) | `users`, rate limiter | register, login, change role | one name per user, at least one admin |
| live feed (`api/ws.py`, `core/live_feed.py`) | subscribers | seed, subscribe, publish | no session missed between seed and subscription |
| lobby (`lobby/store.py`, `lobby/app.py`) | SQLite players, invites, matches | invite, accept, decline, report | an invite makes one match |
| read API, STIX/TAXII | none | queries | serialization only |
| CLI, attack runners | none | clients | clients of the above |
| partition maintenance (`workers/maintenance/`) | `events` partitions | create, drop | month arithmetic |
| database, config, logging, mail | none | sessions, settings | transaction rules |

Interactions. A listener calls the session manager and shares nothing else with
the worker; the worker reads only the stream. The fingerprint worker hands to the
alerting and reports workers over two further streams. The API reads the rows the
workers write. Duels, arena, defender and progress share `user_progress`.

What is hard here, component by component:

- *Session manager*: commit and XADD are two steps with a failure or a crash
  between them; the FTP handler stops waiting after 5 s while its call runs on.
- *Fingerprint worker*: everything it knows between a read and a commit is in
  memory; two classes keep two views of it (`_pending_ids`, `_buffers`); it
  relies on a redelivery; the idle drain empties buffers in bulk and flushes them
  one by one while the loop awaits.
- *Alerting, reports*: claim before send, file before row, no re-read of the
  pending list.
- *Duels, progress, admin, registration*: read, decide, write at READ COMMITTED,
  without locks or constraints behind the decision.
- *Arena, play*: handlers are atomic up to an `await`, then somebody else runs.
- *Lobby*: each SQLite statement commits by itself, and clients poll with timeouts
  of their own.
- *SSH connection*: a thread of paramiko and a thread of ours share a list.

`PROJECT.json` lists each of these under `hazards`, at its line, with the
properties that cover it.

## 3. The modules

| module | models | composed by |
|---|---|---|
| `Faults` | the bound on failures in one behaviour | `SessionManager`, `FingerprintWorker`, `NoticeQueues` |
| `EventStream` | the Redis stream as the code uses it (external) | `SessionManager`, `SessionAggregator` |
| `SessionManager` | `session_manager.py` and the order of the listeners' calls | `IntelPipeline` |
| `SessionAggregator` | `aggregator.py` | `FingerprintWorker` |
| `FingerprintWorker` | `fingerprint.py`, the clamp of `threat_scoring.py` | `IntelPipeline` |
| `IntelPipeline` | listeners, stream and worker together; all pipeline properties | |
| `EventLedger` | abstract: what the pipeline promises about events | instantiated in `IntelPipeline` |
| `Duels` | `duels.py` over PostgreSQL; the XP of `progression.py` | |
| `DuelRules` | abstract: the rules of a duel, one request at a time | instantiated in `Duels` |
| `NoticeQueues` | the alert and job streams, and the loop both workers share | `Alerting`, `Reporting` |
| `Alerting` | `workers/alerting/` | `Notices` |
| `Reporting` | `workers/reports/worker.py`, `POST /api/sessions/{id}/report` | `Notices` |
| `Notices` | both workers side by side; their properties | |
| `Limiter` | the clock and the sliding windows of `auth.py` and `play.py` | `Accounts`, `Play`, `Lobby` |
| `Progress` | `progression.py`, `progress.py`, the `user_progress` row | `Arena` |
| `Arena` | `arena.py` with its awards | `Platform` |
| `Accounts` | sign-up, sign-in, verification, roles of `auth.py`, `admin.py` | `Platform` |
| `Play` | the task table of `play.py` | `Platform` |
| `Lobby` | `lobby/store.py`, `lobby/app.py` and their clients `challenge.py`, `listen.py` | `Platform` |
| `LiveFeed` | `ws.py`, `live_feed.py`, the worker's `publish_live` | `Platform` |
| `Detection` | `detectors.py`, `signatures.py`, `ttp_rules.py`, `threat_scoring.py` as operators | `Campaigns` |
| `Campaigns` | the catalogue, the runners, the sessions they leave, enrichment, blocklist, grade | `Platform` |
| `SshConnection` | the two threads of `services/ssh`, the attempt counter | `Platform` |
| `Listeners` | the other seven listeners, call by call | `Platform` |
| `Lookups` | `abuseipdb.py` | `Platform` |
| `Platform` | the parts above side by side; `LimitsHold` | |
| `MC*` | symmetry sets and definitions for TLC | |
| `IntelPipelineProofs`, `IntelAccountingProofs`, `LedgerProofs` | theorems about the pipeline, layer on layer | |
| `DuelProofs`, `NoticesProofs` | theorems about the duels and the two workers | |
| `MembersProofs` | theorems about progress and arena | |
| `ApiProofs` | theorems about the limiters, accounts, lobby and live feed | |
| `SensorProofs` | theorems about the listeners, look-ups and attack runs | |

### 3.1 The pipeline

*State.* `stream`, `cursor`, `pel`, `trimmed` are Redis; `row` and `eventRows`
PostgreSQL as the listeners write it; `fp` and `threat` as the worker does;
`order` and `buffer` are `_buffers`, an OrderedDict, split into its key order and
its contents; `pendingIds` is `_pending_ids`; `batch`, `popped`, `drained` and
`flush` are local variables of the worker's coroutines that live across an
`await`. `acked`, `enriched`, `evicted` and `forgotten` are history. An event is
its position in the stream; its payload is its number within the session (0 opens,
the last closes). A buffer's list is a set of positions, because a single
consumer ingests in stream order.

*Atomicity.* One action is what the code does between two awaits that change
state. `SessionManager` calls split into `Commit` and `Publish`. `Ingest` is the
whole of `_ingest_entry`, with the eviction, `move_to_end`, the ready test and the
pop of the ids that `_flush` does before its first await. `_flush` splits into
`Persist`, `PublishAlert`, `PublishReport` and `AckFlush`. `DrainIdle` takes all
idle buffers out at once as `drain_idle` does, and `FlushDrained` starts the
flushes of the loop around it.

*Failures.* `OpenOrCloseFails`, `RecordFails`, `OpenTimesOut`, `ListenerDies`,
`ReplyLost` (Redis has handed entries to the group, the reply of XREADGROUP is lost
with its connection, and the loop swallows that and goes on), `PersistFails`, a
failed XADD or XACK in `PublishAlert`, `PublishReport` and `AckOrForget`, and `Crash`
with `Restart`. Each uses up one of `MaxFaults`. A
commit either applies or raises. A listener that never calls `close` (SSH's
`_persist_captures` after a timeout, or a peer that stays silent) is one whose
actions are not taken.

*Abstracted.* Geo, AbuseIPDB, signatures, TTP rules and the sibling sessions of an
address add up to any total in `0..MaxTotal`, clamped as `score_session` does.
`publish_live` is best effort and left out. Timing is nondeterministic: any prefix
of the dictionary may be idle, which covers every value of the 90 s timeout.

*Code that nothing reaches.* No signal handler calls `stop()` of a worker, so a
container stop is a `Crash`, and the drain after the loop
(`fingerprint.py:152-155`) does not run. `_flush`'s test for an empty buffer is
never true.

### 3.2 Duels

*State.* `duel` is the table, one record per row; of a wave only its number and
whether it is blocked; `due` says that `ends_at` has passed. `xp` is
`user_progress.xp`. `req` holds the requests under way, each with the copy of the
row its SQLAlchemy session loaded, as `expire_on_commit=False` and the absence of
a refresh let it keep. `fired` numbers the waves. `confirmed`, `paid`, `winner`,
`earned`, `raced` and `overtaken` are history; a player is `overtaken` once a
finalization wrote the XP another one had read and not yet written; a duel is
`raced` once two requests had it loaded at the same time, or when it was inserted
while another challenge of the same pair had passed its check and was still to
insert.

*Atomicity.* READ COMMITTED, at the granularity of statements: a `Load` action is
the SELECT with the checks that follow, a later action writes. An UPDATE names
only columns that differ from the copy, as SQLAlchemy's unit of work does
(`Written`); `waves` is always written, because of `flag_modified`. A
finalization is `Finalize`, `AwardAttacker`, `AwardDefender`: autoflush sends the
duel's UPDATE before the first `_award` selects, and the attacker's before the
second. The flushes take row locks (`HasDuel`, `HasProgress`) that are held up
to the commit, at which the changes become visible. Waiting is `WaitsFor`;
`BreakDeadlock` is PostgreSQL's detector. `Rollback` lets any request die at any
point.

*What it implements.* `DuelRules` has one record per duel (`match`) and the XP paid,
and every request is one step. `Ruled` maps to it: a row as it is committed, with the
winner of a finished duel; of a raced duel only its players and the status
"overlapped". A load, a flush before the commit and a rollback are stutters; the
second load of a duel is the rules' `Overlap`, and a second insert of a pair `RushIn`.
So the rules say what single requests may do to a duel nobody raced, and that one
that was raced pays its own two players, both of them, by the tariff.

*Abstracted.* Every player has a progress row (the insert branch of `_award` is
left out). Refused requests change nothing and are no step. Read-only routes are
left out; `GET /mine` expires each of its rows in a transaction of its own, as
several `GET /{id}` would. The runner `fire()` starts is best effort. Streaks,
counts and badges of an award are in `Progress`.

### 3.3 Notices

*State.* For each of the two queues, `queue` holds every entry ever added, `handed`
the group's position, `begun` the entry its worker has got to and `done` the
acknowledged ones; `running` says which worker is up. `claimed` are the dedup keys
in Redis, `page` the alert under way with the channels `gather` still waits for,
`alertRows` the `alerts` table. Of a report there is only its `version`, the number
of enrichments its session has had when it was read: `render` is the one under way,
`file` and `torn` the directory, `report` the `reports` table. `sent` and `deduped`,
and `asked` in a job, are history.

*Atomicity.* `BeginAlert` is `_process_entry` up to the answer of SET NX, and
`BeginJob` up to the result of `_build_report_context`: between the start of an
entry and that answer the worker holds nothing anybody sees. `Send` is one channel
of the `gather`, in any order. `StoreAlerts` and `StoreReport` are one transaction
each. Opening the file cuts it off and writing fills it in two steps, as the API
serves the file from another process. The workers handle one entry after the other
and read the next batch when the last is through.

*Failures.* A RedisError of SET NX, which may have set the key all the same and
counts as the first time; a channel that fails (not a fault: it may happen at any
time); a failed XACK; an exception of `_generate`; and a process that ends
(`AlertingDies`, `ReportingDies`), which is also what an exception of
`_persist_alert_rows` does, since nothing catches it, and what a reply of XREADGROUP
that is lost with its connection amounts to. After a restart the worker reads `>`,
so what it had been handed is not seen again: `Die` moves `begun` to `handed`.

*Abstracted.* `build_channels_from_settings` always includes the log channel, whose
`send` cannot fail, so the branch "no channel succeeded" is not reachable as
deployed and is left out. Of an alert there is only its key. A report job of an
unknown format is a bad entry, as both are acknowledged unread. A document is a
pair of session and format; it has a version of its own, which allows more than two
formats of one session do. A context is read in several SELECTs; its
version is the oldest of them. `session not found` is left out: the API looks the
session up, the fingerprint worker has just committed it, and nothing deletes
sessions. The trim at 10 000 entries is left out too.

### 3.4 The platform

`Platform` puts eleven parts beside each other that share nothing but the clock
(and, arena and progress API, the rows of `user_progress`). The product of their
states would show nothing the parts do not, so the variable `part` says which of
them a behaviour exercises, and `Init` chooses any. What this gives up is exactly
the interleaving of parts that have no state in common; `Arena` does extend
`Progress`, and its awards are requests of that module that overlap one another.

*Members* (`Progress`, `Arena`). A request of the progress API is `Begin` (the
SELECT and the change of the copy), for a user without a row `InsertRow`, and
`Save`, the UPDATE of the columns that differ from the copy and the commit; badges
are judged in `Begin`, from the copy. The award of a duel or of the arena is the
same request with neither statistics nor lessons. The arena's window is in memory;
its handlers run to their first await at once, which only `label` has, for the
award of a wave it has resolved by then. `_is_open` closes a window whose time
is over, so whoever looks first pays the waves nobody blocked.

*Accounts*. Each SELECT of `register` and of `set_role` and `set_active` is a step,
as is the write. A name is a pair of its lower case and its spelling. A token is the
time until which it is valid.

*Play and the limiters*. Handlers are one step each, as nothing awaits between a
check and what follows. `Called` is what a call leaves of a list of times.
`LimitsHold` compares the lists with a history of all admissions.

*Lobby*. The lobby runs its handlers one after the other; `AcceptCutShort` is its
death between the two statements of `accept_invite`. A request of the challenger is
sent (`Challenge`, `Poll`), answered (`InviteAnswered`, `AnswerPoll`, which reads the
row) and heard (`Hear`), with other steps between any two of these; `LobbyTick` lets
neither the request take longer than `RequestTime` nor the sleep longer than
`PollPeriod`. An answer other than 200 is ignored until the next poll (`PollIgnored`).
A request that fails ends the command, at any point, as nothing catches it
(`ChallengeBreaks`). `RequestTime` is httpx's `timeout=10`; httpx applies it to each
phase of a request, so it is the sum of them that the constant stands for. The
listener sees invites and accepts or passes them over. `Decline` is an API no client
calls.

*Live feed*. `CommitSession` and `PublishLive` are two steps of the worker; a client
is seeded, subscribed, and sent what its subscription holds.

*Attack runs* (`Detection`, `Campaigns`). A request or a command line is the set of
those fragments of it that some pattern looks for, and `Decoded` does what one level
of `unquote_plus` does to them. An entry of the catalogue is a list of steps, a step
a list of connections with what the client says in each. `Connect` makes the next one, which
leaves a session with its events, of which for SSH the attempt counter decides how
many attempts there are. `Refused` is a blocked address; `Unreached` any target
where nobody listens or answers in time, which every runner swallows, so that the run
ends "done" without a session; `RunnerRaises` a connection that is dropped before a
greeting. A connection that breaks off in the middle is left out.
`EnrichSession` is `_enrich_and_persist` of a whole session: siblings, rules, score
and rows. It takes the closings in the order of the stream, while the sessions of
a step end in any order. `Detected` is the query of `campaign_score`.

*SSH connection*. `ParamikoStep` is what the transport's thread does in the callbacks
of `server.py`, `ThreadStep` the connection's own thread, from the handshake to the
close of the session. `Copy` and `Clear` are two steps, as nothing but the
interpreter orders the threads. `gap` is the history of captures that fall between
these two or come after the last look.

*Other listeners*. A handler is told from the others by four facts (`most`,
`counted`, `onError`, `cut`); every call of the session manager may fail before
or after its commit, and FTP's may come too late.

*Lookups*. Each await of `check` is a step; any call of Redis may fail, and an
INCR that failed may have been applied.

## 4. The runs

| run | instance | states | shows |
|---|---|---|---|
| `pipeline_safety` | 3 sessions (1 FTP), 1 attacker event each, stream of 4, one fault, one bad entry, buffers of 2, at most 2 buffers, trim at 3 | 953 000 | the invariants below, and that the pipeline implements `EventLedger` |
| `pipeline_liveness` | 2 sessions, stream of 4, no fault, no eviction, no trim | 34 000 | entries are acknowledged, sessions fingerprinted, high scores alerted; a notice never outruns its row |
| `redelivery` | 2 sessions, one fault | violated | finding 1 |
| `session_level` | 2 sessions, no fault | violated | finding 2 |
| `duels` | 2 players, 2 duels, 2 requests, no waves | 140 000 | no duel finished unpaid; XP accounted for; two open duels of a pair need a race; every request ends, through lock waits and deadlocks |
| `duel_races` | 1 duel, MAX_WAVES 2, 3 fires, 2 requests | 801 000 | what any overlap leaves intact, what holds while requests do not overlap, and that `Duels` implements `DuelRules` |
| `duel_pays_once` | 1 duel, 2 requests | violated | finding 3 |
| `blocked_stays` | 1 duel, 2 waves, 2 requests | violated | finding 4 |
| `notices` | 2 dedup keys, 2 channels, 1 document of 2 versions, 3 entries, one fault | 288 000 | what is acknowledged was sent and recorded, or rendered and stored; every notice ends |
| `alert_window` | the same | violated | finding 5 |
| `report_retried` | 1 job, 2 faults | violated | finding 6 |
| `platform` | see *Bounds* | 1 093 000 | the properties of the platform below |

Properties of the pipeline:

- `StreamBackedByRows`: what the stream announces is committed already.
- `AckedWereEnriched`: an acknowledged entry was part of a commit, or was evicted,
  or does not decode. Neither a failure nor a crash leads to an XACK.
- `PendingAccounted`: each pending entry is in one place of the worker's memory or
  was lost to a fault (a reply that did not arrive, a crash, a failed persist or
  XACK), and without a fault none is. Nothing is held twice, and the code drops
  nothing by itself.
- `IdsMatchBuffers`, `OrderMatchesBuffers`: the views kept by the two classes agree.
- `FingerprintMovesForward`: a commit replaces a row only by one of later events
  of the same session. This is where a double flush or an id left behind shows.
- `NoticesBackedByRow`: alerts and report jobs follow the commit they are about.
- `ImplementsLedger`: refinement of `EventLedger`, with `log <- stream`,
  `handed <- cursor`, `open <- pel`, `settled <- acked`, `row <- fp`,
  `used <- enriched`, `discarded <- evicted`. Each event is used at most once, in
  order, and settled only when used, discarded or junk.
- `EventuallyAcked`, `EventuallyFingerprinted`, `EventuallyAlerted`.

Properties of duels:

- `XPAccounted`: XP never exceeds what committed finalizations awarded, and is
  exactly that for everybody whose row none of them wrote while another had read it.
  Lost updates lose, they never gain, and nobody else loses.
- `FinishedWasPaid`: no duel is finished unpaid, whatever dies half way.
- `PaidOnceForItsWaves`, `BlockedIfConfirmed`: without an overlap a duel pays once,
  for the waves in the table, of which those are blocked that `label` confirmed.
- `OneOpenPerPair`: a second open duel of a pair needs two requests that overlap.
- `ImplementsRules`: refinement of `DuelRules`, with `match <- Matches`. What `accept`
  decides on a stale copy, a closed duel that opens again, and a payment to somebody
  else or of another sum would show here.
- `Answered`: every request ends.

Properties of notices:

- `RecordedIfAcked`: the rows of an acknowledged alert are the sends that succeeded,
  no more and no fewer, although the sends overlap, the rows come after all of them
  and the worker may end anywhere.
- `DedupedWereTold`: an alert is only passed over after one of its key that reached
  the log channel, or that a crash lost. The second half is finding 5.
- `FreshOnceAcked`: an acknowledged job has a report no older than the job, also when
  jobs of one session queue up and earlier ones fail.
- `FileBehindRow`: what a `reports` row points to is no older than the row, is being
  rewritten, or was cut off by a failure in the rewriting.
- `EveryNoticeEnds`: without a fault, every entry is acknowledged.

Properties of the platform, each about one hazard:

- `NothingMadeUp`: whatever overlaps, XP, tallies and best streak never exceed what
  was committed to a user. `OnlyRacesTakeAway`: without an overlap no step takes a
  badge, a lesson, a tally or the best streak away.
- `ScoreboardAgrees`: scores are ten points for each wave, once, over fire, label,
  time-out, close and a new window; a closed window has nothing left to decide.
- `AdminsRemain`: an active admin remains unless two changes overlapped.
- `OneAccountEach`: two accounts with one name (in any case) or one address come
  only from sign-ups that overlapped.
- `LimitsHold`: no window of time, not only those the code looks at, sees more
  sign-ups or launches than the limit; no more tasks run than the cap.
- `OneMatchPerInvite`: an invite makes the one match it names, unless the lobby died
  between the two statements. `AbandonedIfLate`: a challenger who has given up
  left a match behind only if it was accepted less than a period, the sleep and the
  longest request, before the deadline or after it; each of its last polls that was
  not answered 200 adds a period. A command that an error or its user ended has not
  given up: it may leave an accepted match behind at any time.
- `FeedMissesOnlyTheGap`: an idle subscriber lacks only what the seed's limit cut
  off, what was published between seed and subscription, and failed publications.
- `OnlyTheseAreMissed`: a campaign nothing hindered (every connection reached its
  listener, no block, no long step, no failed check) is recognised by every expected technique except T1110.001 and, when
  only one service was touched, T1595.001, in every order of enrichment.
- `GuessedIfUngranted`: T1110.001 is found only if checks of the counter failed.
- `CapturesAccounted`: every capture is stored once and counted, but for those that
  fall in the gap between the two threads.
- `EventsCounted`: how far `event_count` may be from the rows of `events`, by listener
  and number of failed calls, and when a session is left open.
- `QuotaKept`: requests of a day beyond the quota are at most one for each worker
  (reserved before midnight), apart from those sent while Redis had failed.

*Bounds.* `MaxEvents`, `MaxStream`, `MaxBad`, `MaxFaults`, `DuelIds`, `Requests`
and `MaxFired` bound a behaviour; `MaxBuffered`, `MaxBuffers`, `MaxLen`,
`ReadCount`, the thresholds and `MaxWaves` are settings of the code made small
(5000, 10 000, about 100 000, 100, 60 and 60, 20) so that the cap, the eviction,
the trim and a partial batch happen within a few events. Three sessions are needed
to evict one while another is being flushed; a stream of four holds a session that
is flushed, comes back and is flushed again, next to another one. `MaxScore` 0 in
`pipeline_safety` makes every session alert, so that the notice path is taken in
all states; the liveness run tells scores below and at the threshold apart. In
`Duels`, a deadlock needs two duels and two requests, and every anomaly of one
duel needs two requests and two waves. `MaxFired` is a guard of `LoadToFire`, and
the bound on `DuelIds` one of `Challenge`, so that no request that began is held
up by a bound. In `Notices`, `MaxQueue` bounds the entries of both queues together
(3: a batch of two and one that queues up behind it, of one key or of two),
`MaxVersion` the enrichments; `BatchSize` 2 stands for 20 and 50. There are two
passing duel runs since two duels with waves are too
many states; what `duels` cannot show with waves (`XPAccounted` with winners,
`FinishedWasPaid`) is proved for every size, as is the refinement for any number of
duels. `MaxFaults` 1 is what the safety run
affords; the proofs have no such limit. In `platform`
every part has the least size at which its hazard occurs and one more where it is
cheap: two requests at a time, as each anomaly needs two; three committed actions
of a user; windows of two time units over three; two invites, a sleep of one unit, requests of
up to one, a deadline three units after the invite's answer and an expiry three
after the invite (3, 10, 60 and 120 s in the code), so that a match can begin before,
in and after the last period, with and without polls that were ignored; two clients, three sessions and a seed of one; six entries of the catalogue,
among them the ones that touch one service, several in one step, and several over
steps that may take long (70 s, longer than the 60 s of the scan rule); `SiblingLimit`
and `AllowAfter` as they are in the code (50, 3); two SSH connections of three captures;
one connection of the other listeners, since these share nothing, with two
faults; two workers, two addresses, a quota of two and one midnight.
The other cfgs say `CHECK_DEADLOCK
FALSE` because these systems may come to rest: nobody has to attack or to play.

*Fairness.* Pipeline: weak fairness of the worker's step, of the idle drain and of
the restart. The event loop runs, PostgreSQL and Redis answer, a silent session
becomes idle, Docker restarts the container (`restart: unless-stopped`). Nothing is
assumed of listeners and attackers, so liveness holds for sessions that never
close. The idle drain has a condition of its own as a stream that always offers
something must not starve it: `run` looks at the idle timer after every read. Duels:
the server goes on with a request it began; PostgreSQL queues those who wait
for a row, so none is passed over for ever, hence strong fairness of `Step`; its
deadlock detector acts, hence weak fairness of `BreakDeadlock`. No request has to
arrive. Notices: weak fairness of each worker's steps and its restart; `gather`
ends because every channel has a timeout. The platform has no fairness: all its
properties are about safety.

## 5. The findings

1. `redelivery` (`workers/intel/fingerprint.py:187`). "Don't ACK on failure — Redis
   will re-deliver." The worker only reads `>`, and nothing reads the pending list
   or claims from it, so an entry whose persist failed stays pending for good. The
   same becomes of one that a crash caught in memory or that was in a lost reply.
2. `session_level` (`workers/intel/fingerprint.py:411`). Enrichment needs "a
   *session-level* view"; a session flushed while idle (or at the cap) and active
   later ends with the fingerprint, TTP rows and score of its last part only.
3. `duel_pays_once` (`api/routers/duels.py:141`). Two requests that both loaded an
   open duel both finalize it; the second awards the XP again.
4. `blocked_stays` (`api/routers/duels.py:347`). A `fire()` that loaded the duel
   before a `label()` committed writes the old list of waves back: a wave answered
   `correct: true` counts for the attacker.
5. `alert_window` (`workers/alerting/worker.py:117`). "Two scored sessions from the
   same IP at the same severity within that window produce exactly one alert burst."
   The key is set before the first send: a worker that dies in between leaves it
   behind, and the alerts of the rest of the window are dropped as duplicates of one
   nobody got.
6. `report_retried` (`workers/reports/worker.py:141`). "Don't ACK on failure — Redis
   re-delivers, we retry once on restart." The worker only reads `>`, before and
   after a restart.

Seen while modelling, without a run of their own:

- The catalogue and the playbooks expect T1110.001 of an SSH brute force
  (`play.py:114`, `campaigns.py:78,126`; `tests/unit/test_cli_campaigns.py:28`). The rule
  wants more than five attempts in one session (`ttp_rules.py:186`), the honeypot lets an
  address in from its third attempt on (`services/ssh/__main__.py:327`,
  `attempt_counter.py:65`) and the runner stops there: as `OnlyTheseAreMissed` and
  `GuessedIfUngranted` say, the technique is found only when attempt checks fail.
- `ftp_hydra` opens a session for every pair, so the guessing rule, which counts the
  attempts of one session, cannot apply to it either (`campaigns.py:106`,
  `play.py:134`).
- `runners.py:8-9` says that runners do not raise on expected failures; a blocked
  address makes `ssh_hydra` and `ftp_hydra` raise (`RunnerRaises`).
- A run that reaches nobody ends "done", and its grade is that of a honeypot that
  recognised nothing (`Unreached`). This is what a campaign of the play API does by
  default: its `target_host` is `ssh-honeypot` (`play.py:202`), to which the playbooks
  add ports of the host, 18080, 2222, 2221 and 33389 (`campaigns.py:63,76,103,119`),
  while that container runs the SSH listener only and on port 22
  (`docker-compose.dev.yml:203`). The scenarios `multi-service`, which "guarantees
  T1595.001" (`play.py:145`), and `full-compromise` have the same default
  (`play.py:144,148`) and the same ports (`runners.py:313`). From the command line the
  target is 127.0.0.1, where `docker-compose.dev.yml:289` publishes HTTP on 8080 unless
  told otherwise.
- An error of a poll, say while the lobby restarts, ends the `challenge` command
  (`challenge.py:56`), and an accepted match stays without its attacker
  (`ChallengeBreaks`).
- `partition_events.py` goes on after a failed CREATE, but in a transaction that is
  aborted by then: the remaining months fail, too.

## 6. What is proved

All theorems hold for every value of the constants under the assumptions named in
the modules: naturals and positive caps, `Bottom` is no session, `Requests` and
`Workers` are finite (so they are in any process), the accounts a deployment starts
with have names that differ in more than case and there is one (`AccountsAssumption`;
`auth.py` looks a name up by its lower case before it inserts one), and the entries
that are run are in the catalogue (`ScheduledAssumption`; `play.py:243` refuses
others). Two theorems have hypotheses more. `GuessedCorrect` has
`AllowAfter <= GuessThreshold`: it is about the two thresholds the code ships
with, 3 (`services/ssh/__main__.py:327`, `.env.example:118`) and 5 (`ttp_rules.py`),
and false without it: `scripts/probe_ssh_hydra.py` raises the first to see the rule
match. `RecognitionCorrect` has three, all true of the code and each needed:
`AllowAfter <= 10`, as hydra's list has ten passwords and a run without a grant leaves
no shell (3 as shipped); `Dwell <= ScanWindow`, as connections further apart than the
rule's window are no scan (2 s at most, `cli/attack/campaigns.py:33`, against 60 s); and
`MostSessions <= SiblingLimit`, as the query for siblings must return all the sessions
a run can leave (32 against 50, `workers/intel/fingerprint.py:550`).

*Pipeline.* One inductive invariant, built in layers, each a conjunction on top of
the last:

1. `TypeOK /\ OrderMatchesBuffers` (`IntelPipelineProofs`, with the lemmas about
   `Without`, `Touched` and `Tail`). The types
   alone are not inductive: the eviction and the drain index the dictionary's order.
   `TypeCorrect`, `OrderCorrect`.
2. `Accounted` (`IntelAccountingProofs`) adds `HeldOrForgotten`, `IdsMatchBuffers`,
   `AckedWereEnriched` and two facts about the local variables: the list of drained
   sessions has no duplicates and covers `popped` (`DrainedOnce`), and a flush past
   its commit is the committed row (`FlushIsBuffer`). Without the first a second
   flush of one drained buffer could not be excluded. That a lost reply leaves the
   worker's own places apart is `ReplyLostKeepsAccounted`. The other half of
   `PendingAccounted`, that only faults forget, is inductive by itself
   (`OnlyFaultsForget`). `AckedCorrect`, `PendingCorrect`, `IdsCorrect`, `NoticesCorrect`.
3. `Ordered` (`LedgerProofs`) adds that what the worker holds for a
   session lies after the row it has, and what is in `batch` after what is buffered.
   `FingerprintForward`.
4. `Booked` (`LedgerProofs`) adds that nothing held was used or discarded before,
   except ids of evicted buffers, and maps each action to one of `EventLedger` or to
   a stutter. `PipelineImplementsLedger`.
5. Independently, `Backed` (`IntelAccountingProofs`) adds to the types that a call past
   its commit has its rows, and that no call comes before its session's open.
   `StreamBacked`.

*Duels* (`DuelProofs`). `Typed` is the types, of the requests' copies too, and that
rows past "none" have two different players. `AwardsOK` says that the XP a finalizer
read is at most what the player had earned, and is the player's XP still unless the
player was overtaken; `earned` only grows and contains every committed gain, hence
`XPCorrect`. It does not rest on the locks, which is why it survives every
interleaving, but on both players of a duel being different: an award to one player
twice would read once and write twice. For a duel that never raced, `Sound` says that
at most one request holds it, that this request's copy is the row in all but the clock
and that the status is still the one it checked; from it `PaymentCorrect`,
`BlockedCorrect` and `ClosedForGood`. `FinishedPaid` rests on the types alone.
`OneOpenPerPair` is not inductive: between its check and its INSERT a challenge
knows nothing of a duel that another opens. `PairInv` adds that a request about to
insert finds an open duel of its pair only if that one races (`InsertsRaced`), and
takes from `Sound` that no other step opens a duel that does not (`OneOpenCorrect`).
`RulesImplemented` rests on all of these (`RuledState`) and on `Fits`, that a copy has
the players of its duel and leaves room for what its request writes. First it is
shown what each write puts into the table (`AnswerWrites` to `AwardWrites`), then,
action by action, which step of `DuelRules` that is (`InsertMaps` to `TimeUpMaps`): for
an unraced duel the row is the copy, so the guard that held at the load holds of the
match; for a raced one only its players are seen, and they stay.

*Notices* (`NoticesProofs`). `Typed` adds to the types that a worker at work on an
entry is running, has begun it and has not acknowledged it; `QueueStep` says what any
step does to one queue, and with it each worker's part is shown to survive the
other's steps. `Paged` is the alerting worker's part: what was sent belongs to
entries begun, a key that is set has an entry that was told, lost, or is about to be
told (`ClaimsTold`), which is what makes `DedupedWereTold` inductive.
`RecordsCorrect`, `DedupedCorrect`. `Rendered` is the report worker's: versions only
grow, and a report under way is at least as new as its job and as the row it will
replace. `ReportsFresh`, `FilesBehindRows`. Both rest on the lemmas that an entry
that is over stays over and a lost one stays lost.

The other theorems are about `Platform`. Its parts share the clock of the
limiters and the token `part` and nothing else, so each has an inductive invariant
of its own, and a step of another part leaves it alone (`OnlyOnePartMoves`,
`OnlyOneSensorMoves`).

*Progress and arena* (`MembersProofs`). `ProgressInv` says of every open transaction
that what it read is at most what is given so far, and what it will write at most
that and its own action (`CopiesWithin`): rows only get copies, so this bounds the
rows however they overlap, column by column (`NothingInvented`). `CopiesCurrent` is for
users whose requests did not overlap: there is one transaction, its copy is the row,
and what it writes keeps what the row has (`NothingLost`). `ArenaInv` is the scoreboard
as a count over the waves; a step is shown to move one wave from one set that is
counted to another, and the close of a window to move all that are pending
(`ScoresAreWaves`).

*Limiters* (`LimitsInv`, `ApiProofs`). What a limiter keeps is the tail of all it
ever admitted, and what it dropped is older than its window. Without that the list
says nothing about stretches that began before its first entry. That the times kept
are a suffix rests on the clock's going forward (`OutdatedPrefix`). `LimitsCorrect`.

*Live feed* (`FeedInv`). A client that is not up to date has what it lacks in its
inbox, whether it is subscribed or not (`Informed`); the property itself speaks of
empty inboxes only and is not inductive. `FeedCorrect`.

*Lobby* (`LobbyInv`). `MatchTables` is invites and matches seen from both ends.
`ChallengerTimely` says for each place of a poll (sleeping, asked, answered) until
when it lasts, and that a match of the invite began no earlier than some slack before
that time, or the last answer would have named it (`InTime`): what "too late" means
has to be known while it still waits. A request adds `RequestTime` to the slack, an
ignored answer a period, and an answer that says "pending" sets it back
(`MoreSlack`). `OneMatchCorrect`, `AbandonedCorrect`.

*Accounts*. `NamesInv` adds that a sign-up past its check conflicts only with
accounts that came after it, whose names are marked (`OnRecord`). `AdminsInv` says,
until two changes overlap, that a change under way has the row as it is, and that one
about to remove an admin has another (`UpToDate`). `OneAccountCorrect`, `AdminsCorrect`.

*SSH* (`SshInv`, `SensorProofs`). For each place of the connection's thread, which of
buffer, list, table and gap hold the captures and which of them overlap: before the
copy buffer and list are disjoint, after it what is in the buffer is in the list or
in the gap. Lists without repetition are counted by the lemmas at the top of the
module. `CapturesCorrect`.

*Other listeners* (`PeersInv`). For each place, how far the counter a handler will
state may be from the rows, the failed calls and the late ones (`Tally`); `MaySay`
speaks of closed sessions only. `EventsCorrect`.

*Look-ups* (`QuotaInv`). Requests that were sent and those that are reserved and not
sent yet, together, are within the day's counter, or within the failures; of a
reservation of yesterday each worker has at most one, and no more once midnight has
passed. Counting only what was sent is not inductive. `QuotaCorrect`.

*Attack runs* (`RunInv`). As long as no check of the counter was lost, no session has
more attempts than the rule's threshold: for SSH because the honeypot lets the
address in by then (`FewAttempts`), for the rest because no dial of the catalogue
says so much in one session (`CatalogueFine`, by cases over the playbooks and
scenarios). `GuessedCorrect`. `MissInv` is about runs that nothing hindered, all of whose connections were made
among the rest. Each
expected technique that is not hard to see is shown by a session, or a connection
still to come will show it (`Covered`); a session that was enriched is recognised by
what it shows (`Recognised`); neighbours in the list of sessions are in each other's
scan window (`Paced`), and if two services were connected to, two neighbours are of
different ones (`Neighbours`). The last two are why the scan is found in whatever
order the sessions close: of two neighbours of different services the later one finds
the earlier among its siblings. That the catalogue's dials do show what the entries
expect is proved by cases over the entries. `RecognitionCorrect`.

*Model-checked only.* Liveness (`EventuallyAcked`, `EventuallyFingerprinted`,
`EventuallyAlerted`, `Answered`, `EveryNoticeEnds`): the prover does not do fairness
and ENABLED. Every other property of the passing runs is a theorem.

## 7. What is not modelled

- Read-only routes (sessions, stats, lessons, replay, profile), STIX and TAXII,
  reports' layout, alert texts, web pages, CLI output (`snapshot`, `tail`, `narrate`,
  ranks): queries and formatting without state of their own.
- Geo lookup: a cache in front of a file. `ml_anomaly.py`: scikit-learn's statistics.
- Passwords, hashes, reset links, signatures of tokens and TLS: cryptography.
- The loader of ATT&CK bundles (`ttp_rules.py:97-161`): reads a file of names.
- What the listeners answer, and the states of an SMTP dialogue: no event and no
  count depends on them. Canaries: names that a client looks for.
- Players of the lobby: rows with a heartbeat, which no invite looks at.
- Partition maintenance: idempotent DDL; it needs a partitioned `events` table, which
  migration 003 cannot create as the primary key lacks the partition key.
- Migrations and deployment.

Redis, PostgreSQL, SQLite, paramiko and SQLAlchemy are external and modelled by the
calls the code makes.

## 8. The plan

Every safety property is a theorem, and both abstract specifications are shown to be
implemented for every value of the constants. What is left:

1. The types of the parts of `Platform`, so far only as far as the invariants above
   need them, as one theorem.
2. Bounds of the threat score for every session. The score adds up the confidences
   of the rules that match (`MapThenSumSet`), so that it is a natural number at all is
   an induction over data, which the prover cannot do; TLC computes the scores of the
   catalogue's sessions.

The parts need no module of their own beyond that: what remains unmodelled
has no state (section 7).
