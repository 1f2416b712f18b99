# A formal model of the Central Discord Bot

This directory holds TLA+ modules that model the Cordactyl Discord bot (`src/src`) and the parts
of the vendored DPP library (`src/libs/DPP`) that decide in which order its code runs, the TLC
configurations that check them on small instances, and TLAPS proofs of the properties that matter
most for every size of the instance.

- run a check: `tlc -config PM_drain.cfg MCProcessedMessages.tla`
- check the proofs: `tlapm ProcessedMessagesProofs.tla`, and likewise `LifecycleProofs`,
  `RequestQueueProofs`, `HttpsClientProofs`, `ShardProofs`, `AppealProofs`

`PROJECT.json` lists the components, the runs, the mutants each property is tested against, the
source lines of every definition, the findings, the hazards and the theorems.

## 1. The system

The bot connects a Discord application with a panel (`API_URL`). It has no database: all it keeps
is in memory, and everything it does is one of three conversations.

| Component | State | Operations | Interacts with |
|---|---|---|---|
| `processed_message_cache` (`class/queued_messages.cpp`) | `cache_map`: id -> message with `error`, `tries`, `processed_at`; `cache_mutex` | `process_new_messages`, `store`, `clear_garbage_and_increase_tries`, the report's callback | called by `send_acknowledgement`; Discord through `co_guild_get_member` and `co_direct_message_create`; the panel through `/processed-queued-messages` |
| `queued_message` (same file) | one message | constructor (validates the JSON), `send_to_discord` | created and sent by a round |
| `acknowledge_payload` (`class/acknowledge_payload.cpp`) | `payload`, `current_application` | `pull_payload`, `send_acknowledgement`, `fetch_current_application`, `edit_current_application`, `exit` | panel `/acknowledge`; the cluster; the pipeline |
| start-up (`main.cpp`) | the globals `bot`, `acknowledge_timer`, `acknowledge`, `processed_messages` | environment checks, `on_ready`, the timers, `bot.start` | everything |
| `signal_handler` (`signal_handler.cpp`) | none | stop the timer, post the shutdown acknowledgement, arm the five second timeout | cluster timers, `acknowledge_payload::exit` |
| appeal command (`commands/appeals.cpp`) | one coroutine per interaction | find the guild, probe for direct messages, ask the panel, reply | guild cache, Discord, panel |
| translations (`class/translations.cpp`) | `translations` | `parse_localisations`, `_` | filled before threads start |
| `json_wrapper` (`class/json_wrapper.cpp`) | `payload`, `mutex` | `merge`, `deep_merge`, `get_payload` | base of `acknowledge_payload`; `merge` has no caller |
| DPP timers (`cluster/timer.cpp`) | `next_timer`, `deleted_timers`, `timer_guard` | `start_timer`, `stop_timer`, `tick_timers` | the event loop ticks them; any thread arms and stops them |
| DPP request queues (`queues.cpp`) | `requests_in`, `removals`, `buckets`, the global rate limit | `post_request`, `tick_and_deliver_requests`, `http_request::run`, completion | a timer per queue, the thread pool |
| DPP client (`httpsclient.cpp`, `sslconnection.cpp`) | `state`, `timed_out`, `timeout`, `connect_retries` | connect with retries, `handle_buffer`, `one_second_timer`, `close` | the event loop; completes a request of the queue |
| DPP gateway (`discordclient.cpp`, `wsclient.cpp`, the monitor of `cluster.cpp`) | `sessionid`, `last_seq`, `last_heartbeat_ack`, `ready`; `reconnections`, `last_identify` | `handle_frame`, `on_disconnect`, `one_second_timer`, the reconnect monitor | Discord; the event handlers |
| DPP cluster (`cluster.cpp`, `thread_pool.cpp`) | `terminating`, `shards`, the pool's tasks | `start`, `shutdown`, `~cluster` | threads below |
| DPP coroutines (`coro/`, `event_router.h`) | suspended frames | await, resume | answers of requests |

**Threads.** The main thread runs the event loop: sockets and, once a second, the timers
(`socketengine.cpp:106-125`). At least four pool threads run the event handlers and the callbacks
of answered requests. Signal handlers run on top of whichever thread the signal interrupts. A
coroutine runs on the thread that resumes it, so successive parts of one coroutine run on
different threads, and different coroutines run at the same time.

**What is hard.** The acknowledge timer does not wait for the round it started, so rounds overlap
and share the cache. Requests are answered late, refused or never; a report may be accepted and
its answer lost. The process ends through four races: the shutdown acknowledgement, the timeout,
main's return, and the signal itself. `PROJECT.json` "hazards" has the list with the lines.

**What makes each component correct.**
*Pipeline:* a result that was obtained is reported or its loss is deliberate; only finished
messages are reported; a result does not change; an entry is given up only after reports; the
cache does not fill for ever; duplicates only where the panel hands a message out again.
*Lifecycle:* a signal ends the process, nothing else does without a reason, a stopped timer stays
stopped, the shutdown acknowledgement is the last, the exit status tells why.
*Request queue:* each request is delivered once, in an order that serves every endpoint, and its
handler is called once. *Client:* its completion is called exactly once and in time, with the body
that was sent. *Gateway:* the handlers get the events of a session once and in order, whatever
becomes of the connections, and a lost connection is replaced - which holds only for those that
`close()` ends. *Appeal:* one reply that the user
sees, with the guild they meant.

## 2. Modules

| Module | Models |
|---|---|
| `ProcessedMessages` | the pipeline: rounds, cache, reports, faults |
| `ResultReporting` | what the pipeline promises the panel, without rounds, requests and ages |
| `ProcessedMessagesProofs` | theorems about the pipeline and the refinement |
| `Lifecycle` | start-up, acknowledge timer, signal handler, ways out |
| `LifecycleProofs` | theorems about the lifecycle |
| `RequestQueue` | one request queue: posting, concurrent delivery, buckets, completion, sweeping |
| `RequestPromise` | what a queue promises who posts to it |
| `RequestQueueProofs` | theorems about the queue and the refinement |
| `HttpsClient` | one request on its connection: connect, parser, timeout |
| `HttpsClientProofs` | theorems about how a request ends and what its body is |
| `Shard` | the gateway connections of all shards and the monitor that replaces them |
| `ShardProofs` | theorems about events, sessions and closed connections |
| `Appeal` | the appeal command |
| `AppealProofs` | theorems about what users of the command see |
| `MCProcessedMessages`, `MCLifecycle`, `MCRequestQueue`, `MCHttpsClient`, `MCShard`, `MCAppeal` | small instances for `PM_*.cfg`, `LC_*.cfg`, `RQ_*.cfg`, `HC_*.cfg`, `SH_*.cfg`, `AP_*.cfg` |

They are layered as the code is. `HttpsClient` shows that every client calls its completion
(`Completes`); `RequestQueue` assumes just that of its clients (fairness of `Answer`) and shows that
every request that was sent gets its handler called (`ImplementsPromise`), or was never sent because
its connection threw; `ProcessedMessages` and `Appeal` assume that of their requests: each is
answered, or abandoned. The layers are joined by these statements and not by composing their
states, which TLC could not explore.

### ProcessedMessages

A *round* is one coroutine of the acknowledge timer together with the report it posts. `pc[r]` is
where it is suspended or which critical section comes next:

| `pc[r]` | In the code |
|---|---|
| `acknowledging` | `co_await bot.co_request(".../acknowledge")`, acknowledge_payload.cpp:38 |
| `next` | at the loop over the messages, queued_messages.cpp:65; with nothing left to do, before `clear_garbage_and_increase_tries` (75) |
| `member`, `dm` | the two awaits of `send_to_discord` (34, 45) |
| `store` | `this->store(qm)` (69) |
| `snapshot` | after the ageing, before the copy under the shared lock (81-96) |
| `reporting`, `accepted` | the report is on its way; the panel has taken it and its answer is on the way (98-120) |

`cache` is `cache_map` with the two fields that steer the control, `error` and `tries`; a message is
an identifier. The panel is modelled by `told`, the messages it has accepted a result for: it does
not hand these out again. `sends`, `finished`, `posted`, `givenUp` and `lost` are history variables
that no guard of the code's actions reads, except that `HandOut` uses `sends` for the bound
`MaxSends`; `posted` counts up to four, where more makes no difference. `trouble` notes that
something went wrong: a round began while another was on its way, a request was not answered, a
report failed, the process died. Faults are chosen by the constant `Faults`: unanswered requests, connection failures,
refused reports and lost answers, crashes.

Reading `is_error` is where the model is most literal: `IsError` is false for a failed connection,
because the code's is.

### Lifecycle

Three kinds of threads, as above: `start[s]` is the ready handler of a shard on a pool thread,
`main` and `firing` the event loop inside or outside `tick_timers`, `handler` and `host` the signal
handler and the thread under it. `timers` and `stopped` are `next_timer` and `deleted_timers`, in
units of five seconds. `farewell[g]` follows the shutdown acknowledgement for signal value `g`:
SIGTERM from the handler, or 24 from the refused token. `status` is how the process ended.

Reading and writing the flag of `run_once` are two steps, since it is a plain static. `FarewellRaises` may read its
captured signal from freed memory once `~cluster` has deleted the request queues: undefined, so
the model lets it find the value or not.

The handler runs on top of a thread that may hold a lock the handler takes itself, and none of them
is recursive. `held` is that lock: `timer_guard` (`stop_timer`, `start_timer`), the payload's mutex
(`pull_payload`, acknowledge_payload.cpp:6), the queue's `in_mutex` (queues.cpp:424; the thread
under the handler has it at 304, 350 or 395), `dns_cache_mutex` and `fds_mutex` (the shutdown
acknowledgement is delivered and connects at once), and the locks of the C library. Each step of the
handler waits for the locks it takes (`Free`, `CanPost`), so on top of their holder it waits for
ever, and with it whatever else needs them: the other threads' timers and posts, and the event
loop (`LoopHangs`). The payload's mutex is held only while an acknowledgement is being built
(`BuildsPayload`).

Simplifications: one SIGTERM is delivered and not after main left its loop; the timer that fetches
the application again, and the timers of the library itself, are left out since nothing modelled
depends on them; `MaxAcks` caps the count of unanswered acknowledgements.

### RequestQueue

`pc[t]` and `view[t]` are the place of each thread in `tick_and_deliver_requests` and its
`requests_view`: `view` before the copy under the lock, `deliver` before the next request of the
view, `remove` between running it and taking it out. `Threads` are pool threads and the event loop,
whose `Tick` is the timer of the queue and `Sweep` the clearing of `removals`, which may or may not
fall on a multiple of 90 seconds. A bucket is either used up, and then its endpoint is in `limited`
until `TimeUp`, or not. `open`, `tasks` and `calls` follow a request through its client, the pool's
queue and its handler. `freed` holds the swept requests; whoever touches one sets `broken`, after
which anything may happen and nothing is claimed. `posted` (what was ever handed to `post_request`), `runs`
and `shared` are history.

Simplifications: reading a bucket is atomic, although the event loop writes the map without a lock;
the handler and the `completed` flag that is set after it are one step, as are the two writes of
an answer (bucket and pool task); the global rate limit is left out because the code can never set
it (queues.cpp:255 reads the captured copy).

### HttpsClient

A response is a sequence of tokens small enough to be cut anywhere that matters: inside a chunk's
length line, between CR and LF, in the middle of a chunk. `Receive` reads any number of them, and
`Parse` is one iteration of the loop of `handle_buffer`, during which the event loop does nothing
else (`parsing`). `Close` is `https_client::close` with everything it does; `Complete` calls the
handler, which takes the request for failed if `timed_out` is set or no status was parsed. The
three branches of `one_second_timer` are told apart by when they set `timed_out`. `Silence` lets the
server stop at any point. The parts of a body are told apart: `Parts` numbers them in the order in
which a server sends them, and a body begins with the first; so one that is left out, repeated or
out of its place shows (`BodyIsPrefix`). `Retry` may find no socket. `WellFormed` says what a response looks like
whose headers tell what follows them; a chunk may still be longer than announced or be followed by
something that is no length, and `Silence` cuts any response off.

### Shard

`conn[s]` is the state of the shard's current object. There are five ways in which a connection is
lost, and the code knows of two:

| `conn[s]` | Lost by | In the code |
|---|---|---|
| `closed` | an error, a timeout, a request to reconnect, a handler that throws | `close()` calls `on_disconnect`, which puts the shard on the list (wsclient.cpp:362, discordclient.cpp:118-127) |
| `none` | the constructor of the new object threw | back on the list, without an object (cluster.cpp:257-264) |
| `ended` | the server's close_notify | `SSL_shutdown` and nothing else (sslconnection.cpp:382-385) |
| `stranded` | a retry of connect() without a socket | neither retries nor timeouts apply to `INVALID_SOCKET` (sslconnection.cpp:623, wsclient.cpp:312) |
| `dead` | acknowledgements that stay out | only the descriptor is closed (discordclient.cpp:415-419) |

`WaitsIffClosed` says that the list has exactly the first two. An `ended` connection may still get an
error (`Break`) or go `dead`; the other two stay as they are. `reconnections` is the map of
cluster.cpp with the seconds left instead of the time. `stray` are the identify timers of deleted
objects; when one fires, or the monitor reads the null pointer a failed reconnection left, the
model sets `crashed`. Discord's side is external: the session it holds for each shard, its latest
event, whether a connection belongs to it, and what it sends; it may refuse an identify, drop a
session, send invalid_session for one it still holds (Discord's "resumable"; the code forgets the
session either way), ask for a reconnection, or say nothing, at any time. Any frame may turn out not
to parse and is then dropped (`Unparsed`). The handler of a dispatch may throw, also that of READY
or RESUMED, before or after it has changed the shard. History: `heard`, the last event handed to its
handler; `unread`, events that were dropped unparsed and that no resume has asked for since; `kept`,
the session a READY gave the shard, until an invalid_session.

Simplifications: all shards start at once, as those of one batch do (cluster.cpp:338-373); timers
that are due in one second run in any order and none is a second late; the two connects of a retry
are one `connecting`, and the one retry before the timeout is when `ConnectRetry` seconds have
passed; the server ends its TLS session after it has sent everything; the frame a handler throws on
is lost with its connection, which the code does too (discordclient.cpp:203, wsclient.cpp:187-192);
the outgoing queue, which only presence and voice use, is left out.

### Appeal

`pc[i]` is the await of interaction `i`, `pending` the reply that is on its way to Discord: the reply
is posted without waiting, except for the last, so a handler that is over may still have one.
`guilds` and `mutual` are the guild cache as the command searches it, `dm` whether the library knows
a channel for the user. Discord answers a message to channel 0 with 404; the body of the panel's
request is left out.

## 3. What is checked

| Run | Instance | Question |
|---|---|---|
| `drain` | 2 messages (1 malformed), 2 rounds, 2 sends, all faults with crashes, fairness | do overlapping rounds forget, change, invent or give up results too early; is each message sent once while nothing goes wrong; does the pipeline implement `ResultReporting`; does every result leave the cache |
| `is_error` | violated | does "sent" mean that Discord answered |
| `signal` | 1 shard, refused token, SIGTERM, silent panel allowed | does the signal end the process, does the refusal, and does anything else; how often does a stopped timer tick |
| `last_ack`, `raise` | 1 shard, accepted token, SIGTERM, violated | what acknowledge_payload.h promises about the same steps |
| `queue` | 3 requests, 2 to one limited endpoint, 1 that may throw; a pool thread and the event loop | is a request sent twice or used after it was freed, and when; does the queue drain and keep `RequestPromise` |
| `client` | 7 kinds of responses, timeout 9 s, 4 retries | is the completion called exactly once and in time; is the body right |
| `session` | 1 shard, periods of 2 s; 2 sessions of 3 events, 3 frames on the wire | are events skipped, repeated or reordered; are sessions kept |
| `shard` | 2 shards, periods of 2 s; the first with a session, the second always refused | which lost connections are on the list; is the first one replaced |
| `heartbeat` | 1 shard, 2 "milliseconds" per second, violated | does a connection without acknowledgements get replaced |
| `retry` | 1 shard, violated | does the timeout end a connection whose retry got no socket |
| `appeal` | 2 interactions of a user, 2 guilds, one request of each kind | is the invitation for the right guild; what does the user see |

**Bounds.** `drain`: two rounds overlap already in every way that matters pairwise (one ages between
another's ageing and report, one erases while another stores, one stores what another sent), and
`MaxSends` 2 gives a redelivery; the tries run through all of 0 to 3 since nothing bounds the number
of rounds one after the other. More messages and rounds are covered by the theorems. `signal`: one
shard is enough where `run_once` is not the question; the acknowledge period is six time units and
the timeout one, as 30 and 5 seconds; the interrupted thread holds any of the six locks, or none.
`queue`: three requests give a view with two requests of one
endpoint and one behind them, with insertions in between; two threads are what an overlap needs,
more are covered by the theorems. `client`: the timeout is longer than the first two retries and
shorter than the fourth, so both ends of the retries occur; the time added for the body is the
code's; a body has up to three parts, so that a middle one can be missing and two can be swapped.
`session` and `shard`: intervals of two seconds keep "due", "early" and "late" apart; three events
are READY, one that can be lost, and one that shows it; what needs several shards (the list, the
monitor) and what needs several events are two instances, since their product is beyond TLC; in
`shard` the second one competes for the monitor, for `last_identify` and for the identify timers. `appeal`: two interactions share cache and channel, two
guilds make the choice ambiguous.

**Fairness.** `drain` assumes that the timer keeps ticking and that every round takes its steps: a
request is answered, or closed by the client's timeout (`httpsclient.cpp:334-345`), or abandoned.
The property also says "if rounds with messages keep coming": a round without messages reports
nothing (queued_messages.cpp:60-62). `signal` assumes that clocks, threads and the event loop run
and nothing of the panel; `StopsAfterSignal` promises nothing once the handler sits on top of a thread
that holds one of its locks, since it then hangs in the code as in the model. `InvalidTokenStops` adds, as its premise
(`Answered`), that the panel and Discord answer and that the ready handlers go on. `queue` assumes running
threads and clocks, and strong fairness of the clients' completions, which the event loop handles
between its ticks (`HttpsClient.Completes` is why they come). `client`, `session`, `shard`,
`heartbeat` and `retry` assume that the event loop works and that time passes, and nothing of the servers. `appeal` assumes that
requests are answered, fail, or are abandoned. Deadlock is checked for the pipeline and for the
appeal, where each coroutine is a path of its own with nothing to wait for but its requests; the
other runs disable it because a process ends, a queue is empty for
good, a request is done, or a crash ends everything.

**Findings.** (1) A connection failure counts as a success (`is_error`). (2) The shutdown acknowledgement
need not be the last (`last_ack`). (3) After `shutdown()` the callback may be freed before it
raises the signal (`raise`). (4) Missed heartbeat acknowledgements do not force a reconnection:
seconds are compared with milliseconds, and then only the descriptor is closed (`heartbeat`).
(5) A retry of a gateway's connect() that gets no socket is not left to the timeout code, but to
nobody (`retry`).

Also in the model, and without a run of its own: an invalid token leads through a shutdown
acknowledgement to signal 24 (or to code 0, once the cluster is gone), and never to the exit code 24
of the repository's README.md:73, as the unqualified `exit` of acknowledge_payload.cpp:48 names the member
function (`Refused`; `EndsForAReason` says which ways out there are).

Also in the models, without a line of the repository that says otherwise: two overlapping
deliveries may send a request twice, call its handler twice and use it after it was freed
(`RequestQueue`, the exceptions of `OnceUnlessShared` and `SafeUnlessShared`); a body that a timeout or
a broken connection cut off counts as a success once a status was parsed (`HttpsClient`); a failed
reconnection leaves a null pointer that the next one reads, and a delayed identify outlives its
object (`Shard.crashed`); `run_once` may let two ready handlers pass (`Lifecycle.ReadFlag`).

## 4. What is proved

All theorems hold for every value of the constants that the named assumptions allow:

| Assumption | What it says |
|---|---|
| `ConstantsAssumption` | finitely many rounds; any set of messages |
| `LifecycleAssumption` | finitely many shards, with ids of their own; the switches are Booleans; at least one acknowledgement under way is counted |
| `QueueAssumption` | each request has an endpoint; the event loop is no pool thread |
| `ClientAssumption` | any set of responses written in the tokens; any timeout |
| `ResponseAssumption` | the responses are `WellFormed`; only the theorems about the body use it |
| `ShardAssumption` | any number of shards, any periods; the bounds of what Discord does are numbers, the retry of connect() comes before its timeout, the wire holds at least one frame, and a shard that may have sessions may have events, since READY is one |
| `AppealAssumption` | no guild is the number that means none; the requests the panel is sent are requests |

Every safety property that a run checks and that holds is stated by one of these theorems.

`ProcessedMessagesProofs`: `TypeCorrect`, then `SafeInvariant`. `NothingForgotten` alone is not
inductive: the success callback erases ids, and one must know that the panel was told them
(`pc[r] = "accepted"` implies `report[r] \subseteq told`); `ReportedAfterSending` needs that a round
about to store has finished its message. With both added the invariant is preserved by each
action. `TriesAreAccounted` is an invariant of its own: `tries <= posted + |Ageing|`; the ageing
step adds one to both sides for every entry, the posting step moves the round out of `Ageing` and
adds one to `posted` (or `posted` is four already, more than any `tries`). `GivenUpOnlyAfterReports` follows from it at the step that gives up, as the
ageing rounds without the acting one are at most `|Rounds| - 1`. `PipelineImplementsReporting` maps
every action to an action of `ResultReporting` or to a stutter, from the same invariant.
`NothingSentTwice` (`SentAtMostOnce`) needs an invariant of runs without trouble, `Orderly`: one round
is under way at a time, what was sent is told, in the cache, or in the hands of the round that is about to store it, the
cache is empty when no round is past its acknowledgement, and a report carries all of it. So a
round that begins finds nothing that was sent and not told (`HandOut`), no entry ever expires
(`ClearGarbage`), and the answer of a report empties the cache (`FreshBatch`, `ReportsAll`).

`LifecycleProofs`: `TypeCorrect`; `OneLateTickAtMost` from `LateInv` (no acknowledge timer is noted
as stopped before the handler has done so, and a callback that is already decided on is the only
one that can be late); `EndsOnlyForAReason` from `EndInv`, which names for each state on a way out
what has led to it.

`RequestQueueProofs`: `TypesCorrect`, `StaysSorted`, `OwnedOnce`, `SentOncePerThread`,
`HandledOnceUnlessShared`, `NoFreedUnlessShared` and the refinement `KeepsPromise`, for any requests,
endpoints and threads (`QueueAssumption`). `OwnedOnce` compares the owners with the history `posted`,
so that a request that is dropped would be missing. What the insertion and the removal do to a sequence is
stated first, as lemmas; `StepKinds` then says of each step which requests and threads it moves, so
that the invariants are proved over nine kinds of steps. The invariant `Inv` has, besides types and
owners: what a thread goes through was posted, and what two go through at one time is in `shared`
(`ViewsOK`); a request a thread has run is gone from the queue or is the one the thread is about to
remove, and does not come up in its view again (`RunsOK`); a request that is not in `shared` is in no
view once it is gone, was run by one thread, and is at one place of its way from client to handler
(`AloneOK`); what is at work was begun, and what is freed was handled (`WorkOK`). The step that needs
them all is `Run`: by `RunsOK` and `AloneOK` nobody has run an unshared request before (`Unbegun`), so
by `WorkOK` nothing is at work for it. A misuse of freed memory then contradicts `AloneOK` unless
some request is shared.

`HttpsClientProofs`: `CompletedOnce`, `WrittenOnce`, `OverInTime`, for any responses and any timeout.
The properties alone are not inductive; `Inv` adds that who has been told is
told once, and then for good, as no socket is left on which anything could happen (`ToldOK`); that
nothing is written before the handshake is over (`WrittenOK`); and that the timeout is the one given
while the headers are read and ten seconds more after them (`TimeOK`). `CloseStep` says what
closing does from wherever it is called, `ParseStep` that a step of the parser closes or goes on,
and moves the timeout only when it leaves the headers; every action is then one of the two, or
leaves the control alone. `TypeCorrect` needs that the parser takes no more out of a chunk than it
lacks and no more out of the buffer than there is. `NothingButBody` (`BodyIsPrefix`) and
`SuccessIsWhole` (`WholeWhenParsed`) come from `TextOK`: there is a number `n` such that the parser has dealt with the
first `n` tokens of the response, the buffer holds the next ones (`Arrived`), the body has as many
parts as there are among the first `n` tokens, each in its place (`BodyIsPrefix`), and the state of the parser fits that
place (`PlaceOK`: behind a length with so much of the chunk missing, behind the last part of a
chunk, behind the "0"). `Advance` and `GoesOn` say once what moving on by `k` tokens does to all of this; each
state of the parser then has to show which tokens those are. The counts are cardinalities of sets
of positions (`PartsCount`), so no induction over the text is needed.

`ShardProofs`: `TypeCorrect`, `ClosedOnesWait` (`WaitsIffClosed`), and the action properties
`OnceAndInOrder` (`EventsInOrder`) and `SessionsKept` (`SessionKept`), for any number of shards. The
invariant is about each shard on its own (`LocalInv`): nothing is under way without a connection
(`LineOK`); Discord's question, the delayed identify, the shard's answer and the events of a session
exclude each other (`TurnOK`); the answer under way names the session and number the shard has
(`AnswerOK`); a session the shard knows is the last, and the events between what was heard of it and
`last_seq` were dropped unparsed (`SessionOK`); a shard with an object knows the session it was given
(`KnownOK`); the frames on the wire belong to the last session (`FramesOK`), the numbers of its
events go up from what was heard (`NumbersOK`), and every event in between is on the wire before what
comes after it, or was dropped (`EventsOK`), with a RESUMED behind what was replayed (`ResumedOK`).
`EventsInOrder` is then a fact about the first frame on the wire (`DispatchNext`); `SessionKept`
follows as only a shard that knows no session identifies. The steps of one shard leave the others
alone (`LocalKept`, `OthersKept`), and the monitor's list is a matter of `WaitsIffClosed` alone;
there a retry without a socket needs that the retry comes before the timeout (`ShardAssumption`), so
that no connection is closed and stranded in one second.

`AppealProofs`: `TypeCorrect`, `NobodyMisled` (`InvitedToTheRightGuild`), `SeenOnce` (`OneReplyShown`),
`EmbedsAreTrue` (`ShownMeansInvited`) and `EverybodyTold` (`ToldUnlessLost`), for any interactions and
guilds. Between its awaits a coroutine shares only the cache; so the invariant is about each interaction: how
many replies it has posted and which is on its way (`RepliesOK`), that nothing is shown while one is
(`ShownOK`), that its guild is the one that was meant from the first await on, whatever becomes of
the cache (`InvitedOK`, `GuildMeant`), and that who has returned has told (`ToldOK`). The cache is
finite, which counting the guilds of a user needs.

Only model-checked: the liveness properties (`CacheDrains`, `StopsAfterSignal`, `InvalidTokenStops`,
`QueueDrains`, `Completes`, `FirstReplaced`, `EveryAppealEnds`, and the fairness in
`ImplementsPromise`, whose safety part is `KeepsPromise`), which need reasoning about fairness and
ENABLED; and the properties of the findings, which do not hold.

## 5. Not modelled, and what is left

- The parsing of Discord's objects, the REST wrappers, voice, compression and encodings: data
  without control of their own. `translations` and `json_wrapper`: tables that do not change
  while the program runs; `merge` has no caller. Coroutine frames: a coroutine is where it is
  suspended.
- Data races on containers (the heap of timers, the buckets, the maps of shards at start-up and
  at shutdown): a race on a standard container may do anything, and a model that allowed that would
  show nothing. They are named under the hazards, at their lines.
- `current_application` and the payload: they change what an acknowledgement says, which no property
  tells apart. The environment checks of `main` before any thread starts.
- The composition of `Lifecycle` with `Shard` (shutdown deletes the shards on a pool thread): beyond
  what TLC explores at a size at which the race happens.

The share of the repository's lines that the map covers is small since nearly all of them are the
vendored library's: headers with JSON and emoji tables, bundled OpenSSL headers, REST wrappers. Of the bot's
own code the conversations it holds are modelled, and of the library the parts that decide in
which order they happen.
