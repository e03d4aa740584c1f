# A verification project for the AlertKick poller

The poller is a Go program that runs uptime checks at one location and sends
the results to the AlertKick API ("apapi").  Two or more pollers may run at a
location; a lease in apapi decides which one works.  The specifications here
model that program from its source: the election, the switch of roles inside
one process, the way of a check to a delivered result, the HTTP and Kafka
dispatchers, the heartbeat loop with its watchdog, the metrics, and most of the
checks.  TLC checks them on small instances, and TLAPS proves most of the
safety properties for every value of the constants.

Paths are relative to the repository; `leader.go` is `leader/leader.go` and
`main.go` is `cmd/main.go`.

## 1. Inventory

| component | state | operations | interacts with |
|---|---|---|---|
| Leader election (`leader.go`, lease calls of `client/client.go`) | role, term, state channel; the lease document in apapi | acquire, renew, release; step down; shut down | apapi by HTTP; the role switch by the state channel |
| Role switch and shutdown (`main.go` 123-240, 326-365) | the shared `work` variable, contexts, WaitGroups | startLeaderWork, stopLeaderWork, signal | the elector (channel), the goroutines of the leader work, `checkChan` |
| Worker pool and result delivery (`main.go` 84-121, 406-438) | `checkChan`, result buffer | take a check, append its result, flush, requeue, drop | dispatcher (channel), sink (calls) |
| HTTP dispatcher and scheduler (`dispatcher/http.go`, `scheduler/scheduler.go`) | monitors and their next check times, two tickers | fetch, due, send or drop | apapi, `checkChan` |
| Kafka dispatcher (`dispatcher/kafka.go`) | consumer-group reader: position, marks; the group's offset at the broker | read, decode, back off, blocking send, close | brokers, `checkChan` |
| Result sinks (`resultsink/*.go`) | Kafka writer | submit, flush, close | apapi or brokers |
| Heartbeat loop and watchdog (`main.go` 242-324, `health/health.go`) | last beat, two tickers | beat, heartbeat call, exit when stale, farewell | apapi, supervisor, `resultMu`, standard output |
| Metrics (`health/prometheus.go`) | counters, histograms | observe, scrape | workers, scraper |
| Health endpoints (`health/health.go`) | readiness flag | probes | probes of apapi and Kafka |
| Check dispatch (`checker/checker.go`) | none | choose a checker by type | workers |
| MCP check (`checker/mcp.go`, `mcpcheck.go`) | none between checks | list tools, diff, lint; OAuth discovery | MCP server, its authorization server |
| Mail posture check (`checker/mail.go`, `mailposture.go`) | none between checks | SPF, DMARC, blocklists, score | DNS |
| HTTP check (`checker/http.go`, `httptiming.go`) | phase timings of one request | request, redirects, timing callbacks | the monitored URL |
| Expiry checks (`checker/ssl.go`, `domain.go`) | none between checks | handshake; RDAP lookup | the host; the registry |
| DNS and TCP checks (`checker/dns.go`, `tcp.go`) | none | one lookup, one dial | the target |
| API client, other calls (`client/client.go`) | none | register, fetch monitors, heartbeat, submit | apapi |
| Configuration (`config/config.go`) | none after start | load, validate | environment |

What is hard to get right here, and hard to test:

* **Time and lost messages** in the election: a renewal may hang for the whole
  HTTP timeout, a request the client gave up on may be handled later, a lease
  expires while its holder still believes in it.
* **Interleaving** in the role switch: the elector, the transition consumer,
  main, and the goroutines of each generation of work share a variable, two
  channels and a WaitGroup; two of them may stop the same work.
* **Atomicity and partial failure** in the flush: the buffer is taken in one
  critical section and given back in another, with a network call between
  them that may have succeeded although it failed.
* **Bounded queues**: the state channel drops transitions when full, the check
  channel drops checks.
* **The schedule**: marks a monitor as checked before the check has found room
  in the channel, and is handed a new set of monitors while checks run.
* **Offsets**: the Kafka reader marks an assignment for commit before a worker
  has it, so a step-down, a crash and a rebalance each lose or repeat some.
* **A beacon against wedges** that must not fire when apapi is slow, but must
  when the loop blocks, on a wall clock that may be set.
* **Counters without locks**, read one after the other by a scrape.
* **Callbacks** of racing dials and of connections of an earlier redirect, which
  share one set of start times.
* **What the other side may say**: lists cut into pages, documents that decode in
  part, SPF records in circles, registries with several dates.

`PROJECT.json` lists these hazards at their lines, with the properties that
cover each.

## 2. Modules

| module | models | abstracts |
|---|---|---|
| `Election` | `Elector.Run` of every poller of a location, the lease calls, crashes, signals, restarts, and (as environment) apapi's lease endpoints | HTTP to three outcomes: ok, conflict, anything else; time to units |
| `ElectionFailover` | `Election` with a stopwatch beside it | |
| `RoleSwitch` | state channel, transition consumer, `startLeaderWork`, `stopLeaderWork`, the two goroutines of each generation, main's shutdown | what the goroutines fetch and submit |
| `ResultPipeline` | `checkChan`, the workers, the result buffer, `flushResults`, the step-down's final flush and drop, the drain at shutdown | a check to its number; the check itself to one long step |
| `ResultDelivery` | nothing of the code: what a result path promises | |
| `HTTPDispatch` | the dispatcher's loop with its two tickers, the scheduler, `checkChan` and the workers that empty it, in time | what a fetch returns to sets of monitors with intervals; a check to a worker being busy |
| `KafkaDispatch` | `KafkaDispatcher.Run`, the reader's marks and commits, the offset of the consumer group, step-down, crash, rebalance, and the workers of every poller | messages to their offsets; one partition |
| `LeaderTransport` | `buildTransport`: a leader uses `HTTPDispatch` or `KafkaDispatch` | |
| `Watchdog` | heartbeat loop, beacon, watchdog, main's shutdown with the farewell, and apapi's view of the poller, in time | the load that a heartbeat reports |
| `Metrics` | `Histogram.Observe` and the counters, step by step for every worker, and a scrape | the gauges and the two counters of the flush; the text format |
| `HealthServer` | both halves of the shared `health.Server` | |
| `MCPCheck` | the check of an MCP server: listing, fingerprints, lint, drift, verdict | hashes to what they are hashes of; texts to what the lint says of them |
| `AuthDiscovery` | the OAuth discovery chain of an MCP server | documents to the fields that are judged |
| `MailPosture` | the mail posture check: SPF, DMARC, blocklists, score and verdict | records to the terms that matter; MX, DKIM, MTA-STS and TLS-RPT, which only inform |
| `HTTPCheck` | the HTTP check: connections and their callbacks, redirects, timings, verdict | headers, credentials and bodies to the outcome of the comparison |
| `ExpiryCheck` | the certificate and the domain expiry check | dates to hours from now; an entity's card to a number |
| `EntityTree` | the entities of a registry's answer: a tree as a list in the order of the document | roles other than the registrar's are one |
| `CheckExecution` | `Execute`: the monitor's type chooses one of the five | DNS and TCP |
| `ElectionProofs`, `RoleSwitchProofs`, `PipelineProofs`, `DispatchProofs`, `KafkaProofs`, `HealthProofs`, `CheckProofs` | the proofs | |
| `SPFCountProofs` | the lemmas of `CheckProofs` about the count of SPF lookups | |
| `MC*` | instances for TLC | |

### Election

Each poller's `pc` says where `Elector.Run` is: at the `top` of the loop, in a
sleep, in one of the three calls, `stopped` after `shutdown()`, or `down`
because its process is.  A sleep or a call carries its remaining time in
`timer`; a call has `Timeout`.  A call is `sent`, handled by apapi at some
moment (`Handle`), and returns at a later one (`AcquireReturns`,
`RenewReturns`, `ReleaseReturns`), or it fails (`CallFails`) and leaves the
request behind: `late` counts the requests apapi may still handle
(`HandleLate`).  The lease document is `holder`, `left` and `term`.

`doLease` maps 409 to `ErrLeaseConflict` and every other status but 200 to a
plain error; `Run` treats both alike when it renews, so `RenewReturns` and
`CallFails` make it a follower, and only `CallFails` may leave a late request.
On the renewal path the loop does not sleep before it acquires again; on the
acquire path it does.

apapi is not in the repository.  Its actions say only what `leader.go` and
`client.go` say of it: a lease with a TTL, a term that grows on acquire, 409
when somebody else holds it, release by poller.

`Tick` lets a unit of time pass when no poller is between two blocking
statements and no sleep or call is at its end: the code between blocking
statements takes no time.  Followers and leaders need not be in step.

main does not wait for the elector, so a process may end, and be restarted,
with its release still under way.  The release names only the poller: handled
after the poller acquired again, it takes the new grant away.  `released` is
history and says that this happened to a poller's last grant, `age` how old
that grant is.  With them two sentences of the sources are restated as what the
code does keep: `OverlapIsBounded`, where `leader.go` promises one leader at any
moment (`AtMostOneLeader`), and `ConflictIsExplained`, where `client.go` says that
a conflict means a missed TTL.  (The release of an orderly
shutdown, too, can be handled while its poller still waits for the answer; it
no longer counts as `Leading` then.)

`FencingTerms` says that terms could tell two leaders apart.  Nothing in this
repository uses them so: `Term()` has no caller, and results carry no term.

### RoleSwitch

The elector is reduced to what the rest of the process sees of it: its calls
end either way, `SetState` swaps the role and tries to push it.  The consumer
pops one role at a time and runs `startLeaderWork` or `stopLeaderWork` to its
end; main runs `stopLeaderWork` too.  A generation of work has a context
(`ctx`), a WaitGroup (`wg`), a transport (`closed` when it is) and two
goroutines.  New goroutines first run at some later moment (`Begin`) and only
then evaluate `work.wg`, on the variable the consumer and main share: `group`
records which WaitGroup that was.  A nil `work`, a negative WaitGroup and a
send on a closed channel end the process (`panic`).

`buildTransport` fails only for a mode `config.Load` has refused, so
`StartWork` has no failing branch.  In Kafka mode the dispatcher blocks in its
send instead of dropping; `SendDue` is the HTTP dispatcher's.

### ResultPipeline and ResultDelivery

One poller process that becomes leader and steps down several times.  Checks
are numbered when dispatched, `sentIn` records in which term.  `batch` holds
what a flush took: the ticker's (`"flusher"`) or the final flush of
`stopLeaderWork` (`"stopper"`).  A submission succeeds or fails.  One that failed
leaves any part of its batch on its way (`late`): nothing, when it was refused;
all of it, when the answer was lost; some of it, when the Kafka writer got a
part of the messages out.  `ArriveLate` is the sink receiving such a result, at once,
or after the retry, the step-down or the exit; it may never happen.  `lost` collects what the code
drops on purpose or by exiting: a check without room in the channel, the rest
of a step-down, everything in memory at exit.

The abstract `ResultDelivery` has a queue of finished results and promises
that the sink acknowledges them in order, each once, that none is given
up while the poller serves, and that only failed submissions leave copies
(`straying`).  The refinement maps `pending` to the batches in
flight followed by the buffer, and `straying` to what is late: a failed batch
goes back in front of the results that finished meanwhile, which is why order
survives.

### HTTPDispatch

One goroutine in a `select` over two tickers and `ctx.Done()`: `pc` says
whether it waits there, is in a call to apapi (`first`, `fetch`), or is
offering a batch of due monitors to `checkChan` (`send`).  The unit of time is
the period of the due ticker.  A ticker's channel holds one tick, so `dueTick`
and `fetchTick` are Booleans: ticks that find one waiting are lost, as in Go.
`next` is the time left until `NextCheckAt`; its domain is the scheduler's map.

A fetch returns any set of monitors with any intervals (`UpdateMonitors`), or
an error, which leaves the schedule.  `GetDueChecks` walks a Go map, so
`TakeDue` takes any subset of the due monitors of the size the batch allows.
It marks them as scheduled before `Run` offers them; a check that finds the
channel full is dropped and its monitor waits for the next interval.

The scheduler, the channel and the workers share each `MonitorAssignment` by
pointer.  An entry of `checkChan` is `shared` while the scheduler still points
to the same assignment (a refresh makes new ones), and `own` while its
`ReceivedAt` is the one it was sent with.

`since` and `promised` are history: the time since a monitor was last handed
out, and the interval that was in force then.  Code between blocking
statements takes no time: `Tick` waits until `Run` is blocked and no worker
is idle while a check waits.

### KafkaDispatch and LeaderTransport

The pollers of a location share a consumer group on a topic with one partition.
Nothing makes a new leader wait until the old one has closed its reader, so
several may be open (`Lead`); the partition has one `owner`.  `Read` is
`ReadMessage`, which marks a message before it returns it; `Commit` is the
reader's interval commit and `Close` the one at the end.  `Send` blocks while
the poller's `checkChan` is full; only `ctx.Done()` (`Quit`) takes `Run` out of
it, with the message it `held`.  A read error is backed off from, unless it is a
deadline: then `Run` returns, whatever its own context says (`GiveUp`), and the
poller leads on without reading.  The workers and the channel outlive the term.

kafka-go and the broker are external: of them the model says what the
dispatcher's configuration asks for (a group, a commit interval, close at the
end).  When the group gives the partition to another reader, the old owner
commits its marks first (`Assign`); when that commit fails, reading starts over
behind the committed offset (`Rebalance`); a dead poller's marks are gone.

`LeaderTransport` is `buildTransport`: `mode` is chosen once, and the transport
that was not built rests.  A `Next` of either is a step of the whole.

### Watchdog

The heartbeat loop is at its `select`, waits for `resultMu` (`lock`), is in its
call, or logs a failed one.  It beats when its ticker ticks (`Begin`), before
anything that can block.  `age` is what `LastBeatAge` computes: a difference of
wall-clock times, because a beat is stored as a Unix time; `Jump` sets the
clock.  `quiet`, `stuck`, `ahead` and `back` are history: the time since the
beat, how much of it the loop was blocked, and by how much the clock was set.

Standard output may stall for good.  Whoever logs then blocks, and so does
whoever waits for a mutex that is held across a log call: `DropResults` is the
one in `stopLeaderWork`.  `Restart` needs no log: the watchdog logs in a
goroutine of its own, sleeps for two seconds (`nap`, of `ExitDelay`) while the
rest of the process goes on, and exits even if the loop has come back meanwhile.

main goes from the signal over the drain to `cancel`, sends the farewell, waits
for the loop and returns.  apapi handles a heartbeat while its client waits
or after the client gave up (`stale`); `shown` is the status it shows.

Something the model makes plain and no property forbids: a loop that never has
to log, because all its calls succeed, keeps beating while workers, flusher and
dispatcher are stuck in `log.Printf`.  The comment on the watchdog promises a
restart when every goroutine is blocked; this one is not, until a call fails or
it waits for `resultMu`.

### Metrics and HealthServer

A worker's `Observe` is four steps: the bucket, the count, the load of the sum
and the compare-and-swap, which goes back to the load if the sum has changed.
Lag is observed before the check, duration after it, then come
`ChecksExecuted` and `Errors`.  The scrape reads them in `writePrometheus`'s
order, a bucket at a time.

`HealthServer` joins `Metrics` and `Watchdog`.  They share no field of the
server, so a behaviour is one of either (`half`).

### The checks

A check is a sequence of calls and then one judgement; what makes it hard is
mostly the variety of what the other side may say.  The modules choose that
freely and compare the verdict with a reference that does not look at the
report.

`MCPCheck`: `server` is what the server really has, `listed` what its pages
brought until the list ended or a limit was reached.  `Evaluate` is the rest of
`CheckMCP`.  A tool's definition has a text, a schema and annotations; the
code's hashes tell the same apart.  Tool names are distinct and the server does
not change during a check.

`AuthDiscovery` is the `oauth` monitor's chain, an execution of its own because
it lists no tools.  All candidates for a document are decoded into one Go
variable: `Decode` keeps what an earlier, refused one left and the next lacks,
field by field, so that what is judged may be a mix of the two.
`served` is history: what the accepted documents said.

`MailPosture`: a zone gives each name its SPF record, and any names may publish
`several`.  `LookupSPF` chooses the zone and which lookups fail (any set of
names, and the second lookup of a redirect on its own), and computes both what
the code finds out (`spf`) and what a receiver makes of it (`truth`, by RFC 7208).
The two read a record differently.  The code counts every term of it and, of
several records at an include, takes the first (`Found`, `Count`); a receiver
evaluates nothing behind an "all" and no redirect beside one (`Evaluated`,
`Heard`), follows an include as often as it is reached (`Total`), and gives up on
one with several records (`ambiguous`).  The lookups
run as goroutines, each of which fills a field of its own before `wg.Wait`, so
one order stands for all.

`HTTPCheck` is concurrent: each connection looks up, dials, with several dials
racing, and shakes hands on its own, and goes on when the hop that asked for it
has found another.  The `httptrace` callbacks are the actions; the mutex in
`httpTimings` makes each of them one step.  The transport of `net/http` is
external; the model says of it in which order the callbacks of one connection
come, and that racing dials may begin and end at any time.

`ExpiryCheck`: `Handshake` or the registry's answer gives a date, in hours from
now.  `ReadEvent` takes the events of the RDAP answer one by one;
`FindRegistrar` walks its entities, a tree that is given as a table of nodes.

`CheckExecution` uses all five as instances that share `pc` and `fails`; the
properties are theirs, for the executions in which they ran.

`HTTPCheck` counts from two starts: the trace has its own, which is taken a little
earlier than the total's (`lag`), and the first byte counts from that one.

The models show where the count of `mailCheckSPF` is not a receiver's.  It is too
low where an include is reached twice, because its lookups are counted once, or
where nesting goes beyond six; it is too high where a record has mechanisms
behind its "all", or a redirect beside it.  `CountIsExact` says that nothing else
makes a difference below the limit, and that the count never exceeds what the
records cost as they are written.  `VerdictIsDeserved` says the same of verdicts, and
names its two exceptions, terms that receivers ignore and includes with
several records; without either of them TLC finds a violation.  Three more
things a reader of the reports should know: "all" is read through one redirect only, an unanswered TXT lookup reads like a
missing record, and a DMARC policy the code does not know costs nothing.

## 3. Runs

| run | question | result |
|---|---|---|
| `election_timed` | With a call timeout such that `2 * Timeout + RenewInterval < LeaseTTL`: how soon is a lost leader replaced? | within a bound (`FailoverInTime`), and always again (`SomeoneLeads`) |
| `election_code` | With the code's own proportions (30 s timeout, 30 s lease, 10 s and 5 s intervals; a unit is 5 s): what may be relied on? | a leader's grant is at most 70 s old (`StaleLeaderBound`), two leaders that no release made overlap for at most 40 s (`OverlapIsBounded`) and know different terms (`FencingTerms`), and a refused renewal means an expired lease or a late release of the poller's own (`ConflictIsExplained`) |
| `election_two_leaders` | ... and what not: is there one leader at any moment? | no: an acquire that is granted at once and answered after the TTL makes its poller leader of an expired lease, which another one acquires |
| `role` | Does work follow the role, cleanly, whatever the interleaving? | holds, except as the next two runs show |
| `role_dropped` | Does a leader whose transition was dropped get to work? | no: nothing polls `IsLeader` |
| `role_close` | Is the dispatcher stopped when main closes `checkChan`? | not always: in TLC's trace main finds no work to stop, and the consumer starts new work, from a leader transition still in the channel, before main closes `checkChan`; `CloseIsRaced` (run `role`) names the one other way, a stop that the consumer began first |
| `pipeline` | Is a result ever lost, copied or reordered, whatever a failed submission leaves on its way; do results get out; does a signal end the process? | lost only as the code intends (`Conservation`), copied only after a failure that left something (`DuplicatesAreAmbiguous`), acknowledged in order (`ImplementsDelivery`); `ResultsGetOut` and `SignalEnds` hold |
| `pipeline_drain` | Does the shutdown submit what the workers finish while they drain? | no: the last flush came before |
| `dispatch` | When is a monitor handed out in HTTP mode, and what is lost or repeated in Kafka mode? | never before its interval is over (`NeverTooOften`), and late by at most a fetch and two rounds of full batches (`Punctual`); a step-down loses one assignment at most, a crash that one and what the poller held (`LossIsBounded`); each is repeated at most once per crash or rebalance (`DuplicatesAreBounded`) |
| `dispatch_lag` | Does a waiting check keep the time at which it was produced? | no: the monitor's next dispatch overwrites it |
| `checks` | What is a success of each checker worth? | an MCP server that passes is the approved one and no riskier, an unchanged one raises no alarm; an OAuth chain is judged by what was accepted; SPF lookups are counted in full, and as receivers do where they evaluate all that is written, and the mail verdict is right but for terms that receivers ignore and includes with several records; no phase of an HTTP check exceeds the total; what passes an expiry check has a day more than the threshold left; the first registrar is reported |
| `health` | When does the watchdog restart the poller, who has the last word at apapi, and what may be relied on in a scrape? | only for a blocked loop or a clock set ahead (`QuietIsWedged`), and then in time (`WedgeEndsProcess`); the farewell, unless a heartbeat overlapped it (`FarewellIsLast`); counters are read in an order in which none is ahead of what it counts (`ScrapeInOrder`), and no observation is lost (`NothingIsLost`) |

Disagreements between the documentation and the code that the models make
visible and that have no run of their own:

* `flushResults` submits the whole buffer; `AP_BATCH_SIZE` ("max results per
  batch submission", `README.md` 120) only sizes the first allocation and the
  heartbeat's "busy".
* "Any results that couldn't flush are dropped" at a step-down (`main.go` 211):
  a result that finishes later stays in the buffer and is submitted when this
  poller leads again.
* "Followers ... don't do real check work" (`leader.go` 6): the workers of a
  poller that stepped down finish what is left in `checkChan`.
* The queue depth metric is "Unsubmitted check results buffered in memory"
  (`health/prometheus.go` 91), but `main.go` 384 stores the number of checks
  that were due.
* "The new leader will re-run any pending checks" (`main.go` 212): in Kafka mode
  not those the reader has marked; `LossIsBounded` says how many that can be.
* A nil `work` ends the process (`panic` in `RoleSwitch`) when a goroutine of a
  generation starts only after the consumer or main has stopped that work.
* A renewal is refused only if the poller "failed to renew within the TTL
  window" (`client.go` 216): not if a release of its own arrives late, the
  second explanation in `ConflictIsExplained`.  A poller is shut down as it
  wins the lease, sends the release and exits without waiting for it, is
  restarted and acquires again; the release is handled, and the first renewal,
  10 s after the grant, is refused.  `leader.go` 118 then logs "lost lease (taken
  over by ...)" though nobody took over.
* "Transient read errors: log and back off briefly" (`dispatcher/kafka.go` 46),
  and "Implementations block in Run until ctx is canceled" (`dispatcher.go` 12):
  `Run` returns on a read error that is a deadline (`GiveUp`).  The poller then
  leads on, its reader stays open and may be given the partition, and nobody
  reads it until the poller steps down.
* "Receivers return PermError and ignore the record" (`checker/mailposture.go`
  470): a record that is within the limit up to its "all", and over it with what
  stands behind, or with a redirect beside it, is reported over the limit, and
  fails; receivers look up only what is before the "all".
* "SPF, DMARC and blocklists all look good" (`checker/mailposture.go` 318), also
  where an included name publishes several SPF records, for which receivers
  give up as they do for the domain's own (434).

### Bounds, and why they are enough

* Two pollers: the lease is the only thing they share, and it tells only its
  holder from all others.  The proofs are for any number.
* `MaxDisruptions` bounds failed calls, crashes and signals together.  One is
  enough for two leaders with the code's timeout; two let a failure meet the
  recovery from another.  `MaxTerm = 9` is never reached with two disruptions
  before the run has shown everything; in `election_code`, where calls may
  take longer than the lease, `MaxTerm = 3` cuts the behaviours after the third
  grant: apapi then refuses, which is a legal behaviour.  One disruption is
  enough for a late release: after a shutdown, the exit and the restart cost none.
* `Capacity = 2` in `role`: the code's channel holds four; a smaller one is full
  sooner, with the same cases.  `role_dropped` and `role_close` use four.  `MaxFlaps` bounds role transitions; four give two generations and a
  dropped transition.
* `MaxChecks = 3` with one worker (channel of two) makes the channel overflow;
  two terms make a result outlive its term; a failure requeues a batch of up to
  three, any part of which may arrive after the retry, the step-down or the exit.
  More failures, and more terms, are left to the proofs: the states multiply with
  what may still be on its way.

* `dispatch`: three monitors for one worker, so that two are passed over by a
  full batch and the channel of two fills; intervals of 4 and, for zero, 3,
  so that a refresh can change them; a fetch every 8 ticks that takes up to
  one.  `Punctual` needs intervals of at least a round, and a fetch that is over a
  round before the next begins: with more work than workers, no schedule can be
  kept.  The bound is tight: with one
  tick less TLC finds a violation.  `MaxAge = 12` is beyond every time
  `Punctual` speaks of.
  "Handed out" includes a check that was dropped from a full channel.
  In Kafka mode two pollers whose readers may overlap, four messages of which
  one is malformed, one worker with a channel of two, one step-down and one
  fault: enough to fill the channel, to block in the send, and to repeat a
  message after a change of owner.
* `checks`: three tools, one of which takes every text, schema and annotation,
  listed in at most two pages with room for two tools, so that every limit
  is met and missed.  Three names and eleven SPF records give trees that are
  nested, circular, repeated and dangling, with terms behind an "all" and a redirect
  beside it; the limits of 10 lookups, 30 and six levels become 2, 3 and 2.  `+all`
  with several records, too many lookups and a listing brings the score below zero
  with one blocklist query; the cap of 40 points for listings takes three and is
  not reached.  `MaxLag` of one puts the trace's start before the total's.  Two connections of two
  racing dials, two hops and a time-out of two units let a dial of the first hop
  begin after another has won and end during the second.  Dates on both sides
  of every threshold, of zero and of a whole day; up to two events; trees of up
  to three entities, in all their shapes, numbered in the order of the document
  (`IsDocument`, which the proofs assume of `Responses`).  The OAuth metadata documents
  (`Documents`) are those that say nothing, or all that is asked for, but for two
  fields, so that a refused and an accepted one may each supply some of what is
  judged; the proofs allow any combination of fields.
* `health`: the periods of the code (a beat every 30 s, a call of up to 30 s,
  a look every 15 s, a TTL of 120 s) are 2, 2, 1 and 8 units, and the two seconds
  before the exit, rounded up, one.  One jump of the
  clock: ahead by so much that the watchdog restarts a poller in order, ahead by less,
  or back; one heartbeat that outlives its call.  `Horizon` is past the time by which the
  watchdog must have exited.  Two workers, three checks, two values in two
  buckets make the compare-and-swap fail.

### Fairness, and why the code justifies it

* `Election`: `Run` and apapi go on and time passes.  No fairness for failures,
  crashes, restarts or late requests.  Failures are bounded by
  `MaxDisruptions`: nobody can be elected while apapi cannot be reached.
* `RoleSwitch`: the Go scheduler runs every goroutine that can run (weak
  fairness), and a `select` that finds `ctx.Done()` ready each time it looks
  takes it in the end (strong fairness of `Quit`; Go chooses among ready cases
  at random).  Calls end because the HTTP client has a timeout.
* `HTTPDispatch`, `KafkaDispatch`, `Watchdog` and the checks need none: their
  properties are about safety, and about time where the model counts it.
* `ResultPipeline`: the same, and a submission that begins ends.
  `ResultsGetOut` needs submissions to succeed again at some time, which
  `MaxFailures` says.

## 4. Proofs

All of them hold for every value of the constants that satisfies the named
assumption of the module.

| theorem | states | argument |
|---|---|---|
| `ElectionProofs!TypeCorrect` | `Spec => []TypeOK` | inductive with `ControlInv` and `AgeInv` (`TimingInv`): the age of a grant plus the time left of the current sleep or call is bounded at each place of the renewal cycle |
| `ElectionProofs!StaleLeader` | `Spec => []StaleLeaderBound` | from `TimingInv` |
| `ElectionProofs!BoundedOverlap` | `Spec => []OverlapIsBounded`, with no condition | `LeaseInv`: a grant younger than the TTL that no release took is still the lease document; hence of two such grants that pollers rely on, one is a TTL older (`ApartInv`), and `StaleLeaderBound` bounds the older one |
| `ElectionProofs!ConflictsExplained` | `Spec => ConflictIsExplained`, with no condition | from `LeaseInv`, on the step that answers |
| `ElectionProofs!TermsFence` | `Spec => []FencingTerms`, with no condition | `TermInv`: whoever knows a term (as leader, or in an answer on its way) was granted it, and each grant has a new one |
| `ElectionProofs!FailoverBounded` | `FSpec => [](term < MaxTerm => FailoverInTime)`; `MaxTerm` is the model's bound on grants, not the code's | `GapInv` (in `ElectionFailover`): a poller has won the lease and hears of it in time, or the old lease still runs, or it is over and the next answer of each poller that seeks it comes in time (`Owed`) |
| `RoleSwitchProofs!WorkFollows` | `Spec => []WorkFollowsRole` | `Inv`: the end of the channel, or the role taken from it last, is the elector's role; what the consumer does for it decides whether there is work |
| `RoleSwitchProofs!AtMostOneGeneration`, `ClosedIsUnused`, `CloseRacesConsumer` | `Spec => []OneGeneration`, `[]OpenWhileUsed`, `[]CloseIsRaced` | `GenInv`: while no goroutine joined a WaitGroup that is not its own (`~Crossed`), each WaitGroup counts exactly its generation's goroutines (`Counted`), so a stopper that has waited leaves none; and while main serves, none is crossed, because a new generation starts only after the wait for the last |
| `RoleSwitchProofs!TypeCorrect` | `Spec => []TypeOK` | `TypeInv`; that a generation is never more than the roles published needs `Answered`: every leader taken from the channel, or still in it, was published |
| `PipelineProofs!PipelineDelivers` | `Spec => ImplementsDelivery` | at most one flush is under way, so the two batches and the buffer are one queue; each action is a step of it or none |
| `PipelineProofs!EveryCheckIsSomewhere`, `NoSilentDuplicate` | `Spec => []Conservation`, `[]DuplicatesAreAmbiguous` | `Places`: no place holds a check twice (`Single`), no two places hold the same (`Apart`), the places, `lost` and `received` are together what was dispatched (`Accounted`), and until an unknown outcome nothing that the sink has is still in a place (`Unknown`) |
| `PipelineProofs!TypeCorrect` | `Spec => []TypeOK` | with `Sizes`: the channel within its capacity, failures and terms within their bounds |
| `DispatchProofs!TypeCorrect` | `Spec => []TypeOK` | inductive as it stands; `checkChan` is never longer than its capacity |
| `DispatchProofs!NeverTooSoon` | `Spec => NeverTooOften` | `NotBefore`: what is left of a monitor's wait covers what is left of its interval; a refresh keeps it, only `TakeDue` hands out, and only monitors whose wait is over |
| `DispatchProofs!HandedOutInTime` | `Spec => []Punctual`, if `KeepsUp`: intervals of at least a `Round`, and a fetch that is over a `Round` before the next begins | `Pace`: of the monitors that were preferred to an overdue one, none is due again before its turn, so that with every batch fewer compete with it, in whatever order they are picked; `NotAfter`: wait and interval account for the time since the last hand-out |
| `KafkaProofs!HandedOnce` | `Spec => []DuplicatesAreBounded` | what lies beyond the reader's position was handed out at most as often as crashes and rebalances took the position back |
| `KafkaProofs!LossBounded` | `TransportSpec => []LossIsBounded` | `LossInv`: the marked messages that nobody holds, queues or has run, and the one a step-down may still drop (`Pending`), are no more than the step-downs and what the crashes cost; with `Room`, the capacity of channel and workers |
| `HealthProofs!NoNeedlessRestart`, `WedgeIsEnded`, `FarewellStands` | `Spec => []QuietIsWedged`, `[]WedgeEndsProcess`, `[]FarewellIsLast` | `Beacon`: an unblocked loop is at most a call past its tick (`Paced`), the watchdog's next look comes before its deadline (`Watched`), and past an undisturbed farewell nothing is under way (`LastWord`) |
| `HealthProofs!ScrapeIsOrdered` | `Spec => []ScrapeInOrder` | `Ahead`: a counter written first is ahead of the later one by the workers between the two; `Scraped`: what was read is behind what is read next |
| `HealthProofs!NothingLost` | `Spec => []NothingIsLost` | `Agreed`: every bucket, count and sum, with what the workers under way still have to add, is that of all observations; `AddedUp`: what a scrape has added up so far against what the buckets behind it hold. The lemmas on sums take a fold apart, whatever order it chooses |
| `HealthProofs!TypeCorrect` | `Spec => []TypeOK` | with `Beacon` and `Ahead` |
| `CheckProofs!NoPhaseExceedsTotal` | `Spec => []TimingsFit` | `Timing`: a phase that is under way began no earlier than all that is added up for it, so it can be added without passing the clock; the first byte alone may be later by the time between the two starts (`lag`) |
| `CheckProofs!ApprovedIfPassed`, `UnchangedPasses` | `Spec => []PassMeansApproved`, `[]NoFalseAlarm` | `Listing`: a list that is not said to be truncated is the server's; then, tool by tool, no failing drift means as safe as approved |
| `CheckProofs!JudgedByAccepted` | `Spec => []PassMeansSound` | `Chain`: a field that the accepted document has is the one that is judged, and one it lacks is there only if a document was refused |
| `CheckProofs!ExpiresLater`, `FirstRegistrar` | `Spec => []ExpiryIsAhead`, `[]RegistrarIsFirst` | `Dated`: the expiry is the one of the last event read so far that has a date, and a verdict is by whole days of it; `FindRegistrarFinds`: the recursive search returns the first registrar in the order of the document |
| `CheckProofs!CountedFully` | `Spec => []CountIsExact` | `Posture` says where the counted lookups came from. `BoundedByTruth`, by the levels of the count: it follows no more than is written. `CountExact`, from the deepest names of the tree up: what is `Below` two different includes has no name in common, so that none was seen before (below). What receivers leave out of a record only makes their sum smaller |
| `CheckProofs!DeservedVerdicts` | `Spec => []VerdictIsDeserved` | from `CountedFully`'s lemmas and `Posture`: the score is lost only to what is reported, each thing reported is one that `Protected` excludes, and `Protected` excludes nothing else but an include with several records |
| `CheckProofs!TypesKept` | `Spec => []TypeOK` | for each check its own part (`MCPTyped`, `OAuthTyped`, `HTTPTyped`), with `Listing`, `Timing` and `Posture`: a page is asked for only below the limit, a place to look is left while one is looked at, no connection has more dials under way than begun |

`BoundedOverlap` holds for the code's own numbers: 2 * 30 s + 10 s - 30 s is
40 s of two leaders at most, where no release took a grant away.  Where
`2 * Timeout + RenewInterval < LeaseTTL` the bound is negative, and there are never
two: a client timeout below 10 s for lease calls would do.

The invariants `StaleLeaderBound` and `FencingTerms` are not inductive:
whether a leader's grant is fresh depends on how long it has already slept or
waited, and whether two leaders' terms differ depends on answers still on
their way.  `TimingInv` and `TermInv` say those.

The recursive functions and folds of `Metrics`, `ExpiryCheck` and `MailPosture`
are taken apart without an induction theorem, which the provers cannot apply:
if a recursive definition had no solution, or two, there would be a smallest
argument (or a last entity, a deepest level) at which it goes wrong, and its
own equation excludes that one.

The count of SPF lookups carries the names it has seen through the record; what
receivers look up is a sum over the tree, in which a name counts as often as it
is reached.  `SPFCountProofs` relates them.  `WithinReach` says that the names
reached are one more than the includes between them, and from that alone it
follows that each name but the first is included once, by one name
(`TreeIs`, `OneParent`).  Hence a name is reached at one depth only, the names
below two includes are disjoint (`Disjoint`), and a name is never below itself.
So whatever was counted before an include has no name of its subtree among those seen, and
counting it adds exactly the subtree's names to them and its lookups to the
count (`WalkExact`): for the deepest names first, then for those one level up,
until the domain (`CountExact`).  A count that ran over `MaxBranch` is the
exception, and stays over it.  The sum over the tree, finally, has settled at
the depth at which it is taken: there is no path as long as the names are many
(`TotalsStay`).

Only model-checked: all liveness (`SomeoneLeads`, `StepDownStops`,
`SignalEnds`, `ResultsGetOut`; the prover does not do fairness), and of course the
violations.  Every
invariant, action property and refinement of the passing runs is stated by a
theorem.

## 5. Not modelled

* Sequential code without state between calls, to which a state machine adds
  nothing: loading the configuration, the registration at start, the
  stateless health endpoints, the DNS and TCP checks (one lookup or one dial
  each), the conversion of results to requests, logging and metrics text.
* Details that change no verdict: the DNS profile of a domain, MX, DKIM,
  MTA-STS and TLS-RPT of the mail posture, the grade, the certificate's fields.
* Protocols of libraries: the MCP SDK's session, TLS, HTTP/2, the consumer group
  of kafka-go beyond what `KafkaDispatch` says of it.
* Several partitions of the assignments topic: the pollers would read them
  independently, each as one is read here.
* The composition of the dispatchers, the role switch and the result path in
  one state space.  Each has the others' effects in its actions: `RoleSwitch`
  has a dispatcher that sends, `ResultPipeline` one that fills the channel,
  and both dispatchers have workers.

What would come next: pollers whose clocks run at different speeds, and several
partitions of the assignments topic.
