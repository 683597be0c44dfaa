# OpenProxy in TLA+

OpenProxy (`src/`, Rust) is one process that fronts NVIDIA-style model APIs: it
accepts OpenAI-compatible requests, spends a pool of API keys on them within
each key's requests per minute, holds requests back in a queue when every key
is busy, slows a model down when the upstream has run out of workers, and keeps
a dashboard with settings, users and a metrics history on disk.

This directory holds TLA+ specifications of it, written from the source; TLC
configurations that check them on small instances; and proofs that TLAPS checks
for every value of the constants. `PROJECT.json` is the machine-readable index:
which run checks what, which lines each definition models, the hazards, the
disagreements with the documentation, and the theorems.

- [The system](#the-system)
- [The modules](#the-modules)
- [The runs](#the-runs)
- [Fairness](#fairness)
- [The proofs](#the-proofs)
- [What disagrees with the documentation](#what-disagrees-with-the-documentation)
- [What is not modelled](#what-is-not-modelled)
- [What is left](#what-is-left)

To repeat the checks: `tlc -config Dispatcher.cfg MCDispatcher` (each run's
module and cfg are in `PROJECT.json`), `tlapm DispatcherProofs.tla`.

## The system

The parts, the state each keeps, its operations, what is hard about it, and what
makes it correct. Paths are below `src/src/`.

**Key pool** (`pool.rs`). One lane per stored key: a queue of the instants of
its reservations in the last 60 s, a cooldown, its rpm, its endpoint group. The
enabled lanes come first; disabled keys stay behind them as *carriers*, so that
a key switched off and on again is still warm. `reserve_filtered` takes the
preferred lane if it may, else the least loaded one, else says how long to wait;
`release` returns an unused slot; `penalize` sets a cooldown; `rebuild` makes a
new pool and carries the rate state over. Each lane has a mutex of its own, the
whole pool is behind a read-write lock. *Hard*: rebuilds between a reservation
and its release or cooldown; a lowered rpm with more stamps than budget; several
groups in one pool. *Correct*: no key above its budget in any window, whatever
the history of saves; the wait is exact; only allowed groups are used.

**FIFO dispatcher** (`dispatch.rs`). An unbounded channel of waiters and one
task. For the head waiter it reserves; if nothing is free it refuses (the wait
passes the deadline) or sleeps at most 500 ms and looks again; a reservation
goes into the waiter's oneshot channel, followed by a short gap. *Hard*: a
client that leaves before the reservation, between it and the send, and between
the send and its own wake-up; a head that blocks the line; pools swapped at each
of these points. *Correct*: arrival order; no slot for a closed waiter; nobody
waits for ever; refusals only when hopeless; nothing granted too late.

**Model-pressure governor** (`governor.rs`, with `proxy.rs:201-237`). Per model a
cap, a count of permits, three instants. `admit` lifts or raises the cap lazily
and lets in below it; `note_exhausted` halves; a permit releases as it is
dropped. *Hard*: pinned and unpinned requests share one counter; requests carry
the settings of their arrival; the failing request retries at once. *Correct*:
the count is the number of holders; caps hold; the drain gap holds; the cap is
lifted in the end.

**Proxy request path** (`proxy.rs`). Per request: client key, load shedding by
the in-flight counter, routing, affinity, then a loop of permit, slot, exchange,
with retries on connection errors and on 429 and 5xx, and an absolute deadline;
streams are relayed by a task of their own that observes usage. *Hard*: every
exit returns what it holds; a deadline racing the end of a stream. *Correct*:
load is shed in time and counters come back to zero; a request goes only where its
snapshot allows; one owner accounts for a stream; the caller's deadline ends it.

**Settings commit and configuration store** (`settings.rs`, `config.rs`). A
versioned JSON store, changed under one lock: validate, save (temporary file,
rename, directory sync), publish the runtime configuration, swap the pool,
reconfigure the retention, replace the guard, count the revision; some handlers
then flush the catalog cache. *Hard*: failure half way; readers between the
publications; indexes of groups that shift as a group is removed. *Correct*:
what is published is valid and on disk; no request is served on a mixture.

**Model routing and catalog** (`lib.rs:102-129`, `proxy.rs:1167-1277`). A model
label decides which groups may serve a request; the catalog fans out to all
groups and is cached. *Hard*: a fan-out that started before a save finishes
after its flush. *Correct*: a disabled model disappears; a
save does not hang on the cache's lock; no request waits for a group that has no key.

**Operator authentication** (`auth.rs`) **and setup, users**
(`settings.rs:184-345, 1424-1545`). Sessions checked against the live store,
header credentials with a memo of the last verified one, a limiter of failed
attempts; first-time claim; user changes. Password hashes are computed off the
lock. *Hard*: everything that changes while a hash is computed. *Correct*: one
claim wins; a session is proven; a removed user or an old password is refused from
then on; attempts are bounded; roles hold when the change is applied.

**Metrics history** (`history.rs`, `history/store.rs`, `history/codec.rs`). A
log of JSON lines with a boot and epoch scheme, an in-memory index, a background
compaction by rename, a retention that settings may change. *Hard*: crashes
between append, compaction, rename and sync; torn tails; compaction racing
appends and retention changes, its request flag checked and cleared in separate
steps. *Correct*: what was acknowledged survives or is reported missing; what is
torn is never read; a compaction neither loses an append nor runs for ever, and
none is forgotten; a window's totals are what was counted in it.

**Usage observation** (`observation.rs`). Token usage read out of a stream of
events: merged fields, a bound on an event's size, an outcome. *Hard*: an
event dropped for its size, a stream cut in the middle of one, fields that disagree.
*Correct*: bounded memory; nothing is measured that was not told, nothing estimated
from a part.

**The rest**: dashboard API, presentation and static routes (`api.rs`,
`presentation.rs`, `routes.rs`) are read-only projections. `main.rs` and
`lib.rs::boot` wire the parts together.

How they interact: the request path calls the governor and the dispatcher and
reports failures to both; a settings save replaces the configuration every new
request reads, and swaps the pool under the dispatcher; the pool is reached by
the dispatcher (reserve, release), by requests (cooldown) and by saves; a
sampler task writes to the history; the dashboard reads everything.

## The modules

| module | what it is |
| --- | --- |
| `Pool` | the key pool as operators on a pool record |
| `Dispatcher` | the dispatcher's task, the requests' side of the oneshot channel, settings saves, the clock |
| `SlotService` | the abstract promise of the two: one line, budgets per window |
| `Governor` | the governor and the admission, report and retry of requests |
| `Exchange` | one generation request from admission to end: attempts, deadlines, the relay, what is recorded |
| `Proxy` | requests between their arrival and their lane, the catalog, and saves under them |
| `Config` | the stored document: the rulebook, what each form makes of it, routes, lanes, the settings page |
| `Settings` | how a save is written, published and survives a crash |
| `SettingsService` | the abstract promise of saves: one document, changed by one save at a time |
| `Access` | logins, sessions, header credentials, user changes around hashes computed off the lock |
| `Compaction` | who has the metrics log compacted, and when |
| `HistoryLog` | the file of the metrics history: appends, recovery, compaction, power losses |
| `HistoryFile` | the same file by what is in it: records, boots, gaps, what a compaction leaves |
| `HistoryIndex` | the index in memory: increments, windows, charts, the tail |
| `Observation` | the observer of a response: events, usage, what is measured and what estimated |
| `MC...` | small instances of them for TLC (`Exchange` needs none) |
| `DispatcherProofs`, `GovernorIndexProofs` (of `Governor` and `HistoryIndex`), `HistoryProofs` (of `Compaction` and `HistoryLog`), `ConfigProofs`, `SettingsProofs`, `AccessProofs`, `ProxyProofs`, `StreamProofs` (of `Exchange` and `Observation`) | lemmas and theorems |

`Dispatcher` is built on `Pool` and implements `SlotService`; `Settings` implements
`SettingsService`. `Settings`, `Access`
and `Proxy` extend `Config`, each with the view of a save that its question needs:
step by step with the disk, in one step, or as its two publications. `Exchange`
takes from the dispatcher and the governor what they promise, not their modules;
`HistoryIndex` is built on the file of `HistoryFile`, and `HistoryLog` shows that its
lines say exactly that (`IndexReadsFile`); both leave to `Compaction` when a compaction
runs, and let it run at any time.

**Time** is relative and in ticks in the first five and in `Compaction`. A stamp is its age, a cooldown
or a deadline is what is left of it, so states repeat and the model is finite without a bound on
the run. The dispatcher's 500 ms cap and the gap after a grant are one tick each.
The code's instants are strictly apart for two reservations (the gap after a
grant); the model keeps that with `stamped`, which lets the task reserve once per
tick, and this is what makes a set of ages as good as the queue of stamps. In the
governor a stamp stops counting at the only threshold it is compared with. In
`HistoryLog` and `HistoryIndex` time is the wall clock, in seconds, and may be set back: each step
that reads it picks any value.

**Pool**. `order` is the enabled prefix of the code's lane vector, `carriers` the
rest; `sent` the windows; `cool` the cooldowns. `CanTake`/`Take` are `try_take`,
`WindowReadyIn` the index arithmetic `sent[len - rpm]` of `reserve_filtered`,
`BestLanes` its choice of lane, `WaitFor` its hint, `Assemble`/`Rebuild` the two
constructors.

**Dispatcher**. `pc` is where the task's loop stands: `recv` (awaiting the
channel), `serve` (at the top of the inner loop), `reply` (reservation in hand),
`sleep`, `gap`. Snapshot and reservation are one step, because they happen under
one read guard; the check for a closed receiver, the reservation and the send are
separate steps, and hang ups, saves and ticks fall in between. A retired pool is not
kept: `rebuild` reads only the live one and nothing ever reads a retired one
again, so a slot just records in `live` whether its pool still is the live one.
`Release` and `Penalize` on a retired pool change nothing that is ever seen.
`spent` is a history variable: what a key was charged with and did not get back.
`HangUp` after the grant removes the charge from `spent` but not from the pool,
because `Slot` has no `Drop`.

**SlotService** has no lanes, cooldowns, channels or sleeps: callers join a
line, only the head is answered or refused, a key is reserved only below its
budget. The line is the set of those in it and the pairs that say who came before
whom, so that leaving it from anywhere takes one's pairs along and no position moves.
`Dispatcher` implements it (`ImplementsSlotService`): in line are the requests that are
queued and whose client is still there, the waiter being served before the channel and
the channel in its order (`InLine`, `Order`); the key in hand is the slot between its
reservation and its sending (`Hand`).

**Governor**. `Ask` is one turn of the poll loop, `admit_at` included: lazy growth
or dissolution happens also when the answer is no. `Sniff` and `Note` are two
steps, because the body of the failed answer is read in between while the permit
is held. `Part` is the drop of a permit and is shared by every exit. Requests
carry the toggle and the pinned cap of their arrival; `Save` changes only what
later ones see. Growth without bound is cut at `MaxLimit`, which is at least the
number of requests, above which a cap admits everybody anyway.

**Exchange**. `pc` follows `buffered` and `streaming`: `greet` (a heartbeat),
`permit`, `queue`, `send`, `headers`, `sniff` (the start of a body is read to tell a
refusal), `detail` (the body of a refusal), `retrying`, then `relay` of a buffered
answer, or `pipe` and `push` of a stream (waiting for a chunk, waiting for room in
the channel to the client) and `notice` (its last error event). `wait` is
`max_wait`, which only the waits for a permit or a lane look at; `deadline` is the
caller's, which the runtime races against the whole of the work (`Deadline` is
enabled at every `pc`). `fallback` and `noInject` are the `stream_options` a provider
may refuse and the untouched body that is then sent. `observer` is `open` from the
first of the upstream's stream until it is `taken`; `observed` and `recorded` count
what is reported of the request.

**Config**. A document is the JSON store; keys, client keys and users are sets,
groups a sequence, since their place is the endpoint index a lane carries. `Valid`
is `validate`, ownership and pool floor included. Each form is an operator from
document and user to the set of candidates it may make (`NimKeys`, `Clients`,
`Upstreams`, `Models`, `Section`, `Users`, `Account`, `SetupSubmit`), empty when the
form is refused before the rulebook is asked. `Runtime` is what requests read,
`RouteModel` the groups a model may go to, `PoolSpecs` the lanes, `ApiConfig` the
page and what it shows to whom. Numbers and texts that are only compared with a
range are members of `Limits`, in `InRange` or not.

**Settings**. A handler stands at `create`, `rename`, `dirsync` (the file), `cfg`,
`pool`, `publish` (the publications), `after` (the setup flag), or at `hash` before
the claim. The mutex is held from the check of the candidate to `publish`. `disk`
has what the name leads to, what it leads to after a power loss, and the temporary
file; each of the three writes may fail, with what the code does then. Two things are
possible in every state. `Crash` ends the process alone: the next one reads the name
(`config::load`) and syncs nothing, so that a rename whose directory sync failed or was
never made may still be undone later (`behind`, a history variable, remembers it).
`PowerLoss` ends both, and the next process reads what has reached the disk. `WriteBack`
is the file system syncing the directory by itself.

**SettingsService** has no handlers, mutex, temporary file or pool: one document, the
save that is to replace it, what a restart finds (`file`), and what a loss of power may
bring back instead (`past`). A restart of the process settles nothing and keeps `past`; a
loss of power chooses among the two. The promise of an answer is that `past` is empty,
so that neither undoes what was answered, unless the sync of that very save failed
(`unsynced`). A save is made of the document it
replaces (`Follows`: it is a candidate some form, user or claim makes of that very
document), so that none undoes another. `Settings` implements it
(`ImplementsSettingsService`): the document is what is published, the save under way is
the candidate of whoever holds the mutex (`Underway`), the file is the one of `disk`. The
rename is `Write`, the last publication `Apply`, the directory sync `Settle` or
`SyncFails` (`SyncFailed` from then on until the save is applied or lost), `WriteBack` is
`Settle` as well, `Crash` is `Restart` and `PowerLoss` is `PowerLoss`; the temporary file and the publication of configuration and pool are seen
by nobody who saves.

**Access**. A task logs in (`login`), presents a header credential (`header`), is
`in`, and then changes users (`users`), its own password (`account`) or has yet to
drop the memo (`clear`); between two of these lies a hash on a blocking thread. A
hash is a password and a salt that is never drawn twice. A cookie carries the hash
it is bound to, as in the code, and, for the properties, the hash that was verified
for it (`proof`). `late` marks a memo that was wrong as it was stored.

**Proxy**. A request takes its snapshot (`doc`) and counts itself (`Arrive`), is
checked against the cap of its snapshot (`Admit`, `Refuse`), routed (`Route`), and
granted a lane of the pool of that moment (`Grant`), which may retry elsewhere.
`rank` is what the increment returned. A request for the catalog waits for the
cache's lock, asks each group in turn for its models with a slot of its own, and
stores the answer. A save is `SwapConfig`, `SwapPool`, and for some forms `Flush`,
which queues for the same lock.

**Compaction**. `pc` says where each of three kinds of threads stands: the sampler
in `append` (`Sample`, `Persist`, then `Skip` or `Request`), a settings save in
`reconfigure_retention`, and the blocking workers in the closure of
`start_pending_compaction`. All of them may run the code that starts a job
(`Request`, `Start`, `Claim`, `LoadGeneration`, `Spawn`), a worker that ends
included. What the code does under `compaction_control` is one step; every load or
store of an atomic outside of it is a step of its own, so a save or an append falls
between any two. A generation is only compared for equality with the one a job
loaded, so each job carries `fresh`, which a request or a cancellation resets. The
log is the set of the ages of its points; of the store only what defers a
replacement is kept: whether this process has a full sample in the log, whether an
append has failed, and the end of the newest recovery gap, in the past, at this
process's boot, or open behind a torn append. `Compact` and `Replace` are the
canonical store's compaction up to, and from, the authorization; the disk may fail
in both, and in the directory sync after the rename.

**HistoryLog**. The file is a function from positions to lines: boot, sample,
checkpoint, or torn. `Replay`, `Gaps` and `Observations` are what the recovery scan
makes of it; `Open`, `Append`, `AppendFails`, `CompactLog` the store's operations with
the pieces a failed write may leave. `loose` marks the lines that may not have
reached the disk, `stale` the files the name may lead to after a power loss. One
rename at most is unsynced at a time: a second one while the first is still only in
the page cache would add nothing to lose but an older file. `OldFile` is the one
event in which an acknowledged observation goes without a report, and the
documentation says so (`CommittedSyncPending`,
`knowledge/architecture/metrics-history.md:205-211`); `owed` is what is left of the
promise. `AsRead` is the file of `HistoryFile` that the lines amount to.

**HistoryFile**. Records under their numbers, when each boot began, the boots with a bad
line in their epoch; `Readable`, `GapsOf` and `Retained` are what the scan returns, what
it reports, and what a compaction leaves. It has no state of its own.

**HistoryIndex**. `AppendToIndex` and `AppendToFile` are the two halves of `append`,
`Render` the snapshot of the registry before them; `Normalize` and `PointAfter` turn
snapshots into increments over resets and boots; `OpenHistory` replays the file,
`Replace` and `Install` are a compaction as the index sees it: the replay is installed if
no revision came between. Records, points and events bear the number of their sample, of
which only the order is used: the code's vectors and queues, in which what is taken out
renumbers nothing. `Totals`, `Complete`, `Chart` and `TailOf` are the queries of
the dashboard. `unended` says that the last line has everything but its newline: the next
start reads it as bad, then ends it, and from then on it is good. `taken`, `saved`,
`floor`, `spans` and `healed` are history variables.
A compaction may use any cutoff the retention does not forbid; the revision begins
anew with each process.

**Observation**. `Push` is one byte, `Newline` and `EndEvent` the ends of a line and
an event; `discard` the state of an event dropped for its size. A byte is a newline,
a carriage return, the prefix `data:`, a whole JSON text, or anything else: the
splitter tells no more apart. The prefix weighs two bytes in `Size` (five in the code),
because what matters of its weight is that a line is longer than the data it leaves by
more than the newline that joins them. `Observe` merges a text of a stream, whose tool
calls are told apart by their indexes, up to a limit; `ObserveWhole` merges a buffered answer,
whose calls are counted (`calls`). `StreamEnds` and `Buffered`
make the report, `Counted` the counters it increments. `text` and `told` are history
variables, from which the properties compute their own reading of the stream.

## The runs

| run | what it asks | bounds |
| --- | --- | --- |
| `dispatcher` | charges, refusals, filters, order, and that everybody is answered | 2 keys in 2 groups, rpm up to 2, window 2, 2 requests, 4 blueprints, cooldown 2, patience up to 2 |
| `governor` | permits, the overload bound | 4 requests, none pinned |
| `governor_live` | pinned caps, drain gap, admission ends, the cap is lifted | 2 requests, pinned or not |
| `compaction` | one job at a time, no request lost | 2 workers, retentions 0, 1, 2, ages up to 3 |
| `compaction_live` | a request does not stay pending for ever | 2 workers, retentions 0, 1, ages up to 2 |
| `settings` | whole or nothing, restarts and losses of power, the floor, one claim, the page | 2 handlers, 2 names, 2 keys, 1 client key, 2 groups, 3 saves; a fresh store, a recovered one, one in use |
| `access` | sessions, the memo, the throttle, authorized changes | 2 tasks, 2 names, 2 passwords, 2 salts, 1 failure allowed |
| `proxy` | shedding, routes, saves that flush | 2 requests, 1 handler, 3 groups, caps 1 and 2, 1 save |
| `exchange` | accounts, deadlines | 2 lanes, one plain, `max_wait` 3, deadlines 0, 2, 4, attempts of 1 and cooldowns of 2 ticks |
| `history_log` | what was acknowledged survives, what the lines say as a file of records | 2 states, seconds 0 to 2, 3 starts, 5 lines |
| `history_index` | totals, the tail, charts | 1 counter up to 1, retentions 0, 1, seconds 1 to 3, 2 starts, 3 samples |
| `observation` | memory, merging, honest reports | events of 4 bytes, texts of 6, 1 indexed value, numbers up to 2 |

*Why these bounds are enough to be interesting.*

- Two keys in two groups are the least with a preference, a filter and a choice by
  load. An rpm of 2 lowered to 1 is the least that leaves more stamps than budget;
  a window of 2 lets two stamps leave at different times. The four blueprints are
  the four things a save does to a key: keep, lower, disable, remove. Two requests
  are the least with a head and somebody behind it; a request is used again after
  it is answered, so runs are not bounded.
- Four requests let the governor halve a cap twice; nothing in it spans two models,
  so one is enough. `Backoff =< Grow =< Dissolve` is the order of the code's 3 s,
  15 s and 120 s.
- Two workers let a job be spawned while the last one unwinds; more cannot run, as
  the claim is exclusive. Two finite retentions are the least with a longer and a
  shorter one, and an age above both stands for every point that any cutoff drops.
- Two handlers are the least that race for a claim or a save; three saves allow a
  claim, a change and its reversal around failures and crashes. A claim brings any
  set of free keys, one more group, one client key.
- Two tasks and two passwords are the least with one who proves what another
  replaces; with one more salt a user is removed and made again.
- Two requests and caps 1 and 2 are the least with a request counted between
  another's count and its check under a different cap. Three groups are the least
  in which an index moves as one in the middle is removed.
- A second lane lets a retry find one that is ready, and lacks `stream_options`.
  Deadlines come before, in the middle of, and after `max_wait`. A connection that
  fails takes less time than its lane cools down; the other order is one of the
  disagreements below.
- Three starts are the least with a boot between two others, which may be torn,
  compacted away or behind a gap; five lines hold them with a sample and a
  checkpoint.
- One count over three samples and two boots gives a series that appears late, and a
  counter that has not come down after a restart, so that only the boot tells the
  reset. Larger counts are covered by the proofs.
- An event of 4 bytes (two prefixes with a byte of data behind each fit) and a text of
  6 give events below, at and above the bound, of one line and of two, and a stream cut off at each of their bytes.

`CHECK_DEADLOCK FALSE` stands where bounds on a run let it stop: starts, samples,
lines, the length of a text, and the requests of `Proxy`, which are served once.
Symmetry is used in safety runs only, over sets no property singles out.

**The properties**, with the hazard each is about. Each has a mutant in
`PROJECT.json`: a plausible bug in the modelled code that TLC finds with it.

*Rate and load.* `WindowCoversSpent`: a reservation still charged is in the live
window, so no save or release makes a key forget it. `RefusedOnlyWhenHopeless`:
nobody is refused who could be served in time. `GrantAllowed`: no group outside the
filter, stale preferences included. `ImplementsSlotService`: arrival order and
budgets, as one refinement. `EveryWaiterAnswered`. `PermitAccounting` (count =
holders), `OverloadBounded` (in flight unpinned is at most twice the cap and one: a
report halves, and what is in flight then is what the cap was computed from),
`PinnedCapHolds`, `DrainHonoured`, `EveryAdmissionEnds`, `UngovernedInTheEnd`.

*Requests.* `LoadBounded`: the counter of requests in flight is exact on every path,
and of those past the check one was allowed as many. `RoutedWhereServed`: indexes
from one configuration used on the pool of another lead where the snapshot allows,
as long as no index changed hands. `SavesEnd`: a save that must flush a catalog which
is being fetched, from a group that save has just removed, is answered.
`ObservedOnce`: the deadline and the many exits of the relay account for a stream
once between them. `EndsAtDeadline`: whatever upstream, governor and client do.
`BufferedEnds`: without a deadline `max_wait` ends it, if connections fail in less
time than lanes cool down.

*Settings and users.* `PublishedWhole`: between saves configuration, pool, store and file
are one document, and nothing is in force that is not in the file. `CrashSafe`: whatever a
restart or a loss of power finds is valid, and the two are the same outside of a save,
except after a directory sync that failed, or that a process ended before. `FloorKept`:
each claimed document that is, or may come to be, in force keeps the pool floor and the
ownership rule, and an open proxy is claimed; `OneClaim`: a superuser stays through races,
saves and restarts. In both, a loss of power is excused for one thing only: it may take
back the claim as a whole, if its rename was never synced; a restart in between does not
sync it. `ImplementsSettingsService`: two saves that race are made one of the
other and never both of the same document, a failed one leaves no trace, and what is
answered outlasts restarts and, unless its own sync failed, losses of power;
`PageMatchesForms`: the page shows a key to exactly those who may remove it and a
padlock exactly where the rulebook would refuse, though page, form and rulebook each
compute it in their own way. `SessionProven`: no login verified against a hash since
replaced yields a session that works. `ChangeAuthorized`: roles and passwords hold at
the moment of the change, not of the request. `MemoFollowsUsers`; `ThrottleBounded`:
attempts that pass the check together are bounded too.

*History.* `OneCompaction`; `QuietMeansCompacted`: with nothing pending, running or
about to be asked for, the log holds nothing older than the last cutoff, so no
request falls between the worker's check of the generation and its clearing of the
flag; `CompactionCompletes`, whose premises are that the disk
works in the end, the retention stays finite and a job ends before the next sample
(otherwise each append outdates the job under way, and a deferral or a failure waits
for the next append). `Acknowledged`: an observation is read by the next start, in its
state, or lies in a gap that start reports. `Reopenable`: no failure leaves a file a
start would refuse. `Transparent`: the check compaction makes of its replacement cannot
fail, and compaction changes nothing from its cutoff on. `IndexReadsFile`: the scan of the
lines reads the records, reports the gaps, and has a compaction keep the lines that the
file of `HistoryFile` says, whatever starts, failures and power losses left in it.
`TotalsExact`: a window reported complete has exactly what was counted in it, two
disagreements (below) apart: the second in which an unreadable boot began or ended, and the
boot whose last line this start has ended.
`NothingTwice`: a range and a tail of one revision, fetched in either order, never
show more than was counted. `Tiles`: a chart covers its window once.

*Usage.* `BoundedMemory`; `MergedAsTold`: an event too large takes none of its
neighbours with it, and two that disagree measure nothing, in whatever order;
`HonestReport`: nothing is estimated from a part, and nothing measured that was not
told.

The type invariants are not listed in the runs: all are theorems. `BudgetKept` and `HintExact` of `Dispatcher` and `NoteTightens` of
`Governor` and `UnlimitedKeepsAll` of `Compaction` are theorems as well, and not run: the
first two say of one step what `WindowCoversSpent` and the refinement check over many, the
last what one guard does.

## Fairness

Weak fairness of what the runtime and the clock do by themselves, and of nothing
else: no client, upstream, operator or disk is ever assumed to act.

- `Dispatcher!FairSpec`: the task as a whole (a ready task is polled) and the clock.
  Saves may swap the pool for ever, and clients need not take their slot.
  `PromptSpec`, used by `LateGrant.cfg`, is a dispatcher that is never late: the
  clock moves only while the task waits, so that the counterexample cannot be blamed
  on a slow runtime.
- `Governor!FairSpec`: the clock and each request's own admission steps (a task that
  sleeps is woken). `UngovernedInTheEnd` states its own premises: exhaustions stop,
  and unpinned requests keep asking, because the code dissolves a cap only on an
  admission.
- `Exchange!FairSpec`: the task's own steps, its timers, the caller's deadline and
  the clock, which stands while the task has a step to make (`Ready`, `Expired`).
  Upstream, client and governor may be silent for ever.
- `Proxy!FairSpec`: the steps of the request that fetches the catalog, and of a save.
  `Answered` is among them: `fetch_models` has no limit of its own, so `SavesEnd` holds
  only with upstreams that answer or fail when asked for their models.
- `Compaction!FairSpec`: every thread's own steps and the sampler, which appends as
  long as the process runs. `Tick` moves only while all threads rest, because a tick stands for a part of the retention (days, in the code)
  and is longer than an append, a save or a job; its fairness is strong, because
  the threads rest and set out again, and time passes nevertheless.

`Settings`, `Access`, `HistoryLog`, `HistoryIndex` and `Observation` state safety
only: what they are about is answered by one step of a caller, or not at all.

## The proofs

From the assumptions on the constants alone (`PoolAssumption`,
`DispatcherAssumption`, `GovernorAssumption`, `CompactionAssumption`,
`SettingsAssumption`, `AccessAssumption`, `ProxyAssumption`, `ExchangeAssumption`,
`HistoryLogAssumption`, `HistoryIndexAssumption`, `ObservationAssumption`: finite sets of keys and requests,
natural bounds, documents at the start that the rulebook accepts, threads and bytes
that differ), and so for every number of them:

- `DispatcherProofs`: first what the pool's operators return, for every window,
  budget and set of stamps. The centre is `ReadyInExact`: the lane can be taken after
  `d` ticks exactly when `ReadyIn =< d`, which rests on the counting of the stamps
  older than the `rpm`-th youngest. Then `Typed` (the type invariant and what the task
  has in hand in each `pc`) is inductive, one lemma per action (`TypeCorrect`).
  `Covered` adds `WindowCoversSpent` (`NothingSpentTwice`): the account and the window
  change together in a reservation, a release removes one stamp from both, a rebuild
  copies the windows of exactly the keys the account keeps. With it `BudgetKept`
  follows, since the account is never larger than the window the guard counted.
  `HintsAreExact`, `RefusalsAreHopeless` and `GrantsAreAllowed` follow from `Typed` and
  the lemmas on the pool.
- `DispatcherProofs`, the refinement (`SlotServiceImplemented`): a step of the task, of a
  client, of a save or of the clock is one step of the slot service or none. What makes it
  so is `Lined`, inductive beside `Covered`: nobody is in the channel twice or both there
  and being served, whoever is queued is in one of the two, and the task serves only one
  who is queued or gone. Hence taking the next from the channel moves nobody in line,
  and the one being served is its head. That a reservation is within the budget of the
  abstract account is `Covered`: the account is never larger than the window.
- `GovernorIndexProofs`, the governor: the inductive invariant `Sound` is the type invariant,
  `PermitAccounting`, `OverloadBounded`, `PinnedCapHolds`, and `DrainOpen` (a model
  is blocked exactly while its last exhaustion is younger than the gap), which
  the properties do not say and the drain theorem needs. The first is needed by
  the rest: the guard speaks of the counter, the caps of the holders.
- `HistoryProofs`, the control of compaction: `OneCompaction` is inductive beside the types, since every
  move of a thread keeps, enters or leaves the claimed places together with the
  flag. `QuietMeansCompacted` is not: `NotLost` adds that a job whose generation is
  current works with the last cutoff asked for (`FreshHasCutoff`), that such a job
  leaves a clean log once it has replaced it (`FreshMeansClean`), and that an old
  point with nothing pending is accounted for by a save about to ask or by the worker
  that cleared the flag and has yet to look again (`OldPointAccounted`). The set of
  workers need not be finite. `UnlimitedKeepsAll` needs no invariant: the one step that
  removes points looks at the retention itself.
- `HistoryProofs`, the log: `LogInv` holds for every file the name may lead to after a
  power loss as for the one in use. Each is `WellFormed`: times and boots go up along
  it, only its last line may lack its end, and it begins with a whole boot record, which
  is `Reopenable`. `Secured` has the reason for `Acknowledged`: of every observation owed
  the line it was written to, and the full sample it repeats, lie below `loose`, so that
  no power loss takes them; one such line (`Witness`) is replayed or lies in a gap, by
  a case on whether its boot's epoch is readable and what the next start closes.
  Appending needs `Ready` (the writer stands behind a whole file, not behind its last
  time, and remembers the last full sample): without it a checkpoint could repeat
  another state than the one acknowledged. `Transparent` follows
  from `WellFormed` and `Current`: what is kept, with its baseline, is in order and all
  read again. A restart over a torn tail, a failed append's pieces and a compaction keep
  a file `Same` below a position, which is the lemma the steps share.
- `HistoryProofs`, the file (`LogAsIndexed`): that the lines amount to the file of
  `HistoryFile` needs `BookInv` beside `LogInv`: what lies before a boot record is of earlier
  boots, a checkpoint has a sample of its own boot before it, and the state the writer
  remembers is a sample of this boot. The first two hold of an older file, which a loss of
  power may bring back, as well.
  Hence an epoch without a bad line and with a record begins with a full sample, which is
  the scan's condition for reading it; a boot is `Usable` exactly when its epoch is read,
  and the baseline chosen among lines is the one chosen among records.
- `GovernorIndexProofs`, the index: `IndexInv` follows a sample from the registry to the
  point it becomes. `InOrder` and `SamplerStands`: within a boot counts only grow, and the
  sampler has at most one sample that is not in the file. `Filed`, `Repeats`: the file has
  samples as they were taken, and a checkpoint a full sample to repeat. `Preceded`, `Lost`
  and `Reported` say what a compaction and a bad line may have taken: a record no older
  than `floor` has before it one that counted all that any earlier sample of its boot did,
  and what is missing is older than `floor` or in a gap some start has reported.
  `Remembered` is needed by the checkpoint: what the store compares with is the last
  state in the file. Of the index, `Pointed` (a point not older than `floor` is the
  increment of its sample, and a sample without a point is too old or in a gap),
  `Apportioned` (the points of a boot take from its count pieces that do not overlap) and
  `GapsKnown` (a gap shown is in the file, or too old to matter, or `healed`: the file lost
  it after the index had read it). A record without its newline is filed like any other,
  in a boot that is unreadable until a start ends the line, so that `FileInv` holds of the
  file before and after.
- `TotalsExact` follows from `Pointed` and `GapsKnown`: in a complete window outside
  `healed` the two sums have the same terms. `NothingTwice` follows from `Apportioned` and `SameRevision`: two
  states of one step and one revision have the same points, so that page and tail are of
  one state; and in one state the points of each boot come to no more than its last
  sample counted, and the tail to what was counted since (`PointsBounded`,
  `PageIsBounded`). What `Total` returns is said by `TotalFacts` and
  `TotalWith`, from a relation between a function and its sums (`IsSum`) that the recursive
  definition satisfies; the inductions over numbers are by their least element
  (`Inductive`), which needs a set and no operator.
- `Tiles`: `Telescope` is about any numbered intervals each of which begins where the one
  before it ends: their lengths add up to the whole. It is applied to the points of a
  bucket, and then to the buckets: the bucket of a time grows with it, so that each
  bucket has a stretch of the points (`BucketsInOrder`). Nothing of it depends on how
  many buckets are asked for: `IndexTiledWhatever` is the same for any number, where
  the run tries two.
- `ConfigProofs`: lemmas, one per form: every candidate is a document, keeps the
  superuser, and is made by someone who may; what a key's removal or its switching
  does to the pool floor, and that the padlock of the page says exactly that.
- `SettingsProofs`: the invariant says of each place in a save how far the candidate
  has been carried (`Stages`), that one handler saves at a time (`OneSaver`), that
  what is saved is valid and keeps the superuser (`CandidatesValid`), that the
  documents a restart and a loss of power may find are valid and, if the older one is
  claimed, have the same superuser (`DiskValid`: it stays true while the two differ, which
  may be for many saves and restarts), and that the proxy is opened
  only by a claim that was published (`Opened`). `PublishedWhole` and `CrashSafe` are
  parts of it; the end of a process and a loss of power have a lemma each (`Crashes`,
  `PowerLosses`), on what any start gives (`Starts`). `OneClaim` needs all of the
  invariant, because a claim built before another was
  published must not reach the disk.
- `SettingsProofs`, the refinement (`SettingsServiceImplemented`): the invariant gives the
  guards of the service. `OneSaver` makes the candidate of whoever holds the mutex the one
  save under way (`OneChosen`, `TheNext`); a form begins a save only while the mutex is
  free, when `Stages` says that store, file, configuration and pool are one document, so
  that its candidate follows the document of record (`FormBegins`); and of each later step
  it says whether the file is the candidate yet (`SaveServes`). `TheSync` says at each
  step whether the sync of the save under way has failed: `Apply` is allowed because the
  two documents are the same by then, or it has.
- `AccessProofs`: `CookiesProven` (each cookie is bound to the hash its holder
  proved) gives `SessionProven`, as a cookie is accepted only while that hash is
  stored, and no salt is drawn twice. `MemoFollowsUsers` and `ThrottleBounded` are
  inductive with what each task carries (`TasksKnown`) and a valid store, whose user
  names are distinct.
- `ProxyProofs`: `LoadBounded` is not inductive. `Ranked` is: of any set of requests in
  flight one counted them all, namely the one that arrived last. Applied to those past
  the check, it gives one whose count was at least their number and at most its cap.
  `Carried` keeps the route a request computed from its snapshot, and `PlacesKept` that
  every lane of a pool points at a group of its document; `RoutedWhereServed` follows.
- `StreamProofs`, the request: `Accounted` says at each `pc` whether the observer is open
  and what has been observed and recorded; `Placed` which places belong to a stream and
  hold a lane.
- `StreamProofs`, the observer: none of the three properties is inductive.
  `BoundedMemory` needs `Room`: the line being read has room behind what is held, with its
  prefix counted, and nothing is held of an event that is dropped; it holds for any bytes
  and bounds, on texts of any length. `MergedAsTold` and `HonestReport` need `Merging`,
  which adds `Followed`: the observer's incremental state is what the bytes of the event,
  read as a whole, say of it. If the event is dropped, some byte did not fit (`TooLarge`)
  and the flags of its line say how much of a line there is (`Dropped`); if not, `line` is
  the bytes since the last line break and `data` the data bytes of the lines before, in
  their order and with as many joints (`Kept`). The length of `data` is a count of bytes of
  the text (`Held`), so that the observer's check of its buffers is the property's
  `TooLarge`; and the one JSON text of `data` is the one of the bytes (`Says`), since `data`
  is their image under a shift (`AsHeld`, `Shifted`, `Sole`). Merging one field, finish or
  tool call after another gives the verdict of the set of all, in any order
  (`MergedAs`). `HonestReport` follows: `Unterminated` fails exactly when nothing is cut off.

Out of the prover's reach, and so only model-checked: the seven liveness properties
(`EveryWaiterAnswered`, `EveryAdmissionEnds`, `UngovernedInTheEnd`,
`CompactionCompletes`, `EndsAtDeadline`, `BufferedEnds`, `SavesEnd`), as liveness under
fairness is. Every invariant and every action property of the runs, and both refinements, are
theorems. The disagreements below are counterexamples, which TLC finds and nothing proves.

## What disagrees with the documentation

Each of these is a property that a document, a comment or a test states and TLC
refutes; `PROJECT.json` quotes the text and says at which line. None is
part of a run that passes. The configuration to repeat it with is named first.

*Rate and load.*

- `LateGrant.cfg` (`MCDispatcher`, `GrantedInTime`): `limits.max_wait_secs` is the "Max
  seconds a request waits in queue". A waiter behind a sleeping head is looked
  at after its own deadline, and if a lane is then free it is granted: the
  deadline is compared with the wait only when no lane is free.
- `LostSlot.cfg` (`MCDispatcher`, `SlotsReturned`): a client that disconnects while
  queued returns its slot while the slot is with the dispatcher; once it is in the
  oneshot channel, dropping the receiver drops the slot and its stamp stays.
- `UnpermittedNote.cfg` (`MCGovernor`, `NotedUnderPermit`): `note_exhausted` requires the
  permit to be held. With the governor off, or for a path that does not generate, the
  request loop reports without one, and the cap is in force when the governor is
  switched on.
- `RetriesUnbounded.cfg` (`Exchange`, `MaxWaitBoundsRetries`): a connection error is
  retried without a look at `max_wait`, which only the waits for a permit or a lane
  look at. Where connections take longer to fail than lanes cool down (10 s and 5 s
  in the code), one of two lanes is always ready, and the request is sent for ever.
- `SettingsDisagreements.cfg` (`MCSettings`), `LaneForEveryRoute`: the pre-check before
  the queue looks at the groups of a model and not at their keys; a group without an
  enabled key is routed to, and its requests wait until they are refused there.

*Requests.*

- `ProxyDisagreements.cfg` (`MCProxy`): `SpentWhereServed`, a queued request is granted
  a key of another group after a group before it was removed and the indexes moved;
  `CatalogHonoursToggles`, a catalog filtered by a snapshot from before a save is cached
  after the save's flush; `CatalogAlwaysListed`, with an allowlist on every group the
  catalog is answered with 404.
- `RecordedTwice.cfg` (`Exchange`, `RecordedOnce`): the end of a stream is recorded, and
  the deadline, which comes while its last error event waits for room, records it
  again.
- `SilentStream.cfg` (`Exchange`, `SilentStreamsEnd`): the idle limit does not cover the
  wait for the response's headers, nor the body of a refusal.
- `PromptSource.cfg` (`MCObservation`, `SourcesSplit`): the counter of prompt tokens has
  no `source` label, so estimated and measured tokens are added up.

*Settings and users.*

- `ClaimPossible.cfg` (`MCSettings`): a store without users whose extra groups have keys
  of users that are gone cannot be claimed; only the primary group's are adopted.
- `SettingsDisagreements.cfg` (`MCSettings`), `OldOrNew`: a crash in a save "leaves either the
  old file or the new one". An error of the directory sync is ignored, and a start syncs
  nothing, so the rename of a save before may still be on its way as the next save begins;
  a loss of power then leaves a document older than both.
- `RevocationImmediate.cfg` (`MCAccess`): a header credential verified against a hash
  that is replaced meanwhile is memoized after the memo was cleared.

*History.*

- `UnendingCompaction.cfg` (`MCCompaction`, `UnlimitedSettles`): an append that read the
  finite retention before a save set it to 0, and finds work pending or enough points
  expired, asks for a compaction after it. The job rewrites the log into a temporary
  copy, is refused for the unlimited retention, and starts again at once, until a
  finite retention is set. The worker's own second look at the generation and the
  retention can put the flag back in the same way.
- `StaleCutoff.cfg` (`MCCompaction`, `RetentionKept`): when a save lengthens the
  retention between the same two points of an append, the append's request comes
  last, with the shorter cutoff, and the log loses points the new retention covers.
- `HistoryIndexDisagreements.cfg` (`MCHistoryIndex`): `CompleteWhenHealed`, "this rule
  prevents validated-row rewriting from erasing evidence that still makes a retained query
  incomplete" (`knowledge/architecture/metrics-history.md:198-199`): a start that finds a
  last line without its newline reports a gap for its boot and then ends the line
  (`history/store.rs:164-166`). The first compaction of this process scans the file again,
  finds no gap, is not deferred, and installs the new file's gaps without its records
  (`history.rs:1448-1453`): until the next restart, windows over that boot are complete
  and without its samples. `CompleteToTheSecond`, the gap of an
  unreadable boot that began in the second the next one began in is empty and hides
  what was lost; `EventsKept`, a replay is installed over the event of an append that
  has indexed its sample and not yet written it; `KindsCounted`, a checkpoint is counted
  as a sample until the next replay.

The files with several properties list them all, one of them active.

## What is not modelled

The bytes of requests and answers, the HTTP server, TLS, the async runtime
beyond "a ready task runs". The parts listed `not_modelled` in `PROJECT.json`:

- Dashboard API, presentation and static routes: read-only projections into JSON and
  HTML, without state. One of them, `/api/dashboard/now`, reads the revision of the
  configuration before the pool, so the two may be of different saves for one answer.
- Process start and shutdown: wiring and environment; the initial states of the
  modules are the ones they build.
- Tests, fuzz targets and scripts.

Left out of the parts that are modelled:

- Lock poisoning: no code panics under these locks. The pool's lanes have a mutex each
  and `penalize` may run between two lanes' reads inside one `reserve_filtered`; the
  model makes the reservation one step, which is sound for the budget (only the
  dispatcher reserves) and for the choice (a cooldown that arrives after the lane
  was read is as one that arrives after the reservation).
- Affinity, which only prefers one of the lanes a request may use anyway; the labels
  of metrics and the limit on their number; `GET /v1/models/{id}`; the probe that
  validates a key before it is stored.
- Of the settings: the format of the file, the versions before this one, and the texts
  that are only compared with a range.
- Of the history: the layout of a record (`codec.rs`; the file is modelled by which lines
  decode), gauges and capacity, whose last value wins, the text of the exposition, the
  start in memory after a file that cannot be opened, and the legacy `history.jsonl`,
  which is never opened in production. `HistoryIndex` leaves starts that fail and losses of
  power to `HistoryLog`.
- Of the observer: JSON below the whole text, and several choices in one event, which
  are merged as if each came in an event of its own.

## What is left

Every component with a state of its own has a module. What could still be added:

1. A refinement step by step from `HistoryIndex`'s file to `HistoryLog`'s: that their files
   say the same is proved (`LogAsIndexed`), that they change alike is not, and `HistoryIndex`
   has neither starts that fail nor losses of power.
2. `Exchange` composed with `Dispatcher`, so that the wait in the queue is the
   dispatcher's and not a lane that is free or cooling down; the product is past what
   TLC can explore with two requests, and would have to be an abstract queue.
3. Out of reach of the prover, and staying with TLC: liveness and `ENABLED`.
