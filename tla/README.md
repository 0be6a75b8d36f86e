# TLA+ verification of flask_modules

This directory models the parts of the repository in which several threads,
processes, servers or runs of a job meet: the fleet FTP downloader and the
single-server client, both directly and over HTTP, the Redis lock of the
scheduled API and the scheduler around it, the Redis queue of hourly item checks,
and the jobs and services around them: polled background jobs, sweeps, purges,
the collection of files, OpenSearch indices and searches, short URLs.  TLC checks
the models on small instances; TLAPS proves the main results for every value of
the constants.  Line numbers below refer to the files under `src/`.

Read a component's module first, then its proofs (`...Proofs`).  The `MC...`
modules only name what TLC instantiates, and each `.cfg` is one run.

    tlc -workers 2 -config FleetStreams.cfg MCFleetDownload
    tlapm FleetDownloadProofs.tla

## 1. Inventory

The repository is a set of Python packages that share little more than a
deployment.  The parts with logic of their own:

| part | source | state it keeps | operations | what is hard | what makes it correct | module |
|---|---|---|---|---|---|---|
| Fleet engine | `ftp_handler/direct_downloader/fleet_downloader.py` 833-930 | futures, start times, the report being built | submit a worker per spec, collect, abandon after `host_timeout`, return | threads that cannot be killed, a queue behind them, Ctrl-C in the caller | the pool bound, no spec left behind, only running time is charged, no late result | `FleetEngine` |
| Fleet download | same, 577-610, 645-705, 933-955, 1166-1219 | one `_FileGate` (lock and flag) per spec, the caller's sink | RETR, `on_file`, close | a worker that succeeds while it is given up on | nothing reaches the sink once the caller was told; what is reported was delivered | `FleetDownload` |
| Fleet delete | same, 763-798, 1124-1164, 1254-1310 | one stop Event per spec, the session's CWD | DELE, RMD, SIZE and CWD probes | a probe that moves the session, a connection lost in a probe | paths are removed relative to the login directory only; every path is reported once | `FleetDelete` |
| Fleet list, size, upload, mkdir | same, 957-1122, 1227-1251 | the session, its CWD and unread replies | LIST, SIZE, STOR, MKD | no `on_abandon`: an abandoned upload goes on; a reply left unread | every item is reported once, from an answer of its own | `FleetWork` |
| Fleet proxy | `ftp_handler/proxy/*.py` | batches on their way, uWSGI workers | batched HTTP calls of fleet operations | lost replies, harakiri, recycling | what goes on after the caller was answered is what it was told has failed | `FleetWork`, `FtpClient` |
| Single-server client | `ftp_handler/core/client.py` | a connection, files on the server | put, replace, upload, remove, mkdir, download, list | a connection lost between two commands, replies that never come | never a half target under its own name; an unknown outcome is reported as unknown | `FilePromise`, `FtpClient` |
| Collection | `direct_downloader/collect.py`, the sinks in `fleet_downloader.py` 1489-1806, `dags/**/eqp_ftp_collector_dag.py` | stored files and objects, indexed records | archive, parse, index per file | partial failure between the stores, killed runs | no record without its archived source | `CollectFiles` |
| Background jobs | `ftp_handler/web_app/jobs.py` | registry, pool | submit, get, evict, shutdown | order of registration, pool submit and shutdown | what a poll says is so; a finished job stays to be polled | `BackgroundJobs` |
| Job lock | `api/extension.py` 259-429 | a Redis key with a TTL, a token per call, a watchdog thread | acquire, skip, renew, release | lost replies, failed renewals, kills, a renewal racing the release | one run at a time, a live run keeps its key, orphans are bounded, nobody frees another's key | `RedisLock` |
| Scheduler, health | `api/schedule.py`, `api/__init__.py`, `api/extension.py` 130-158 | APScheduler's job, heartbeat keys | fire, start, miss, dispatch by hand, heartbeat | misfire grace against orphan TTL, a full pool | a crash costs a bounded number of fires; health is right | `JobSchedule` |
| Task log | `api/extension.py` 120-257 | a capped Redis list | record, read | best effort by design | a job never fails for its log | not modelled |
| Item check queue | `airflow_mgmt/scripts/item_check_queue.py`, `airflow_mgmt/dags/item_check/` | a list, a sorted set, two sets and a hash in Redis | reclaim, claim, mark done, mark failed | no transaction around its Redis commands, parallel tasks, leases, tasks that die | no item is lost, none is doubled, each is settled | `ItemCheckQueue` |
| Row cyclers, weekly sweep | `airflow_mgmt/scripts/row_cycler.py`, `weekly_sweep.py` | none | the rows of one slot | quotients at slot boundaries, tables that change | every row is visited | `RowSweep` |
| MinIO purges | `airflow_mgmt/scripts/*purge.py`, `minio_handler/object.py` | buckets | list and delete by age or partition | writers meanwhile, removal errors, kills | what readers need stays; what is expired goes | `Retention` |
| Hourly coverage | `api/tasks/meas_hist_cdsem_coverage.py` | none | gaps in a grid of hours | two clocks, capped buckets | every missing hour is reported | `HourCoverage` |
| Index families | `ops_index_mgmt/*.py`, `ops_store/index.py` | policies, templates, aliases, backing indices | setup, add a field, rollover, expiry, ingest | scripts from two releases, rollover between two requests | every live index has the mapping and policy it should | `RolloverFamily` |
| Member directory | `ops_index_mgmt/member_info_ingest.py` | documents with a stamp | upsert, prune | overlapping runs, late requests | nobody current is pruned, nobody stale stays | `MemberDirectory` |
| Reindexing | `ops_index_mgmt/es_to_os_reindex.py` | none | scroll, bulk | refused items, repeated runs | every document is copied or counted | `Reindex` |
| Search | `ops_store/search.py` 76-262, 523-554 | none | all hits, page by page | an index that changes between pages | what stays unchanged is returned once | `SearchPages` |
| URL shortener | `url_shortner/*.py` | mapping, cache | shorten, resolve | collisions, failed stores, cached entries | a code keeps its URL | `UrlShortener` |
| MinIO and OpenSearch facades | `minio_handler/`, `ops_store/` | none | one request per call | nothing of their own | - | as their callers use them |
| DAG files, templates, diagnostics | `airflow_mgmt/dags/` | none | declarations | - | - | as far as they drive the above |

How they interact.  A fleet operation runs the engine, the engine runs one
worker per host on a pool, and the worker calls back into the caller's
`on_file`; only the gate, the stop event and the futures are shared.  The proxy
runs the same operations in a uWSGI worker, for a caller that sees only the
HTTP reply.  The collection sits behind `on_file`.  A scheduled job is a function
wrapped by `redis_lock`; the wrapper starts a watchdog thread, and everything
else it shares is the Redis key.  An item check DAG run starts several chunk
tasks in different processes; they share only the five Redis keys.  The other
services share no state with these or with one another.

`PROJECT.json` lists every component and, under `hazards`, where each one can go
wrong at which line.

## 2. Plan

Done, the most consequential behaviour first: the fleet engine, download and
delete; the lock; the item check queue; the single-server client against
`FilePromise`; the other fleet workers and the proxy (`FleetWork`); then the
services, side by side in one run (`MCServices`).

Left:

1. The proxy's download and delete routes composed with HTTP, as `FleetWork` is.
2. Promises of the size of `FilePromise` for the item check queue and the job lock:
   what they promise is stated as invariants now, not as specifications.

## 3. The models

### Fleet operations

`FleetEngine` is `_run_fleet`.  `thread` is the state of each future, `age` how
long its worker has run, `main`, `cursor` and `verdict` the calling thread: what
it is doing, which future it waits for, and what it has appended to the report.

| action | code |
|---|---|
| `StartWorker`, `EndWorker` | `_timed` on a pool thread, 870-881 |
| `Collect` | `future.result` returns or re-raises, 905-906, 919-927 |
| `TimeOut`, `Abandon` | `FuturesTimeout`, `on_abandon(idx)`, `abandon(...)`, 907-918 |
| `LeavePool`, `Return` | the end of the loop, `shutdown(wait=False)`, the operation's own `finally` |
| `Interrupt` | an exception raised in the calling thread (Ctrl-C, a task timeout), which leaves through the same `finally` clauses |
| `Tick` | `time.monotonic()` |

Time is the age of each worker, saturated one tick past `HostTimeout`, because
the code compares nothing else.  The caller is prompt: no time passes while it
could go on.  It may block in `on_abandon` and in `finally`, and time passes
there.  `PromptSpec` is the engine of an operation whose `on_abandon` cannot
block.

`FleetDownload` adds `_host_worker` and `_FileGate`.  Whether `on_file` is given
is the initial choice `streaming`.  A worker resolves its paths, and for each
reads the gate without its lock (`NextPath`), ends a RETR (`FetchToGate`,
`FetchToReport`, `FetchFails`), takes the gate's lock (`GateOpens`,
`GateSwallows`), and returns from the callback.  `step[i] = "callback"` is the
lock being held, so `LockFree` is what `close()` waits for.  Which bytes a file
has is left out; `files` counts the `FileResult`s of a spec and `sunk` the
callbacks that returned.

`FleetDelete` adds `_delete_worker`, `_remove_or_absent` and `_cwd_home`.  What
a server answers is a choice in every step; `away` is whether the session's CWD
may have left the login directory, `pwd` whether the PWD reply could be parsed.

Both are checked (`EngineSpec`, `PromptSpec` as properties) and proved to
implement the engine, so that the engine's theorems hold of them; `FleetWork`,
below, is proved to.

### The other fleet workers, and the proxy

`FleetWork` puts the workers of `list_dirs`, `size_dirs`, `upload` and `mkdir_many`
on the engine, item by item: `step`, `pos` the item in hand, `good` and `bad` what has
been appended for it, `done` what has really happened on the server.  `line` is
the control connection: a transfer that breaks on its data connection leaves its
last reply unread, and from then on every command reads the reply to the one
before it ("stale").  `away` is again the CWD that a probe may have moved.

| action | code |
|---|---|
| `OpenSession`, `OpenFails`, `ResolveAll` | `_session` 801-831, `_resolve_paths` 1166-1188 |
| `Transfer`, `Measure` | LIST, STOR 957-990, 1050-1082; SIZE 992-1048 |
| `MakePrefix`, `PrefixExists`, `ProbeRefused`, `ProbeEntered`, `ProbeBreaks`, `GoHome`, `GoHomeFails`, `LoseCwd` | `_makedirs` and its CWD probes, 1084-1122, 1227-1272 |
| `ReturnWork`, `CallingThread`, `WorkTime` | the engine, 707-776, 892-906 |
| `Accept`, `Reply`, `Harakiri`, `Recycle` | one batch in a uWSGI worker: `flask_proxy.py` 120-215, 252-360 |
| `Hear`, `HearNothing` | `proxy_downloader.py` 432-499, 548-667: the reply, or the failures that the client makes up |

One batch is one request; batches share nothing but the list their results are
appended to, so one is modelled.  The time of the process, `clock`, runs against
the deployment's harakiri budget as the workers' ages run against `HostTimeout`.

### The single-server client

`FtpClient` is one call after another, `put`, `put(overwrite=True)`, `replace`,
`upload`, `remove`, `mkdir` or a read, as the sequence of FTP commands the code
sends.  `pc[c]` is the next command; the server answers it, refuses it, or the
connection breaks before or after it had its effect (`Ends`, `Ran`), or answers
what cannot be parsed ("garbled").  With `via = "proxy"` the same calls are made
through `proxy_client.py`: `GiveUp` is the request whose answer does not come,
`WorkerDies` the uWSGI worker that is killed, and in both the call may go on.

`FilePromise` is the abstract specification.  It knows the content of the path,
and what each call was told: `put` lands only on an absent path or one that an
unanswered call may have filled, an outcome ends the call, a call that is told
`ok` has landed, and one that is told `exists` or `failed` has not.  The one
escape is `proxyerror`, which says nothing.  `PromiseKept` is the refinement:
`FtpClient` has the promise's variables, so the mapping is the identity; the run checks
it and `ClientKeepsPromise` proves it.

### The job lock

`RedisLock` has one member of `Runs` per call of the wrapper: each call mints its
own token, so the run is its token.  `owner`, `ttl` are the Redis key; `pc` the
wrapper; `stop`, `dog` the watchdog's event and thread; `due` the time since its
last renewal was settled.  `fails` and `orphan` (saturated at `OrphanCap`) are history, for the properties.
The Redis server and the scripts of `redis.lock.Lock` are external: atomic, but a
call may fail without effect (`AcquireErrors`, `ReleaseErrors`, `ExtendErrors`)
or lose its reply after it had its effect (`AcquireOrphans`, the other half of
`ExtendErrors`).  A call that the client itself retries looks like one of these.

| action | code |
|---|---|
| `Acquire`, `Skip` | 402-409; `describe_lock_holder` only reads |
| `AcquireOrphans` | the SET is done and the exception leaves ahead of the `try` (402-410) |
| `FnEnds` | the function returns or raises, `stop.set()` (411-414) |
| `Release`, `ReleaseErrors` | 415-425 |
| `Wake`, `Extend`, `ExtendNotOwned`, `ExtendErrors` | 339-349 |
| `Crash` | the process dies, with its daemon thread; a renewal already sent may still arrive |

A renewal is settled at most `Interval + MaxLag` after the one before it.  That
is the one timing assumption, and a fair one: `MaxLag` holds the scheduling of a
thread, the round trip and the client's socket timeout, and is a constant.

`JobSchedule` is the scheduler around that lock, which it knows as one holder of a
key with a TTL.  `Fire`, `Start`, `StartFails`, `End` follow a fire through coalescing,
`max_instances`, the pool, `misfire_grace_time` and the wrapper; `ManualStart` and
`ManualEnd` are `run_job` in a worker that serves requests; `BeatFires`, `Beats` the
heartbeat in the same pool; `OtherStarts`, `OtherEnds` the other jobs; `Crash`, `Boot`
the process that has the scheduler.

### The item check queue

`ItemCheckQueue` takes one step per Redis command, because the code puts none of
them in a transaction: `pc[c]` is the command chunk `c` sends next, `seen` what
its ZRANGEBYSCORE returned, `hand` the items it has popped.  The five keys are
`pending`, `leased` with `expired` (the members of `processing`, and those whose
deadline has passed), `done`, `failed` and `retries`.  `StartRun` is the hourly
DAG run with `max_active_runs=1`.  A handler returns or raises; a task may die
at any command; a lease may run out at any time.  One generation is modelled,
from the moment it has been loaded.

### The services

`MCServices` runs the following side by side; a behaviour is of one of them.

| module | what it follows | actions and code |
|---|---|---|
| `BackgroundJobs` | the registry, and the pool's queue; `submit` is two steps, since the pool is called outside the lock | `Register`, `HandOver` 96-115, `Take`, `Run`, `Escape` 121-132, `Evicted` 134-145, `Shutdown` 117-119 |
| `RowSweep` | one row that stays in the table, its position and the table's length; slices are the code's quotients with `overlap` | `RunSlot` (`row_cycler.py` 45-87, `weekly_sweep.py` 94-125), `MissSlot`, `StraySlot`, `NextSweep`; `Drift` is the table |
| `Retention` | day of each object, what a purge has listed, what it removed; `rule` is which of the four | `Begin`, `Visit`, `WalkEnds`, `Remove`, `Breaks`, `Ends`; `Put`, `DayPasses` are the world |
| `HourCoverage` | the cells with documents, the answer and the grid, by two clocks | `Ask` 36-42, `Report` 186-205 |
| `RolloverFamily` | per alias: template, write index, and of each backing index its mapping of the later field, its ids and whether the policy has it; scripts as the requests they have still to send | `StartSetup`, `StartAdding`, `Send`, `Look`, `Denied`, `Fails`; `RollsOver`, `Expires`, `Ingest`, `Squat` |
| `MemberDirectory` | a stamp per document, as stored and as searches see it; per run its upserts under way and what its prune has matched | `Fetched`, `Upserts`, `NotUpserted`, `BulkEnds`, `MatchesStale`, `Deletes`, `Conflicts`, `PruneEnds`, `BreaksOff` |
| `SearchPages` | rank of each document, the hits so far, the position of the last | `Turn`, `TurnFails` 136-208; `Rewrite` is the index |
| `CollectFiles` | content behind each key, records per file, the file in each host's hand | `Fetch`, `Stores`, `StoreRaises`, `Parses`, `IndexStep`, `CountsOk`, `Killed`, `StartRun`; `sink` is which of the five |
| `UrlShortener` | mapping, cache, the step of each request | `Shorten`, `Insert`, `Duplicate`; `Follow`, `Get`, `LookUp`, `Set`, `Click`; `StoreFails`, `CacheLoses` |
| `Reindex` | the edit each index holds of each document, what the scroll has still to yield | `Open`, `Bulk`, `BulkFails`, `ReportCopied`; `SourceEdited`, `DestRollsOver` |

Notes on them:

- `Retention`: `date.today()` of a worker may be a day behind Korea, hence `Todays` for
  the generic partition purge.  Only "sem" removes the partition of the cutoff
  itself; `delete_older_than` keeps `days + 1` dates.  The image cache's window
  of 60 days under a retention of 61 is safe only while ingestion is not a day
  behind when the purge begins: that is the `lagged` of `WindowServed`.
- `HourCoverage`: a bucket lists 50 fabs at most (`TermSize`); an hour with more can
  be reported with a fab that it has (`Crowded`).
- `RolloverFamily`: the eight families differ in how many aliases share a policy, by
  what it rolls over, and in the one script that adds a field.  A second setup run
  does not get past the policy (`PUT` of an existing one is refused), whatever the
  docstrings call "create or update"; that also keeps an old checkout from
  putting back an old template.
- `SearchPages`: two documents in two indices behind an alias can share an `_id`, which
  is the tie-breaker of the sort; a page that ends between them loses the second.
  `PagedOnce` says so.
- `CollectFiles`: layouts in which two files of a fleet have one key are outside
  (`Unambiguous`); `write_bytes` is not atomic, so a file on disk may be torn by a
  kill, but it does not count as ok then.  An item that OpenSearch refuses is not
  noticed: a file may count as ok without its records.
- `UrlShortener`: `record_click` is awaited by the redirect and swallows what it raises.

## 4. The runs

| run | module and cfg | what it shows |
|---|---|---|
| `fleet_streams` | `MCFleetDownload`, `FleetStreams` | A download in either mode, with fairness. `PoolBound`: abandoned threads count. `NothingLeftQueued`, `WaitNotCharged`: who queues is neither forgotten nor charged. `SinkQuiet`: no callback after the return or the verdict. `CollectedMeansSunk`: no file is swallowed and still counted. `OneExtraFetch`: one more RETR at most after a gate closed. `CollectingKeepsBudget`. `EngineSpec`: the download is an engine. `CallReturns`: the call comes back and its threads drain. |
| `fleet_streaming_budget` | `MCFleetDownload`, `FleetStreamingBudget` | **violated**: `BudgetKept`, finding 1 |
| `fleet_deletes` | `MCFleetDelete`, `FleetDeletes` | Two hosts, up to three paths. `RemovesFromHome`, `EveryPathReported`, `OneLateRemove`, and `PromptSpec`: a delete is an engine whose caller never blocks. |
| `fleet_delete_told` | `MCFleetDelete`, `FleetDeleteTold` | **violated**: `NoRemoveOnceTold`, finding 2 |
| `lock_runs` | `MCRedisLock`, `RedisLockRuns` | Two runs, TTL 9, up to two failed renewals in a row: the second costs a live run its key, so the lock's other promises are checked in that state too. `SteadyRunHolds`, `OrphanBounded`, `OnlyOwnerDeletes`, `KeyFreed`. |
| `lock_runway` | `MCRedisLock`, `RedisLockRunway` | **violated**: `LiveRunHolds`, finding 3 |
| `item_check_chunks` | `MCItemCheckQueue`, `ItemCheckChunks` | Two chunks, two items, one task that dies and one lease that overruns. `NothingLost` without a death; `ExactlyOnePlace`, `CheckedOnceInTime` without a death or an overrun; `SettledUnlessLost` in any case. |
| `item_check_twice` | `MCItemCheckQueue`, `ItemCheckTwice` | **violated**: `CheckedOnce`, finding 4 |
| `ftp_calls` | `MCFtpCalls`, `FtpCalls` | Two calls of the single-server client, or one fleet call of two hosts with two items, each directly or over HTTP. `PromiseKept`: the client implements `FilePromise`. `CopiesAccounted`: a temporary file is gone or named, and a new copy is never lost once the old one was deleted. `SessionUsable`: a connection that is kept can be used. `ResultGenuine`: every item is reported once, and as done only if it was. `LateOnlyIfFailed`: what still happens after the caller was answered happens on hosts it was told have failed. `BackstopFirst`: with a thread per host, `host_timeout` fires before harakiri. |
| `fleet_sizes` | `FleetWork`, `FleetSizes` | **violated**: `SizeGenuine`, finding 5 |
| `services` | `MCServices`, `Services` | The scheduler: `OneSkipPerCrash`, `HealthHonest`. Polled jobs: `PollsAreTrue`. Sweeps: `RowVisited`. Purges: `WindowServed`, `PurgeExact`. Coverage: `GapsReported`. Index families: `FamilySound`. Members: `MemberKept`. Search: `PagedOnce`. Collection: `SourceStored`. Short URLs: `CodeKeepsUrl`. Reindexing: `CopiedOrCounted`. |
| `member_missed` | `MemberDirectory`, `MemberMissed` | **violated**: `MissedOnceKept`, finding 6 |

Bounds.  `fleet_streams` has three specs on two threads, the first with up to two files
and the others with up to one: the least fleet in which a host waits for a thread,
is started by whichever of the two before it ends first, and may wait behind an
abandoned one.  `HostTimeout` 1 leaves room
for an age below, at and past it, and the age is saturated there.  Two files per
spec tell a first extra RETR from a second; three paths leave two behind the one
whose probe breaks.  For the lock, TTL 9 gives an interval of 3 and, with
`MaxLag` 1, a TTL that survives one failed renewal and not two; two runs are an
owner and a rival, and what holds of any number is proved.  For the queue,
`MaxRetries` 2 has both outcomes of a failure, a batch of two an item at hand
and one behind it, two chunks every race of two commands; `MaxCrashes` and
`MaxOverruns` bound the disturbances, not the work.

For `ftp_calls`: two calls are one that is given up and the one that meets what it
left; `Depth` 2 has a level that exists and one that does not; two items are the
one whose reply is lost and the one that reads it; harakiri budgets of 1 and 2
lie at and above `HostTimeout`.  For `services`: the constants of the schedule
are scaled from the code's (`LockTtl` equal to the interval, renewals at a third,
a grace below the interval, a pool of two threads for four), four jobs for a pool of two and
`KeepLast` 2 have one queued and one to evict; four slots with churn of twice the
margin is the limit `SweepAssumption` allows; five days with `Keep` 2 and
`Window` 1 are the relation of the deployed 61 and 60; `TermSize` 1 makes two fabs a
crowd; two backing indices of an alias are enough for a stale one behind a
current one, and `LastIndex` 3 lets the first be deleted; four matches are two
pages of two, with two of one `_id`; two requests, two codes and two tries have a
collision that ends and one that does not; three documents in chunks of two are a
full chunk and a rest.

Fairness, in `FairSpec` only.  `FleetDownload`: pool threads and the calling
thread are scheduled, time passes, and each blocking call of a worker ends: the
sockets have `connect_timeout`, the callback is the caller's.  A server that
trickles bytes for ever, or a callback that never returns, is outside
`CallReturns`, and in such a case the code does wait for ever (a queued host has
no deadline).  Nothing is assumed about interrupts.  `RedisLock`: threads are
scheduled, job functions end, time passes; crashes and errors are never forced.
`ItemCheckQueue`: the DAG keeps being scheduled, tasks go on, handlers end,
leases run out; a task need not die.  The other modules state no liveness: their
code waits for nothing but a reply or the next run.

### Findings

1. **Extra budget** (`fleet_streaming_budget`).  The docstring of `_run_fleet`
   says that a started host "can't gain extra budget by finishing while we happen
   to be blocked on an earlier future" (857-860).  The caller is also blocked in
   `_FileGate.close`, behind a slow callback of an abandoned host (608, 912).  A
   later host that overruns and ends meanwhile has its result taken.  Collect
   mode is not affected: `CollectModeKeepsBudget` proves it.
2. **One removal after the report** (`fleet_delete_told`).  The comment at 786-787
   says an abandoned worker sends "no further DELE/RMD once the caller has been
   told it failed".  It sends one more if it has just read the event: the truth
   is `OneLateRemove`, proved.
3. **The runway** (`lock_runway`).  "A live run holds the lock for as long as it
   needs", and after a failed renewal "there is still `ttl` of runway left"
   (`extension.py` 326-327, 347-348).  Two thirds are left after one failure, one
   third after two, and then the next attempt is late.  The truth is
   `SteadyRunHolds`, proved: the key is kept while `(fails + 1) * Gap < Ttl`.
4. **Checked twice** (`item_check_twice`).  Each item is to be checked once.
   `reclaim_expired` pushes back what it read as expired (163, 168), even when the
   chunk that works on the item has marked it done in between.
5. **Another file's size** (`fleet_sizes`).  "``total_bytes`` only sums files that
   were actually measured" (`fleet_downloader.py` 478-480), and a listing that fails
   "doesn't sink the fixed-path fetches" (1172-1173).  A listing that breaks on its
   data connection leaves its 226 unread, and each SIZE that follows takes the
   reply to the command before it.
6. **Pruned after one miss** (`member_missed`).  "A transient miss never deletes
   anyone" (`member_info_ingest.py` 190-194).  The prune compares stamps with the
   clock: after a pause longer than `stale_after`, the first roster that lacks
   one member deletes that member.  The truth is `MemberKept`, proved.

Smaller remarks, met while modelling and not runs of their own:

- The comment at `extension.py:422` gives an orphaned key `ttl` to live; a renewal
  already on its way when the release fails can re-arm it once, hence
  `Ttl + MaxLag` in `OrphanBounded`.
- A chunk that dies between LPOP and ZADD loses its batch: the repository's own
  journal describes this window
  (`airflow_mgmt/docs/journals/2026-05-20-item-check-robustness-review.md` 46-56),
  so `NothingLost` is stated for the time before any task has died.
- "A crash costs exactly one run" (`schedule.py` 122): true of the scheduler's own
  run, since a boot computes the next fire anew; the death of a worker with a
  run dispatched by hand can cost two (`OneSkipPerCrash`).
- `has_full_hourly_coverage` (`meas_hist_cdsem_coverage.py` 52-87) counts the buckets of
  a histogram that names no `min_doc_count`; its default, 0, also gives buckets for
  empty hours between populated ones.  No job calls it.
- Ids are unique in an index, not behind an alias: a record ingested again after
  a rollover is stored twice, though `sharpness_monitor_cdsem.py` 62-67,
  `network_fdc_cdsem.py` 42-44 and `beam_reso_cdsem.py` 65-67 rely on the id; so is a
  document of a reindex that is repeated after one (`ops_index_mgmt/README.md` 334).
- A LIST line that cannot be decoded leaves the client's session inside the
  transfer (`client.py` 362-366): the exception in `SessionUsable`.
- An object rewritten between the listing of the age purge and its removal is
  deleted with its new content (`PurgeExact` allows for it).  Objects whose
  partition cannot be parsed are never purged.
- The heartbeat shares the default pool of four threads with the jobs: a live
  scheduler whose pool is full stops beating (`HealthHonest` allows for it).
- `url_shortner/DESIGN.md` 56 says that click logging never blocks the redirect; it
  is awaited (`app.py` 69-75).  A failing Redis makes a redirect a 500 though MongoDB
  has the URL, and an insert whose reply is lost leaves its alias taken.

## 5. The proofs

All theorems hold for every value of the constants that meets the assumptions
named in the modules: types, positive pool size, TTL and batch size, finitely
many items and chunks; in the services also `Churn <= 2 * Overlap`
(`SweepAssumption`), `Flight < StaleAfter` (`MemberAssumption`), and that no image is
called `cond` (`CollectAssumption`), without which a sidecar's key is another
image's, that the empty URL, which the route refuses, is none of `Urls`
(`ShortenerAssumption`), and, for the scheduler, `LockTtl <= Every`, `Grace < Every` and
`BeatEvery < BeatTtl` (`ScheduleAssumption`).

`FleetEngineProofs`.  `EngineInv` adds to the types that the verdicts are given in
order up to `cursor`, that the workers start in order, and that a timeout is
recorded only for a worker that ran for `HostTimeout`.  The pool bound is a
lemma on cardinalities over it.  `PromptKeepsBudget` needs `BudgetInv`,
an invariant of `PromptSpec`: the pool starts workers in order, so none behind the
cursor is older than the one at it, and that one is looked at in time.

`FleetDownloadProofs`.  Every step of a download is a step of the engine or leaves
its variables alone (`DownloadImplementsEngine`), which carries `EngineInv` over.
`GateInv` is the inductive part: a closed gate has no callback behind it; a gate
is closed for a reason (a timeout verdict, or the `finally` clause has passed
it); a worker whose gate is open has appended only what was sunk.  `SinkIsQuiet`,
`CollectedIsSunk` and `AtMostOneExtraFetch` follow.  `CollectModeKeepsBudget`
shows that a collecting download is a prompt engine.

`FleetDeleteProofs`.  The same for a delete, with a prompt engine throughout:
`OnlyRemovesFromHome`, `ReportIsComplete` and `AtMostOneLateRemove`.

`RedisLockProofs`.  `IInv` joins the types, `KeyAlive`, `Lifecycle` (no watchdog
without a run, none waiting once stopped) and `OrphanInv` (how long a key has
been an orphan, against how late the renewal on its way is).  `HeldInv` is an
account of time: while a run is steady, what is left of its key's TTL, its failed
attempts and its current wait add up to at least the TTL.
`SteadyRunKeepsLock` follows, `LockExcludes` from it, and `LiveRunKeepsLock`: if
`(MaxFails + 1) * Gap < Ttl` the docstring's promise holds as it stands.

`ItemCheckQueueProofs`.  `NoTaskNoLoss` is proved over the types by showing for each
command that what it takes out of one key is in the chunk's `Window` until it is
in the next, for any number of chunks and any overruns.  `OnceInv` is what holds as
long as no task died and no lease was overrun: nothing has expired, the lists repeat
nothing, and `OneFate` says of an item at each place what the other keys and its
count of checks are there.  `OnceChunk` carries it over the commands of a chunk;
`OnePlace` then counts the places (`ItemsInOnePlace`, `ItemsCheckedOnce`).

`ServiceProofs`.  `SweepInv` says where the row is that has not been visited: ahead of
the next slice's lower bound less the margin.  A slice moves the bound past it
only by taking it (`SliceTakes`), and between two runs the row and the bound can
come no nearer than two margins (`BoundShift`, `DriftBounded`); at the last slot the
bound is the table's length.  `CodesAreKept` rests on `LinkInv`: a mapping, once
written, stays; a cached entry, a URL in a request's hand and everything given
agree with it.  `CrashCostsOneRun` rests on `SkipInv`: after the last skip a crash may
cost, no fire is left before the key runs out, because what is left of its TTL and
the time since the last fire come to `LockTtl` at most, which is at most `Every`.
`HealthIsHonest` rests on `BeatInv`: in a steady stretch the heartbeat key is as old as
the heartbeat's last fire.  `EveryDocumentCounts` rests on `CopyInv`: what a run has
seen is unread, failed or accepted, the write index is the last that holds
anything, and the newest copy of what was accepted is as the scroll had it.
`PollsAreHonest` rests on `RegistryInv`: the ages of submitted jobs differ, and the
queue holds each queued job once; that evicting the oldest leaves `KeepLast` is an
injection of those evicted into their ranks (`OldestCounted`).

`StoreProofs`.  Six small services.  `AnswerInv`: the answer is a subset of the
truth, all of it for an hour that is closed and not crowded, and the report is the
grid less the answer (`GapsAreReported`).  `RetentionInv`: what a purge has listed,
removed and swept had expired by its cutoff or was touched, and no cutoff reaches into
the window while ingestion keeps up (`WindowIsServed`, `PurgeIsExact`).  `MemberInv`
adds to the types that no stamp under way is older than `Flight`, that what is stored is
the last stamp or later, and that a prune's cutoff lies `StaleAfter` back
(`MembersAreKept`).  `FamilyInv` holds what a script has done already: a setup past
the policy is the only one and nobody has returned before it, a script that adds
a field is of the second release and changes templates before live indices, and a
write index is managed since it exists (`FamiliesAreSound`).

In the same module, `PageInv` is the account of a search between two pages: the hits
are sorted by the position they were found at, what stayed as it was is found where
it is, and everything up to `after` has been found, or something at its position.
That a page is the first of what lies beyond `after` is a fact about ranks: the
number of documents before each (`Place`) is injective, so that it takes every value
below their number (`PlaceTaken`, by counting), and position and rank agree
(`PlaceOrder`, `PageFacts`).  `TurnKeeps` is the page that is cut to `max_rows`
(`HitsArePagedOnce`).  For collected files, `KeysDiffer` is the case analysis of the
layouts; `CarriedInv` follows a file in a worker's hand: it is of the worker's own
host, is not counted as ok yet, and has been stored once its steps are past the
store.  `StepKeeps` is the step of one worker with the others left alone; all
actions reduce to it (`SourceIsStored`).

`FtpCallsProofs`, the single-server client.  `ClientInv` has five parts for each call:
which operation sends a command (`OpSends`), where its temporary file is (`TempKept`),
what its outcome says of the file (`ErrTells`), where its session is (`SessionStays`) and
that its caller is told how it ended or has given it up (`ToldTruly`); and two for all
of them, that the caller waits for one call at most (`OneAwaited`) and that nobody
stores between `put`'s last look and its rename, unless a call was given up
(`PutAlone`).  For each command with an effect one lemma says what the step does,
with the ends of the command already combined (`StorDoes`, `RenameDoes`, ...), and a
second that it keeps the call's part; `Discreet` is what a step may change for others.
The refinement (`ClientKeepsPromise`) takes from the invariant that only a call without
a final outcome takes steps, that every step's effect on the file is one that
`FilePromise` has (`Effect`, `ActsOnFile`), and that what it tells is true of the
file after it (`Word`, `ActsSay`).

The fleet calls.  Every step of the call, of its request and of its process is one of
the engine or none (`WorkImplementsEngine`).  `WorkInv` adds to `EngineInv` that a
worker has settled exactly the items before the one in hand and is in the login
directory while it makes one (`ItemsSettled`), that a result or an error is the end of
its thread (`VerdictAtEnd`), that a report is heard only of a call at its end
(`HeardAtEnd`), and for `BackstopComesFirst` that with a thread for every host the
running workers are as old as the request (`ServedInStep`): while a host is queued the
pool is not full and no time passes, by counting, and past `host_timeout` the
caller is waiting for nobody (`TimeInStep`).

Only model-checked: the liveness properties (`CallReturns`, `KeyFreed`,
`SettledUnlessLost`), which are beyond the prover.  Every invariant and every action
property of the passing runs is proved.

## 6. What is not modelled

- File contents, paths and listings, wording of failures, logging; how ftplib
  parses replies, and replies that decode but are malformed; a second Ctrl-C
  while a `finally` clause runs; errors of a reply's shape that `pool.map` raises in
  the proxy's client; `rmdir`, which is `remove` with another command.
- A fleet that names one file in two specs; the download and delete routes of the
  proxy composed with HTTP (the engine under them is the same).
- Reloading a generation of items while a run works on it: a load mints a fresh
  label, and the code that would reuse one is not in the repository.
- Redis failover; retries inside the OpenSearch and MinIO clients, which look like
  one request that takes longer.
- The task log, best effort by design: a capped list that nothing depends on.
- `reap_orphan_jobs` and the dashboard of `schedule.py`; `timegaps.py` and
  `has_full_hourly_coverage`, which no job calls.
- `recipe_log_collector`, whose path pattern is still a placeholder; `member_info`'s
  setup, dry runs, and the bodies of mappings and templates; live writers of a
  reindexing destination, which a repeated run overwrites.
- Diagnostics DAGs and templates, configuration, and the single requests of the
  MinIO and OpenSearch facades, which keep no state.
