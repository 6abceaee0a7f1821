# redo: a TLA+ model

This directory models the build engine of this repository: an implementation of
`redo`, a build tool whose rules are scripts (`x.do` builds `x`) that call redo
commands themselves.  A build is a tree of processes that share a token pipe, a
lock file and an sqlite database, so almost everything that can go wrong needs
several processes, in an order no test fixes.

## 1. Inventory

| component | code | state | operations |
|---|---|---|---|
| jobserver | `redo_core/src/jobserver.rs` | token pipe, cheat pipe, `MYTOKENS`, `CHEATS`, `TOPLEVEL`, `WAITFDS` | `setup`, `ensure_token_or_cheat`, `start`, `wait`, `wait_all`, `release_mine` |
| target scheduler | `redo_core/src/builder.rs` | `locked`, `pool_blocked`, `rc_flag`, pending jobs | `run_redo`, `run_ifchange` (two passes), `build_one`, `schedule_build_one`, done callbacks |
| target locks, cycles | `state.rs` (`Lock`), `cycles.rs` | fcntl byte locks per file id, `REDO_CYCLES` | `new`, `check`, `trylock`, `waitlock`, `unlock`, drop, process exit |
| job pools | `builder.rs` | fcntl locks on slot ids | `try_acquire_pool`, release in the callback |
| redo-unlocked | `bins/src/redo_unlocked.rs` | `REDO_NO_OOB`, `REDO_UNLOCKED` | build checksummed dependencies, then the target under the caller's lock |
| build state | `state.rs` (`File`, transactions) | tables Files and Deps, runid | `set_checked/changed/failed/static/override`, `update_stamp`, `add_dep`, `zap_deps1/2`, `save`, `commit` |
| dirtiness | `deps.rs` | the preflight set | `isdirty`, `isdirty_readonly` |
| dependency commands | `redo_ifchange.rs`, `redo_stamp.rs`, `redo_always.rs`, `redo_ifcreate.rs` | rows of the database | record dependencies, checksums |
| action cache | `action_cache.rs` | a blob and a meta file per key | lookup, materialize, store, gc |
| remote cache client | `remote_cache.rs` | none of its own | GET and PUT of blobs and mappings, verified downloads |
| cache server | `bins/src/redo_cache_server.rs` | blobs by digest, action files; a thread per connection | GET, PUT, `POST /v1/exec` |
| remote execution | `redo_remote_exec.rs`, `remote_exec.rs` | remote-ok flag, deps.out0 | upload inputs, run on the server, fetch deps, trace, manifest and output |
| logs | `logs.rs`, `redo_log.rs`, log reader of `redo.rs` and `redo_ifchange.rs` | log files, the toplevel pipe, log lock | write, follow, render |
| strict reads | `redo_trace.rs`, `builder.rs` | trace files | trace, evaluate |
| do-file search | `paths.rs` | none | candidates of a target |
| front ends | `redo.rs`, `redo_browse.rs`, `redo_ood.rs`, ... | none of their own | options, listing |

**How they interact.**  `run_redo` and `run_ifchange` ask the jobserver for a
token, lock a target, ask `isdirty` about it and fork a job through
`jobserver::start`.  The job is a script; the redo commands in it are new
processes that inherit the pipe, the lock file and `REDO_*` variables.  `wait`
sees end of file on a job's completion pipe when the job and everything below it
has exited, creates the job's token again and runs the done callback, which
records the result and unlocks.  A target that is locked by somebody else or
finds its pool full is put on a list and dealt with in the second pass.  A
target whose only dirty dependencies have a checksum is handed, lock and all, to
`redo-unlocked`.  `redo-log` holds a log lock, which lets the process it follows
go on without a token ("cheating"); it reads the log files while scripts write
them, and tries the locks of targets to learn whether they are over.  Before it
forks, `schedule_build_one` asks the local action cache and then the server;
with remote execution on, the job is `redo-remote-exec`, whose results the done
callback picks up from files; afterwards the output is stored and pushed.

**What is hard.**  Tokens: they move between a pipe, counters in many processes
and jobs in flight, with a debt (`CHEATS`) on the side.  Waiting: on a token, a
lock, a slot, a job, each held by somebody who may wait too.  Stale verdicts: a
target is looked at, waited for and must be looked at again.  Failure: of a
script in another process, of one job among several, of a command that returns
while its jobs run.  Crashes between renaming a target and recording it.
Networks: a request that is cut short, refused, answered too late or applied
after its client gave up.  Files that several processes write, read and remove
without a lock: the two files of a cache entry, the server's store, the logs.

**What makes a component correct.**
* jobserver: tokens are neither created nor lost; at most `-j` processes work;
  the final self-check holds; nobody waits for ever.
* scheduler and locks: a target is never built twice at once, nor twice in a run
  unless forced; what is recorded as built was built from built dependencies;
  success means everything asked for is built; cycles fail; the run ends.
* pools: at most `depth` scripts of a pool run.
* build state and dirtiness: a target said to be clean is up to date; a crash
  never makes a later run take a stale target for clean, or a target for a source.
* caches: a hit is the output of the same action; no failure of a cache fails a
  build; the local cache stays within its limit; an action's manifest never
  changes once it is stored.
* cache server: what is stored under a digest has that digest, and an answer is
  true, whatever other threads do.
* remote execution: what is reported as built was made from the workspace's
  source and has its dependencies recorded; a failure falls back to a local run
  or is reported.
* redo-log: it prints logs in order, nothing twice and nothing mixed; neither it
  nor the build waits for the other for ever.

`PROJECT.json` lists the hazards line by line, with the properties that cover
them.

## 2. Modules

| module | what it is |
|---|---|
| `TokenPool` | abstract: a pool of `Limit` permits |
| `Jobserver` | the jobserver, driven by the loops of `builder.rs`, targets abstracted |
| `MCJobserver` | its TLC instances |
| `Jobserver_proofs` | theorems about `Jobserver` |
| `Scheduler` | locks, tokens, slots and cycles for a given dependency graph |
| `MCScheduler` | dependency graphs for TLC |
| `Scheduler_proofs` | theorems about locks, slots and the tree of processes |
| `SchedulerResults_proofs` | theorems about results (success, failure, cycles), about tokens, about the order of builds on graphs without cycles, and about waits for an ancestor |
| `BuildState` | files, database, scripts and local cache over several runs, one process at a time |
| `MCBuildState` | small source trees for TLC |
| `BuildState_proofs` | theorems about rows and about whose a target is |
| `CacheService` | abstract: a store whose requests take effect at one moment |
| `CacheServer` | the threads of `redo-cache-server` among any clients |
| `CacheServer_proofs` | theorems about `CacheServer` |
| `RemoteBuild` | workspaces composed with the server: local cache, remote cache, remote execution |
| `MCRemoteBuild` | its TLC instances |
| `RemoteBuild_proofs` | theorems about the composition |
| `ActionCache`, `MCActionCache` | the local cache file by file, several processes |
| `ActionCache_proofs` | theorems about `ActionCache` |
| `LogFollow`, `MCLogFollow` | a build that writes logs and a redo-log that reads them |
| `LogFollow_proofs` | theorems about what redo-log prints |

The first three models cut the build engine along its concurrency.  `Jobserver` has any
number of processes and no targets, `Scheduler` has targets, locks and one
verdict per target and run, `BuildState` has everything a verdict is made from
and no parallelism.  The seam between the last two is the verdict: `Scheduler`'s
`Verdict` allows what `BuildState`'s `IsDirty` can answer for a target that is
out of date at the start of the run.  The caches and the logs are models of
their own, tied to the engine by the lock of a target: `RemoteBuild` has what
one locked target does with the server, `ActionCache` what processes that hold
different locks do to one cache directory, `LogFollow` what redo-log makes of
locks and logs.

### Jobserver
A process of `Proc` is the toplevel command or a job together with the redo
command its script is running.  `pipe`, `mytokens`, `cheats` are the code's
counters, per process where the code has a static; `parent` is the entry in the
parent's `WAITFDS`; `line` says whose completion pipes a process keeps open
(every descendant inherits them, which is what makes `wait` wait for orphans).
`pc` names the place in the command: `next` (top of a loop), `ensure`/`self` (in
`ensure_token_or_cheat`), `try` (a token is there and a target is in hand),
`blocked` (on a lock or a slot, without a token), `waitall`, and `dep`/`depwait`
for the missing-dependency `build_one` inside `schedule_build_one`, which has
places of its own for asking for a token and waiting for a slot (`depensure`,
`depblocked`), because its calls of `ensure_token_or_cheat` pass `|| 0`.

Each way a target can go is an action: `Skip` (clean, source, cache hit, no
rule), `PushLocked`, `DeferPool`, `LockWait`, `Start`, `StartDep`,
`BuildPoolWait`.  `Cheat` needs `p \in Logged` and one of `run_ifchange`'s own
calls of `ensure_token_or_cheat`; `EarlyReturn` (codes 204, 205,
208 and errors passed on by `?`) needs `p \in Failing`.  With both sets empty
the system is called `Reliable` in the proofs.  `SelfCheck` is the end of
`wait_all` in the process with `TOPLEVEL > 0`.  The cheat pipe is not a
variable: its only writer, `force_return_tokens`, is called from nowhere.

Bounds: `MaxTargets` targets of one command and `MaxCalls` commands of one
script.  When `Proc` is used up, `QuickJob` lets a job end at once, so no target
is lost because of the bound.

### Scheduler
Here the graph is concrete.  `Graphs` gives each instance a name; `graph` is
chosen by `Init` and never changes, so that one run covers several instances.
`Roots` are the arguments of the toplevel command, `Args[t]` is what `t.do` asks
for, `UsesRedo` the scripts that ask with `redo`, `OobDeps` the dependencies with
a checksum, `Pooled`/`Depth` a pool, `Flaky` the scripts that may fail,
`KeepGoing` and `MaxJobs` the options `-k` and `-j`.  A process is named
by its path in the tree.  `owner` and `slot` are the fcntl locks (`slot` is the
set of pairs of a process and the target it holds a slot for); they are
dropped when their process exits.  `st` is what the database says of a target in
this run.  `FirstPass`, `LoopHead`, `SecondPassLocked`, `SecondPassBlocked`,
`LockWaitDone`, `GiveUpLock` and `Relock` are the two passes of `run_ifchange`;
`BuildLock`, `BuildPool`, `BuildStart`, `BuildDone` are `build_one`; `SpawnNext` and `Spawn` are
`run_redo` under `-j` (the flag that a job failed is read before the wait for a
token, so one more job may start after a failure reaped during that wait); `OobJob`, `OobSecond`, `BuildUnlocked` are
`redo-unlocked`.  `Reap` handles all the jobs one `select` reports, as `wait`
does.  Every target is out of date when the run starts; `Verdict` is what
`isdirty` can then answer.  A target with checksummed dependencies may turn out
clean once they are built (their checksum may not have changed), which is a
nondeterministic choice.  Cheating is left to `Jobserver`.
`SchedulerAssumption` says what is assumed of a graph: the roots are distinct
(two jobs of one command for one target would have the same path), and so are
the arguments of a redo-ifchange, which drops repetitions.

A command that meets a cyclic dependency returns at once, and its locks and
slots go with it while its jobs run on (`CycleFound`).  The scripts below such a
command are orphans that nothing protects any more; `MutualExclusion` and
`PoolLimit` therefore speak of the scripts that are `Attended`, all of whose
ancestors are alive.

### BuildState
`fs` is the file system (existence, mtime, inode, contents), `row` and `dep` are
the tables Files and Deps as the open connection sees them, `saved` what is
committed of them, `run` the runid, `cache` the local action cache.  `stack` is
the tree of processes under `-j1`: a line, of which the last one moves.  A frame
is a command (`ifchange`, `redo`, or `unlocked`: redo-ifchange with
`REDO_UNLOCKED`), a `redo-unlocked` process (`oob`) or the build of one target
(`job`), with the row `sf` that the build read at its start.

| code | in the model |
|---|---|
| `File::set_*`, `update_stamp`, `from_row`, `add_dep`, `zap_deps1/2`, `deps` | operators of the same names |
| `write`, `commit`, `Drop` of the process | `NoCommit`, `Commit`, `Crash` |
| `isdirty`, `isdirty_default` | `IsDirty`, `IsDirtyDefault`: verdict, checksummed files to build first, files found clean, files found with another stamp; `Scanned`: the rows saved on the way |
| `run_ifchange`, `run_redo` loops | `Ifchange`, `Redo`, `CommandEnd` |
| `schedule_build_one`, `build_one` | `Begin` (override, static, intent), `Find`, `Want`, `Lookup`, `HitRecord`, `Exec`, `Rename`, `Record`, `RecordFailure` |
| commands in a script | `OpIfchange`, `OpIfcreate`, `OpAlways`, `OpStamp`; `OpRead` is the script reading |
| `redo-unlocked` | `OobDeps`, `OobSelf`, `OobEnd` |

`schedule_build_one` and `build_one` are one sequence of actions; `via` tells
them apart where they differ (the cache is only asked by the first, the old
target is only removed after a failed copy by the second).

`Trees` gives each instance a name, and `tree` is chosen by `Init`: the files,
the scripts, which of them the user may touch, and the options `CacheOn`,
`EditsInRun`, `Crashes`, `LostRecord` and `KeepGoing`.

A script is a list of commands, chosen by the contents of its `.do` file.  Its
output is the set of pairs (file, contents read), so a stale input at any depth
makes a different output; a checksummed script keeps half of what it reads, so
that it may give the same output for different inputs.  The user (`EditSource`,
`EditTarget`, `TouchInode`, `ChangeWorld`) acts between runs, and on sources
also during them if `EditsInRun`.  `Crash` kills everything and loses the open
transaction.

`Fresh[f]` is the reference: what a build from nothing gives for the sources as
they are.  `sure`, `quiet`, `built`, `manual` and `adopted` are history variables
for the properties.  `manual` are the targets the user wrote, `adopted` those that
redo made a source of because they exist and no `.do` file for them is left
(`set_static` in `Find`); both end when the file is written anew, by a build or a
cache hit, or removed.  Redo may treat a file as the user's, and `Fresh` takes it
as it is, if it is in one of the two.

Abstractions: the rows of `deps()` come in rowid order, which is a constant;
every write has a fresh mtime; a crash takes the whole tree of processes;
renaming and materializing do not fail; there are no symbolic links and no
directories; recording a dependency never creates a cycle.

### CacheServer, CacheService and RemoteBuild
`CacheServer` has `file[b]` (what the file named by digest `b` holds), `actions[k]`
(the mapping of a key) and one thread per connection, whose `pc` follows
`handle_put_blob`, `handle_put_action` and `handle_post_exec` from the request to
the answer.  A digest stands for the content it is the digest of; `Bad` is any
other content.  The check that a file exists and the rename are separate steps,
as in the code.  `Abort` is every `?` of a handler, `Abandon` a client that gives
up (the thread goes on), `Crash` kills all threads and keeps the files, `Rot`
corrupts a stored blob; with `CopyFails` the copies of the inputs of a remote run
are not what was uploaded, which `handle_post_exec` does not notice.  `Refuse`
answers 403 from a read-only server and 404 where a remote run cannot be had, for
500 and 501 too: clients treat everything but 200 alike.  `ServerNext` is the server among any clients; the proofs
are about it.

`CacheService` is what a client may rely on: a request takes effect at one
moment or not at all, and its answer tells which.  It says nothing of keeping a
mapping, because the server does not (`cache_mapping`).

`RemoteBuild` extends `CacheServer` with workspaces that build one target from
one source `src`.  `cl[c].pc` is the place in `schedule_build_one` or in
`redo-remote-exec`:

| code | in the model |
|---|---|
| local lookup, remote lookup | `LookupLocal`; `GetAction`, `GetManifest`, `GetOutput` |
| `remote_exec_wanted` | `StartJob` |
| `redo-remote-exec`: upload, POST, deps, trace and flag, manifest, output | `Upload`, `Post`, `GetDeps`, `GetTrace`, `FetchManifest`, `FetchOutput` |
| the script, here or on the server | `Script`, `RunRemotely` |
| the done callback with `read_deps_out0`; store and push | `Finish`; `Push` |

A PUT or POST is a connection to a server thread (`Send`, `Answered200`,
`Refused`, `Timeout`, `NoConnection`); a GET is one read (`Served`, `Mapped`) that
may always fail.  An output is the source it was made from and a tag, so that
scripts need not be deterministic.  The remote key is the policy (workspaces with
remote execution and those without never share one) and the contents of the
recorded dependencies; the local key is over their stamps, and an edit gives a
new stamp.  A remote run uploads the `.do` file always, and `src` where it is
recorded.  A failed remote build leaves its flag and the fetched deps file behind
(`Fail`), and the next build removes them before anything else (`Start`), as the
code does.  `Setups` names what the instances differ in.
Left out: inputs corrupted on the server's disk (`BuildAssumption`; the server
does not verify them), strict evaluation of traces, more than one input.

### ActionCache
`blob[k]` and `meta[k]` are the two files of an entry, each with the output they
hold or speak of; `proc` follows `lookup`, `materialize`, `store`,
`write_blob_from_file_atomically`, `write_meta_atomically`, `collect_objects` and
`maybe_gc`, one file operation a step.  A process that builds holds its target's
lock (`held`); after a remote hit it stores without it (`Pull`).  `Fault` bounds
kills and failing renames; `torn` and `killed` are history variables.  The order
of eviction (oldest first) is left open.

### LogFollow
`ask[p][c]` is where the redo-ifchange in `p`'s script is with its target `c`:
first pass, put off, waiting, deferred by a pool, forked, over.  `log[p]` are all
log files `p` ever had, the last one under its name; the toplevel command's is
the pipe, which holds `setup.pipe` lines.  `known` are the targets whose row
others can see: a script's redo-ifchange commits its targets before anything
else, the toplevel command commits a new one after its "do" line (`Record`), and
redo-log ends with code 24 on a target without a row (`NotKnown`); a toplevel
command whose reader is gone writes into nothing.  The parent goes on after
`Fork`; the job itself renames its log into place (`ExecDofile`).  `reader.stack` is the recursion of
`catlog`; a frame keeps its own open file.  Reading to the end, asking for the
lock (`IsLocked`) and giving it back (`NotLocked`) are separate steps, and the
lock redo-log holds meanwhile is a lock like any other.  A setup names the
scripts, the mode of redo-log and the logs of an earlier build (`old`), which
`Init` puts there or not.  `NoLoss` follows the scripts of this build, and the
old log where a target was not built again, to any depth; it stops at a target
without a log, since `catlog` does (a cache hit never had one).  Scripts succeed; lines
are written and read whole; repeated "waiting" lines are one; rendering is left
out; the log lock is in `Jobserver`.

## 3. Runs

| run | instance | checks |
|---|---|---|
| `jobserver` | 4 processes, `-j2`, 2 targets per command | `TypeOK`, `TokenConservation`, `WorkBound`, `DebtOnlyWhenAlone`, `AccountingHolds`, `ImplementsPool` (refinement of `TokenPool`) |
| `jobserver_faults` | fair; 3 processes with cheats and early returns | `Termination` (a wrong count ends the build with an error, it does not hang it), `NoTokenLost` |
| `scheduler` | fair; the graphs `shared`, `crossed`, `stamp`, `cyclic`, `self` | `TypeOK`, `MutualExclusion`, `DepsFirst`, `SuccessMeansBuilt`, `PoolLimit`, `NoHoldAndWait`, `NoAncestorWait`, `CyclesFail`, `BuiltOnce`, `Termination` |
| `scheduler_tokens` | a chain whose links are all given to `redo -j2` | violates `Termination` |
| `build_plain` | the regimes `edit`, `crash`, `live`, `cache` | `TypeOK`, `UpToDate`, `NotMistaken`, `NothingTwice`, `HandWorkKept` |
| `build_stamp` | a phony target over a target over two checksummed ones, one with redo-always; keep-going | `UpToDate`, `NotMistaken`, `NothingTwice`, `ChecksumStops` |
| `build_crash_window` | a crash between rename and commit of a rebuild | violates `NotMistaken` |
| `build_cache_deep` | cache on, `r` asks for `d`, `d` for `s` | violates `UpToDate` |
| `remote_build` | fair; the situations `Race`, `Pull`, `Alone`, `Faulty`, `Lossy`, `Cut`: two workspaces, two connections | `TypeOK`, `BlobIntegrity`, `OutputOfSource`, `DepsRecorded`, `CacheFallsBack`, `ImplementsService` (refinement of `CacheService`), `BuildsEnd` |
| `cache_mapping` | `Race` | violates `MappingKept` |
| `action_cache` | two processes, two targets; `Local`, `Shared`, `Edited` with and without a limit | `TypeOK`, `HitOfKey`, `GcBound` |
| `log_follow` | fair; `Pipe`, `Cat`, `Follow` | `ShownInOrder`, `NoLoss`, `BothEnd` |

The graphs of `scheduler`: `shared` has two roots that share targets, redo and
redo-ifchange mixed, failing scripts and a pool of one slot; `crossed` has three
roots under `-j3` that ask for two pooled targets in different orders, with
keep-going; in `stamp` two roots need a target with a checksummed dependency, so
that redo-unlocked builds under its caller's lock; `cyclic` has cycles through
redo and redo-ifchange below one root; in `self` a script starts a job and then
asks for its own target, so that the job is orphaned while another root wants
the same target.  `CyclesFail` speaks of every set of targets each of which
needs another of the set.

The regimes of `build_plain`: in `edit`, `crash` and `live` the target `r` asks
for `d` or `s`, and `d` has two possible `.do` files; between runs the user edits
sources and scripts (in `edit` the user also removes scripts, so that a target has
none left), overwrites and touches targets, and scripts fail (`edit`), a
run may be killed at any step but one (`crash`), or sources are edited while a
run reads them (`live`).  In `cache` the action cache is on and `r` asks for `d`
and `s`.

The situations of `remote_build`: in `Race` two workspaces with the same source
build, push and pull at the same time and their scripts differ; in `Pull` one
builds and pushes while the other, perhaps with another source, pulls, the server
may be killed and a blob corrupted; in `Alone` one workspace with remote
execution builds, edits and builds again with every kind of server (read-only,
without exec).  The others are one remote build with or without recorded
dependencies: in `Faulty` the server may be killed and a blob corrupted, in
`Lossy` the deps file or the flag may get lost, in `Cut` the server's copies of
the inputs may fail.

The situations of `log_follow`: in `Pipe` and `Cat` a toplevel command builds two
targets at once that share a third, one of them perhaps a cache hit, read by the
filter or by `redo-log -ru` at any time; `Follow` is `redo-log -rf` on a target
with a pooled dependency, started before, during or after the build, with or
without old logs.  The pipe of `Pipe` holds two lines: it does fill, and the
toplevel command does block on it, but only with a "done", whose target is
unlocked by then.  The pipe of `Narrow` holds one, and there the command and
redo-log do wait for each other: `BothEnd` says that this is the only way in which
they do not end, and that it needs a pipe without room for a "do" and a "done" of
each target of the command but one.

`UpToDate` is the soundness of `isdirty` (success means as good as a build from
nothing), `NothingTwice` its counterpart (what is up to date is not built
again), `ChecksumStops` what redo-stamp is for.  `NotMistaken` and
`HandWorkKept` are the two sides of override detection.  `OutputOfSource` is
`UpToDate` for everything that comes over the network, `DepsRecorded` what makes
the next `UpToDate` possible.

**Why the bounds are enough.**  In `Jobserver` four processes give a toplevel
command two live jobs and a grandchild, more workers than tokens, so every
competition for a token (parent and child, siblings, a job and its reaping
parent) happens; a second command of a script would only repeat `MYTOKENS = 1`.
The theorems below cover every size.  In `Scheduler` five targets with two or
three roots give every pair of roles at a lock: holder and waiter in the same
tree and in different ones, first and second pass, redo and redo-ifchange, with
fewer tokens than commands.  In `BuildState` three runs and two edits between
them give build, change, rebuild, change, verdict; two contents of a source
(three where checksums may collide) distinguish old from new; every constellation of
the row's fields that needs a longer history passes through a run that resets
them.  In `RemoteBuild` two connections give every race of two requests (the
theorems cover more), two tags two outputs for one key, one crash and one
corrupted blob a fault at every step.  In `ActionCache` two processes and four
builds let a store, a lookup and a collection of the same key overlap, with
outputs of which two fill the cache.  In `LogFollow` two parents and a shared
dependency give every order of lines that name one target; pipes of one and two
lines are on the two sides of what two targets need.

**Fairness.**  Every process keeps running (weak fairness of its next step): the
kernel schedules it, and scripts are assumed to end.  Strong fairness is assumed
where the code polls with a growing sleep, and holds nothing meanwhile: reading
a token against a command that polls for a pool slot, and the two last steps
(token, trylock) of a command whose lock was free when it last looked, against
another waiter's short hold of that lock.  In `Jobserver`, where locks and slots
are not variables, strong fairness of `Skip` says that a target that is retried
for ever is dealt with in the end; `Scheduler` shows why that is so.
In `RemoteBuild` only a workspace that is building is assumed to go on; nothing
is asked of the server, since every stream has a timeout (`open_stream`).  In
`LogFollow` the commands and redo-log go on and `FOLLOW_START_GRACE` passes.

**Findings.**  The four violating runs are real disagreements between the code
and what its comments or tests say.
* `scheduler_tokens`: `build_one` waits for a lock with its token in hand, and
  enough of them hang the build.
* `build_crash_window`: killed between the rename and the commit of a rebuild,
  redo later says of its own output "you modified it; skipping", for ever.  The
  repository's test of this window covers a first build only.
* `build_cache_deep`: the cache key uses the stamp of a dependency that is out of
  date itself, so a change two levels down is a false hit.
* `cache_mapping`: two PUTs of one key that both find no file both succeed, and
  the second replaces the first mapping; `rename` does not fail when the file is
  there, so the branch "first writer won; enforce immutability" is not entered.

The passing runs exclude what is known to go wrong, and no more.  Each of these
was found by TLC with the instance named, and is among the hazards:
* `AccountingHolds` with cheats (`Logged`): a job that cheats and exits with the
  debt unpaid leaves a token too many, since `force_return_tokens` is never called;
* `AccountingHolds` with early returns (`Failing`): orphaned jobs lose their tokens;
* `NoAncestorWait` on `LoopGraph`: jobs started as `redo-unlocked` do not extend
  `REDO_CYCLES`, so a cycle through one hangs on an ancestor's lock;
* `UpToDate` on `CrashSumTrees`: redo-stamp commits the new checksum before there
  is a new file; killed in between, redo takes the old file for clean;
* `UpToDate` with an edit during a run and the cache on: the key for storing is
  computed after the script ran, so the old output is stored under the new key
  (`builder.rs:1458`);
* `UpToDate` with a checksummed target overwritten by hand, then removed and
  regenerated: `set_override` keeps the checksum, so dependents built from the
  hand-written contents stay (`state.rs:505`);
* `HandWorkKept` with crashes and targets overwritten by hand: a run killed after
  `persist_new_target_intent` leaves a generated row without a stamp; a file the
  user writes then has nothing to be compared with, and the next build replaces
  it (`builder.rs:63`, `663`);
* `HitOfKey` with a remote cache and edits: a remote hit is stored after the
  unlock, so a newer output can be stored under the older key (`builder.rs:989`);
* `DepsRecorded` where the server loses the deps file, or the client its flag:
  neither is noticed (`Lossy` has them, the property excepts them);
* `OutputOfSource` and `DepsRecorded` where the server cannot copy the inputs of a
  remote run: the result of `fs::copy` is dropped, the script runs on whatever is
  there and its output is stored as the source's (`redo_cache_server.rs:312`;
  `Cut` has it, the properties except it);
* `BothEnd` excepts the pipe without room: a toplevel command blocked on the full
  pipe never unlocks the target in whose log redo-log stays (`redo_ifchange.rs:57`);
  and with `-f` or as a filter redo-log may miss the
  lines written between its end of file and its look at the lock
  (`redo_log.rs:808`), or print the log of the previous run (`builder.rs:660`),
  which is why `ShownInOrder` speaks of the beginning of one log and `NoLoss` of a
  redo-log after the build.

## 4. Proofs

`Jobserver_proofs` proves, for any finite `Proc`, any `-j` and any bounds, under
`JobserverAssumption`:

* with `Reliable` (nobody cheats, no early return) `Conservation`, `Accounting`,
  `Debt`, `ParallelismBound`: the safety invariants of run `jobserver`; and
  `PoolRefinement`: `Spec` implements `TokenPool` under `busy <- Holders`;
* without any such hypothesis `TypeCorrect`: `TypeOK`, and `CheatsCostNothing`:
  `NoTokenLost`, which run `jobserver_faults` checks.

`Reliable` is needed for the first: TLC shows that accounting fails with cheats
or early returns.

With faults the invariant is `FaultInv`: the types; `Solvent`, which counts the
tokens less the debts, since a token that pays a debt is one less in the pipe;
and `Standing(p)`, of which the last part makes `CHEATS` a number of 0..1: a
process that has cheated and used its token up has a job, so it cannot cheat
again before the job pays the cheat back.

Without faults the inductive invariant is `IInv`: `TypeOK`, `TokenConservation` and four facts
that make it inductive.  `TokensAt` says at which `pc` a process holds a token,
holds none, or may owe one; `CommandAt` says which command is at which `pc`
(for instance that only `run_ifchange` is at `dep`); `Tree` ties `parent` and
`line` together (`line[c] = line[parent[c]] \cup {parent[c]}`; a process that does
not exist has no parent and is nobody's); `Rooted` says that every live job is,
or descends from, a job the toplevel command waits for.  The last two are why a debt (`MYTOKENS = -1`) is harmless:
`build_one` can only run it up when every job has been reaped.  `AccountingHolds`
follows since, when the toplevel command has no job left, nobody else holds a
token, and conservation puts all of them into the pipe.

`CacheServer_proofs` proves, for any connections, digests, keys and results,
under `ServerAssumption` and among any clients, crashes and disk faults:

* `StoreIntact`: `BlobIntegrity`;
* `ServiceRefinement`: `ServerSpec` implements `CacheService` under the mapping of
  `Service` (the blobs a GET finds, the mappings, the requests and the answers).

The inductive invariant is `ServerInv` (theorem `ServerCorrect`): types,
`BlobIntegrity`, and `ThreadOK`, which says where a thread has a request and an
answer and, the fact that makes the store safe, that a private file about to be
renamed has the digest of its name.  Each step of a thread is then a stutter of
the service, its `Apply`, or a `Drop`; the step where a PUT of a blob takes effect
is the rename, or the look that finds the file there already.

`RemoteBuild_proofs` proves, for any workspaces, sources, tags and connections
and under `BuildAssumption`:

* `ServerInside`: `RemoteBuild`'s `Spec` implements `ServerSpec`, that is, the
  workspaces are one of the environments the server was proved in.  Hence
  `SystemStoreIntact` (`BlobIntegrity`) and `SystemUsesService`
  (`ImplementsService`) of the composition, without a new proof about threads;
* `BuildTypes`: `TypeOK`;
* `SourceBuilt`: `OutputOfSource`, where nothing is lost on disk (`setup.lossy =
  {}`; a target whose dependencies were lost is cached under the key of none, and a
  run on inputs that were not copied whole reads something else);
* `DependencyRecorded`: `DepsRecorded`; `FallsBack`: `CacheFallsBack`.

The inductive invariant is `BuildInv` (theorem `BuildCorrect`): the server's
invariant; that every mapping, in the server's store or in a thread's request,
names an output of its key; that a local cache holds an output of the source
under its present stamp, and nothing under a stamp that is yet to come; that a
workspace that waits has a
connection of its own with its request on it; and how far each build has got
with what in hands (`Progress`), so that an answer that comes late or for another
request can never be taken for this one's.

`ActionCache_proofs` proves, for any processes, keys, outputs and limit:

* `TypeCorrect`: `TypeOK`;
* `HitsAreOfTheirKey`: `HitOfKey`;
* `CollectionSuffices`: `GcBound`.

The last two have the hypothesis `RemoteQuiet`: where a remote cache is used, the
source is not edited and the outputs of one key do not differ.  TLC shows that
`HitOfKey` fails otherwise (a remote hit is stored without the target's lock);
without a remote cache the hypothesis says nothing.

The inductive invariant is `IInv` (theorem `Invariance`): `Shape`, the types and
that the list of a collection has each object once; `Stages`, what a process has
in hands was made for its key, under the lock until there is an output; `Pairs`,
the two files of an entry belong together unless a store is between the renames
or was killed there, and what a process has read of them is still there or
gone; `Covered`, if the cache is over its limit, some process on its way to a
collection will have seen every object.

`Scheduler_proofs` proves, for every set of graphs, every `-j`, every depth of
the pool and every interleaving, cycles included:

* `OneScriptPerTarget`: `MutualExclusion`;
* `PoolNeverOverrun`: `PoolLimit`;
* `NobodyHoldsAndWaits`: `NoHoldAndWait`.

They rest on `TreeCorrect`: `TreeInv` is an invariant.  It has three parts.
`Tree`: the paths are closed under parents.  `Shared`: the types of locks, slots
and results, and that no more slots are taken than there are.  `ProcOK(p)`, for
each process: which `pc` goes with which command and lists (`Shape`); when it
can have jobs, and for which targets (`Fits`: none while it blocks, one at most
in redo, those of the list not yet dealt with never; a command that exits with
jobs left has failed); of which kind they are (`KidsOK`); and, the part that
makes the locks work, that a process owns exactly the locks (`LocksOK`) and
slots (`SlotsOK`) its state and its jobs account for.  `MutualExclusion` then
takes two attended scripts of one target to the process that holds the lock for
them (lemma `Holder`: the parent, or the grandparent if redo-unlocked is
between).  There is one lemma for each action; `PutStep`, `ForkStep` and
`ReapStep` say once what it takes for a step that changes one process, adds one
or removes some.

`SchedulerResults_proofs` proves, for every graph as well:

* `SuccessIsReal`: `SuccessMeansBuilt`;
* `CyclesNeverBuild`: `CyclesFail`.

The invariant is `ResultInv` (theorem `ResultsCorrect`).  `Progress(S, p)` says
that each target a process is there for (`Duty`) is still before it (`Pending`),
or is settled, or the process has seen a failure; and that what a script asked
for is settled when its success is about to be recorded.  Settled means built,
or failed and not in `S`.  With the targets of a cycle for `S` a success of one
of them would need the success of another, so there is no first one; with the
empty set for `S` a successful toplevel command has all its targets settled.
They have not failed either: by `FailInv` a failed target has left a trace in
some process (a return code, or a result not yet recorded), traces survive
reaping, and when the toplevel command has succeeded there is no other process
left (`Closed`, `Fits`).  Each action is shown to be a `MovedAlone`, a
`MovedForking` or a `Reaped` step, and each of these three to preserve the
invariant.

It also proves, on top of `TreeInv` and `Closed`,

* `NoTokenMade`: `TokenInv`, the tokens in the pipe and in the hands of commands
  are `MaxJobs` at most;
* `SchedulerTypes`: `TypeOK`, with its bound on the pipe.

`TokenInv` is inductive with `Hold`: a command has one token or none, and has one
in the states that `Needs` lists.  Two of these matter: a job that has ended has
its token, which is what `wait` counts on when it takes over one token for each
job it reaps, and `build_one` has one when it asks for a pool slot, because it
gives one back there without looking.  The toplevel command may come there
without (it puts its own into the pipe at the end of `wait_all`), but never finds
the pool full: nobody else is running then (`TopFindsSlot`).  Equality does not
hold: a command that returns early on a cycle leaves the tokens of its jobs.

Next it proves, for every graph without dependency cycles
(`Acyclic`: no non-empty set in which every target asks for another of the set):

* `BuiltFromBuilt`: `DepsFirst`;
* `NothingBuiltTwice`: `BuiltOnce`.

The hypothesis is needed: on a cycle the model, and the code, orphan the jobs of
redo-unlocked, which may then build a target a second time.

The invariant is `OrderInv` (theorem `OrderCorrect`): `ResultInv`; `Origins`,
where a process comes from (whatever is on its path needs, through the graph, the
target it was started for, and `REDO_CYCLES` names only targets on its path),
which holds with cycles too; and, without cycles,
* `Whole`: a command that has ended has no job left, since only `CycleFound`
  leaves one, and by `Origins` a target it finds would need itself
  (`NoneBelowItself` makes the targets above it a set for `Acyclic`);
* `Due`: while a job can still record a result for its target, that target is not
  built, which is `BuiltOnce` with the lock held by `TreeInv`'s accounts;
* `Supported`: what a built target asked for is settled and stays so, by
  `ProgressInv(Unforced)` when the script's success is recorded and by `Due` for
  as long as the run lasts.

`Supported` gives `DepsFirst`.

The last theorem is about graphs with any cycles among what scripts ask for with
redo and redo-ifchange, where only `REDO_CYCLES` stands between a process and the
lock its own ancestor holds:

* `NoWaitForAncestor`: `NoAncestorWait`, if no checksummed dependency leads back
  to its target (`NoStampLoop`).

`LoopGraph` shows that this much is needed: redo-unlocked builds the checksummed
dependencies without naming the target in `REDO_CYCLES` (1594).  The invariant is
`NameInv` (lemma `NamesKept`): `REDO_CYCLES` names the target of every script
above a process (`Named`), a process that waits for a lock did not find the
target there, and what a redo-ifchange started is what it may ask for (`Calm`).
The ancestor that holds the lock of `t` started a job for `t`.  If that is t's
script, `Named` puts `t` into the waiting process's `REDO_CYCLES`; the toplevel
command that starts one redo for each target holds no lock; and if it is
redo-unlocked, the waiting process is below t's script again, or below one of the
checksummed dependencies, which then leads back to `t` by `Origins`.

`LogFollow_proofs` proves, for any targets, scripts, earlier logs, pipe size and
mode of redo-log, with the scripts' graph as it likes (cycles included):

* `PrintsOneLog`: `ShownInOrder`;
* `PrintsEverything`: `NoLoss`.

The inductive invariant is `LogInv` and `Recorded` (lemma `LogInvHolds`), in four
parts.  `Recorded`: whoever is named in a log has a row, or is in the hands of the
toplevel command, so redo-log after the build never ends with code 24.
`BuildInv` is about the build: a job's target is locked by its parent (`Stage`),
so a new log is never begun for a script that still writes to the old one, and a
log names everything its script has asked for so far.  `Grounded` says that no
set of running scripts was started by its own members; with it a build whose
toplevel command has ended has no step left (`NothingAfter`), which is what makes
"after the build" a state and not a moment.  `ReadInv` is about redo-log: each
frame of `catlog` has printed the beginning of the file it has open, no two frames
are of one target, and what was printed of a target it has left is still the
beginning of one of its logs, because logs only grow (`Grown`).  `Quiet` is about
redo-log after the build: every open file is the newest, every target it has been
to is in a frame or printed whole, and every target named in what it printed has
been entered, so the targets it has been to are closed under "asks for".

`BuildState_proofs` proves, for any set of source trees with any scripts, orders
and options, and any number of runs and edits, under `BuildStateAssumption`:

* `TypeCorrect`: `TypeOK`;
* `OwnOutputKnown`: `NotMistaken`, for trees without the option `LostRecord`;
* `HandWorkSafe`: `HandWorkKept`, for trees in which either no run is killed or
  the user overwrites no target.

Both hypotheses are needed: `build_crash_window` is a counterexample to the first
result with `LostRecord`, and TLC shows the one to the second that is described
among the exclusions above.  They leave, for instance, all of `build_plain` and
`build_stamp` covered.

There are three inductive invariants, which TLC checked on the trees of
`build_plain` and `build_stamp` before they were proved.

* `TypeInv` has the types of files, tables and frames, and the facts the other
  two rest on: no stamp, in a row or in a copy of one, is newer than its file
  (`Past`); the copy `sf` of a row that a build has read is the table's row until
  `Begin`, and after it says override only of a file that is gone or newer
  (`IsJob`); the frames below the top one wait (`Waits`); and what is not
  committed about a target's row is at most what a scan saves (`InSync`), so that
  a crash cannot bring back an older decision about it.
* `OwnInv`: a target that exists and is neither in `manual` nor in `adopted` has a
  row that says generated, not overridden, with its mtime or no stamp yet
  (`Own`), except between rename and commit (`Window`).  It is stronger than
  `NotMistaken`: the mtime is what keeps the next `Begin` from seeing an override.
* `HandInv`: a target the user wrote is there, no build of it is under way, and a
  row that calls it generated has an older stamp, so that `Begin` will see the
  override; and, without crashes, a generated row without a stamp belongs to a
  build under way, which is the fact a crash destroys.

There is a lemma per action for `TypeInv`.  For the other two the actions are
first shown to have one of two effects, a `JobStep` of one target or a `CmdStep`,
and the invariants to survive these.  Nothing depends on the verdict of
`isdirty`: whatever it answers, `Scanned` only marks rows as checked and turns
vanished targets into sources.  That `InOrder`, a recursive function, gives a
sequence of files is proved by taking the least index at which it would not
(`NatSetInduction`), since induction for a predicate is out of reach.

Only TLC checks:
* liveness (`Termination` in both modules, `BuildsEnd`, `BothEnd`), under fairness;
* `DepsFirst` and `BuiltOnce` on the graphs with cycles in its runs;
* `UpToDate`, `NothingTwice` and `ChecksumStops` of `BuildState`: they compare what
  `IsDirty` says with `Fresh`, `Needs` and `Volatile`, functions that recur over
  the dependency graph.  What they compute would need induction over data; and
  `UpToDate` is false in general (see the exclusions), so a theorem would need
  hypotheses about the cache and the shape of the tree.

## 5. Not modelled, and the plan

Not modelled at all: terminal output, option parsing, tracing of system calls
(interfaces to the kernel), `redo-browse` and the listing commands (read-only).
`detect_broken_locks` probes the platform.  Two roots on one cycle under `-j2`
wait for each other in different trees; nothing in the repository says what
should happen, so no run asks.  Nested targets of one pool hang when they fill
it, for which the same holds.

Also not modelled: strict read tracing (`redo_trace.rs` is an interface to the
kernel, the evaluation of a trace a set computation), the search for `.do` files
(`paths.rs`: pure strings; `BuildState` takes the candidates as given), the
preflight planner (its set is only installed where `isdirty` is not asked), and
of redo-log the rendering and the status line.  Duplicate arguments under two
names (`redo-ifchange x ./x`) and a source edited between two scripts of one run
that read it are left out too.

Left of the plan:
1. `Scheduler`: the missing-dependency rebuild and the error returns in its model.
2. `DoFiles` and `StrictReads`: the candidate search of `paths.rs` and the
   evaluation of a read trace, as functions against reference definitions.
3. `BuildState` under `-j2`: two connections, with the locks of `Scheduler`, so
   that stale rows meet the transactions of another process.
