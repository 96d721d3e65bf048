# A verification of ObsFS

ObsFS mounts a FUSE file system in which the state of a Linux machine is read
as files: CPU and memory metrics, a file per process, per user, per service,
per container. This directory holds TLA+ models of its parts, translated from
the Rust sources under `crates/`, TLC configurations that check them, and
proofs that TLAPS checks. `PROJECT.json` maps every definition to the lines it
models.

## The system

| Part | State | Operations | Interacts with |
|---|---|---|---|
| inode table, `obsfs-fuse/src/inode.rs` | path → number, number → path, next number, stale marks with times | allocate, remove, mark_stale, sweep_stale, the queries | called by the FUSE handlers under a lock |
| registry, `obsfs-core/src/registry.rs` | a tree of directories and leaves | insert (creating parents), remove, get, list | filled by the plugins before the mount, read by the handlers after it |
| FUSE handlers, `obsfs-fuse/src/fs.rs` | the table, the registry, prefix → dynamic handler | lookup, getattr, readdir, read | called one at a time by fuser's session thread for the kernel |
| dynamic handlers (`proc_info`, `users`, `services`, `docker`) | none: each call asks the system | list_entries, exists, read | called by the FUSE handlers; they wait for the Docker daemon, systemctl, who(1) |
| providers (`procsys`, `health`, `connections`, `sensors`) | none, but for the CPU sampler's last reading | collect | called by read(); a statvfs() may come back to an obsfs mount |
| CPU sampler, `procsys/cpu.rs` | last reading (of its thread), last usage (an atomic) | a round every 500 ms, collect | a thread of its own |
| command, `obsfs-cli/src/main.rs` | the process: threads, working directory, signal handlers, session, PID file | mount, unmount | signals, other processes, the plugins |

What is hard in it: the kernel keeps inode numbers while paths come and go;
four handlers ask registry and dynamic handlers in different orders; every
answer is put together from several readings while the thing it describes may
change, fail or go away; listings are read by pages, and files by byte ranges,
over a list or content that is made anew for each call; one thread serves all
requests, and a request may wait for a daemon or for another obsfs process; the
command forks after threads were started; signals arrive at any time; a plugin
may fail half way.

What makes each part correct:

* table: the maps are inverse; a number never comes to mean another path; a
  denied number stays denied; only its removal loses the root;
* registry: every node hangs from directories; a failed insert changes nothing;
  a successful one changes only its path;
* handlers: the numbers the kernel holds stay good, kinds do not change, what is
  listed is found, a number is drawn only for what is there (but for names that a
  failing source lets pass), listings and readings end, miss or repeat only what
  changed (but for the mark of failed units), and are nowhere shifted or cut short;
* session: servers do not wait in a circle; who waits for ever waits for one
  that is stuck; a stuck one can be stopped;
* handlers of entries: an answer is about one thing, the one asked for; the
  three methods agree about what does not change;
* providers of several readings: no alarm, port or issue that was at no time
  true, none left out that was true all the time;
* sampler: 0 to 100, and every stretch of time counted once;
* command: what is served is what the status says; a handled signal ends it; an
  end leaves a mount behind only when the mount is in use, or when a signal killed
  the command before it had registered for both.

## Modules

| Module | Models | Kind |
|---|---|---|
| `PathHandles` | what a file system promises about the handles it gives for names | abstract specification |
| `InodeTable` | `inode.rs` | implements `PathHandles` (refinement mapping at its end) |
| `Tree` | the tree of `FsNode`s as a function from paths, and what one insert comes to | operators |
| `Registry` | `registry.rs`; `insert()` round by round of its loop | computes `Tree!InsertInto` |
| `ObsFs` | lookup, getattr, readdir, read of `fs.rs` | composes `InodeTable` (`Inodes == INSTANCE`), the registry (fixed) and the dynamic handlers |
| `Streams` | one listing read by pages, or one file read by byte ranges, `fs.rs` 384-580 | the reader's view |
| `Session` | the session threads of several obsfs processes, their queues, what they wait for, and their mounts on top of each other | composes the mounts of several commands |
| `Mount` | `cmd_mount`, `cmd_unmount`, the fork, the threads, the signals | composes `Tree` with the plugins' registration |
| `CpuSampler` | `procsys/cpu.rs` 13-128 | |
| `ProcInfo` | `proc_info/mod.rs`: one read of `/obs/proc/<pid>` | |
| `Docker` | `docker/mod.rs`: resolve, inspect, stats | |
| `Collect` | one answer out of several readings, of sources that change and fail between them | composes the five below |
| `Health` | `health/mod.rs`: the four checks and the report | operators |
| `Sensors` | `sensors/mod.rs`: temperatures, thermal zones, fans, the summary | operators |
| `Connections` | `connections/mod.rs`: four tables, listening, established, the summary | operators |
| `Services` | `services/mod.rs`: what the listing, exists() and read() take the output of systemctl for | operators |
| `Users` | `users/mod.rs`: what the listing, exists() and read() read of who(1) and /etc/passwd | operators |

Each `MC...` module gives its module small constants for TLC. `..._proofs`
modules hold the theorems. Definitions with a suffix (`Lookup_BareName`) are
variants with a bug: no specification uses them; they show, by being put in the
place of the definition they are named after, that a property notices that bug.

How state and actions correspond to the code:

* **InodeTable.** The three maps and the counter are variables of the source's
  names; every method with `&mut self` is one action. `now` is the wall clock,
  which `ClockStep` sets to any reading, earlier ones too. `issued` is a history
  of every number given, with its path.
* **Registry.** `tree` maps the paths present to their nodes. `pc`, `path`,
  `current` and `depth` are the call of `insert()` in progress. One loop round is
  `Descend` or `Conflict`, what follows the loop is `Place` or `ParentIsFile`.
  The registry is not shared during an insert; the steps are there because the
  loop changes the tree before it knows whether it will succeed.
* **ObsFs.** fuser calls one handler at a time, so a handler that asks the
  outside once is one action. readdir() takes its list and then draws numbers
  one by one while the world moves on: `ReadDir`, `AddEntry`, `ReadDirOk`.
  `alive` is what exists outside; `Unlisted`, `ListedOnly` and `Unreadable` say
  where a handler's three methods disagree, as `Services` and `Users` say they
  do (a failed unit is unlisted, a session without an account is listed only,
  the static files of users are unreadable for its handler). `entry` is what the
  kernel was told. `read()` changes nothing and is the operator `Source`.
  `alive` has everything under the name a listing would show; `Alias` are the
  further names by which a handler finds it: `proc/007` is 7, `root:x` is found as
  the start of root's line in /etc/passwd, units and containers have several names.
  `failing` are the prefixes of `Credulous` whose source runs and fails
  at the moment: services then lists and reads nothing and says of every name that
  it exists. A source that does not run at all is as if all its entries had vanished.
* **Streams.** `offset` is where the kernel goes on: the entries taken, `.` and
  `..` included, or the bytes. Entries are numbers in the order the handler lists
  them, so that a new one may come anywhere in the list (first, for docker;
  anywhere, for sorted PIDs). They are the rows of the list; `Name` is what a row
  shows, which for the `Marked` rows, those of failed units, is the same mark. A
  unit that fails is a row that goes and a marked one that comes. A byte is its position and the content it is of;
  `NewContent` gives the file a new content, of any size, or takes it away.
* **Session.** `queue` and `current` are the requests of one session thread,
  `asks` whom anybody waits for. `Call` is a system call of a user in a mount,
  `Take` the session thread starting on the oldest request, which may have to
  wait in its turn; `Reply` is its answer. `known` is what
  discover_filesystems() found at registration, `stack` the mounts on a mount
  point. What is not obsfs is in `Call` (any file at any time), in the Docker
  daemon's three actions and in the kernel's rules for mounts: a request goes to
  the uppermost mount, statvfs() of a mount of ours is a request to it, a mount
  in use is not taken away, a killed server's requests fail.
* **Mount.** `pc` walks down `cmd_mount`. `threads` are those of the process;
  `Daemonize` empties it, because fork() keeps the calling thread only, and sets
  `slash`, because daemon() changes to `/`. The session thread starts after it.
  `OrderAssumption` says what the plugins of the repository keep to: none
  registers at or above an earlier path, but for its own path again. `busy` is
  that some process has a file open or its current directory in the mount (`Enter`,
  `Leave`): the unmount of `drop(session)` may then fail, which fuser only logs, and
  leave the mount, dead (`DropSession`); an `obsfs unmount` fails then too.
* **CpuSampler.** `Sample(ok)` is a round of the thread, `ok` whether /proc/stat
  was read. A usage is kept as the pair of deltas it is the quotient of, so that
  nothing depends on floating point.
* **ProcInfo.** `fields` holds, for each file read, the process it was read from
  (0 if it could not be). Processes are counted as they start, so that two with
  the same number are told apart. `read_network_info` appears as `net`, the
  second reading of the fd directory; `read_uptime` does not depend on the process.
* **Docker.** `pc` is the next request. `Daemon(x)` is how the daemon resolves
  an identifier (by name first). A short ID stands for the container it belongs to.
* **Collect.** `readings` are those taken so far, each what its `source` was at
  that time; `Wanted` is the next source in the order of the code, which may
  depend on the readings before (users). A failed reading is a reading too.
  What is made of them is a `Report` in the provider's module. `had` is what each
  source was since the collection began: all that a property can be about, since
  the readings are of no one moment. Percentages, and the 90% of a critical
  temperature, are compared by multiplication. A CPU check reads two files, the
  load and the number of cores, which counts as one reading. For services and
  users the collection is the listing, the lookup and the read that a user's `ls`
  and `cat` come to.

## Runs

The properties of a passing run hold in every reachable state of its instance.

| Run | Bounds | What it shows |
|---|---|---|
| `InodeTable` | the root and 2 paths, numbers to 4, clock 0..2, ages 0 and 1 | maps inverse, no reuse, denial final, the root lost only by its own removal, implements `PathHandles` |
| `Registry` | 7 paths of up to 3 components over 2 names, 2 leaves | well-formed, atomic, exact |
| `ObsFs` | 2 prefixes (one overlapping the registry), 5 dynamic paths of which one is unlisted, one listed but denied, one unreadable, one a second name of another; a source that fails and recovers; numbers to 8: enough for every path | numbers stay good, kinds never change, the listed is found, a number is drawn only for what is there, or for any name while the source fails |
| `Streams` | 4 entries, 2 of them marked, or contents of 1 to 4 bytes, pages of 1 to 3, 2 comings and 2 goings or 2 new contents | listings miss and repeat at most what went and came, and the mark once for each failed unit; bytes stand where they stood; a reading that ends is not cut short; both end |
| `Session` | 2 processes, 2 users, 2 mount points of which one may be mounted on twice; queues need no bound, as everyone waits for one answer | no circle unless a mount point is mounted on twice; users wait for ever only for the stuck; stopping frees |
| `Mount` | 3 plugins, the second of which fails in the middle | status truthful, what was set up serves, handled signals end it, no mount left but one in use or of a command killed in the window |
| `CpuSampler` | counters to 2 with steps of the same range, iowait up and down | range and conservation |
| `ProcInfo` | 2 numbers, 3 processes, 8 files | one process, no holes |
| `Docker` | 3 containers, 3 names of which one looks like an ID, list limited to 2 | one container, the right one, found |
| `Collect` | readings on both sides of every threshold, zero totals and failures; 1 to 4 changes in a collection, more for the shorter ones; a summary limited to 1 listener | status, issues, alarms, ports, units and users say nothing that was at no time true and leave out nothing that was true all the time |

The bounds are enough because the cases of interest fit: a path can be
allocated, marked, swept and allocated again (numbers to 4); a walk can create a
parent and then meet a file (3 components), with a sibling to destroy; every
dynamic path can be listed, looked up, vanish and return, and a source can fail between
the listing and the lookup; a mount can be in use when its command ends; a list can shift by two
in either direction inside a page, a content can shrink below the offset and grow
again; a process can be mounted on another, be asked for the other's metrics, and
know it back after a restart; a number can pass to a second and a third process
between two files; a container can lose its name to another while a third pushes
it out of the list; a socket can move from a table not yet read to one read before.
`MaxInode`, `Room`, `MaxEvents`, `MaxTicks`, `MaxBorn`, `MaxChanges`, `MaxMounts`
are bounds of the models; `Limit` is the code's 100 and `Top` its 10.

Runs that expect a violation each check one statement of the repository's
documentation that the code does not keep:

| Run | Statement | What happens |
|---|---|---|
| `ObsFs_leak` | no memory leaks from dynamic paths (inode.rs:17, CHANGELOG.md:17) | nothing marks or sweeps |
| `Mount_sampler` | CPU usage reflects recent activity (CHANGELOG.md:34) | in a daemon the sampling thread is gone |

### Where the code departs from what is written of it

These were met while modelling. The models do what the code does; where a
property would fail, it names the case as its exception.

| Where | Written | Done | In the models |
|---|---|---|---|
| inode.rs:98 | O(1) translation in both directions (14-15) | a number marked stale is handed out again for its path and does not resolve | `GetOrAllocate` |
| inode.rs:139 | sweep returns the number of inodes removed (124) | it counts marks of numbers already removed | the result is not modelled |
| registry.rs:45 | the message names the file in the way (docs/plugin-development.md:803) | it names the child that does not exist | `Conflict`; the message is the path in its result |
| registry.rs:64 | "Ensure you're not creating a file where a directory should be" (docs/plugin-development.md:806) | it succeeds and drops the directory | `Place`, `InsertInto` |
| users/mod.rs:374 | list_entries() "Lists all entries" (types.rs:229) | a logged-in user without a line in /etc/passwd is listed and denied | `ListedOnly`, exception of `ListedIsFound`; `UsersAgree` says when |
| services/mod.rs:55 | the same | a failed unit's line begins with a mark, which is listed in its place | `listed`, `ServicesAgree`; with several failed units the mark is listed once for each, as `RepeatsAtMostTheNew` counts |
| services/mod.rs:172 | exists() "Checks if a subpath exists" (types.rs:232) | true for every name when systemctl fails, and each then takes a number | `exists` of `Services` and of `ObsFs`; `ServicesAgree`, last case of `DrawnForCause` |
| proc_info/mod.rs:446, users/mod.rs:384 | the same | true for `+7` and `007`, which are parsed as 7, and for `root:x`, as a line begins with it: one entry under several numbers | `Alias`, `Named` |
| main.rs:433 | writes the PID file of the daemon (CHANGELOG.md:14) | it has the PID of the parent | `WritePidFile`, exception of `ServesWhatItSetUp` |
| main.rs:449 | the guard keeps the log's worker thread (262) | in a daemon the thread is gone | `Daemonize`, exception of `ServesWhatItSetUp` |
| main.rs:410 | failed plugins are skipped (CHANGELOG.md:21) | what they inserted before they failed, and their handlers, are served | `InsertMetric`, `RegisterHandlers` |
| main.rs:454 | SIGINT shuts down gracefully (463) | a signal between the mount and the registration kills, and the mount stays | `Signal`; a case of `NoMountLeft` |
| main.rs:488 | "ObsFS unmounted" | said also when the unmount of a mount in use failed | `DropSession`; a case of `NoMountLeft` and `SignalStops` |
| main.rs:449 | the mount point is checked (343) | a relative one is another directory after daemon() | `Place`, exception of `ServesWhatItSetUp` |
| cpu.rs:52 | 0-100 (docs/plugin-development.md:774) | negative when iowait goes back | exception of `UsageInRange` |
| proc_info/mod.rs:81 | None if it can't be read (types.rs:237) | an answer full of defaults | `ReadSource`; `NoHolesInOneLife` says when |
| docker/mod.rs:200 | resolves names to the container's ID (193) | a name of 12 hex digits stays a name | exception of `OneContainer` |
| docker/mod.rs:207 | resolves full IDs (193) | never matches the IDs of the list, cut to 12 digits | `Search`, and `Findable` leaves full IDs out |
| procsys/fs.rs:37 | "Exclude virtual/pseudo filesystems" (36) | `fuse.obsfs` counts as real: the upper of two mounts on a mount point waits for itself | `Discovered`; exception of `NoCircularWait` |
| health/mod.rs:255 | any swap usage is a warning (228) | from 10% on | `Status` |

Deadlock is checked except where the system stops: `Mount` (the process ends)
and `Streams` (the listing or reading ends).

Fairness. `Streams`: the reader goes on asking until the empty reply, as
readdir(3) and cat(1) do. `Session`: each session thread runs (`Serve`), with the
Docker daemon answering while it is not silent, and each main thread leaves once
its flag is cleared (`Exit`), which it looks at every 100 ms; nobody has to
mount, ask, unmount or send a signal, and a silent daemon need not recover.
`Mount`: the main thread runs. `ObsFs` in the run `ObsFs_leak`: a listing
that was begun is finished, a loop that waits for nothing. Nothing is assumed of
signals, of the outside world, or of the Docker daemon otherwise. The other modules have
safety properties only.

## Proofs

Checked by TLAPS for all values of the constants that satisfy the assumptions named
in the modules. Each component has one inductive invariant, and one lemma per action
that it is kept. Every safety property of a passing run is a theorem.

**InodeTable_proofs.** The inductive invariant is `TypeOK /\ MapsAreInverse /\
NumbersKeepTheirPath`. Inverse maps alone are not inductive: that a drawn number is
new needs `issued` to have every number below `next_inode` (in `TypeOK`). From it:
`TypeCorrect`, `Bidirectional`, `NoReuse`; `DenialIsFinal`, as the lemma
`DenialStep` that no step makes a denied number resolve; `Implements`, one
lemma per operation that names the `PathHandles` step it is; `RootStays`, that only
the removal of its path changes what the root resolves to, with the invariant
`RootIssued` that number 1 was drawn for the root.

**Registry_proofs.** `WellFormed` holds during the walk, but that a failure changes
nothing is not inductive: it must be known that once a parent was created the walk
stands on a created parent, which is an empty directory, and so cannot meet a file
any more. `WalkInv` says so: everything new is a directory on the path no deeper
than the walk, everything old is unchanged, and if there is anything new then
`current` is new. From it `TypeCorrect`, `TreeStaysWellFormed`, `FailureIsAtomic`,
`InsertIsCorrect`, and, with the fact `Settled` that between calls the history is
up to date, `SiblingsAreSafe`.

**ObsFs_proofs.** A path has one kind, `KindOf`, whichever handler is asked; the
invariant says that whatever the kernel was told, a listing in progress holds or a
reply showed has it, that what a listing holds was there, and that the table is the one
`InodeTable` keeps while it only draws. All six properties of the run follow, and `TypeCorrect`. `TableIsInodeTable` makes
the theorems about `InodeTable` theorems about the mount. Assumed: `DynamicAssumption`,
prefixes of one component and no metric of another kind below one, as in the plugins
that main.rs loads; `AliasAssumption`, that a further name is of the same directory and
not itself listed; `CredulousAssumption`.

**Session_proofs.** That there is no circle rests on time: a server knows only what
was mounted when it registered, and mounts after that. `Edge(s, t)` is that `s`
knows a mount point on which `t` is mounted; the invariant says that nobody asks but along
an edge, and that, while no mount point is mounted on twice, edges have no circle:
a server that mounts anew is on a mount point nobody knows.

**Mount_proofs.** The status is set once and must stay true while later plugins insert.
`PluginInv`: a plugin that is done has all its metrics, or one of them lies below a file;
with `OrderAssumption` no later insert replaces the first, and a file is never replaced
by a directory, for the second. `PlaceInv` and `ThreadInv` say what each point of the
command has behind it, with the signals registered by then: once it serves no signal kills
it, and before the mount there is nothing to leave. From them `StatusIsTrue`,
`EndsUnmounted`, `SetUpServes`.

**CpuSampler_proofs.** `UsageInRange` is not inductive: it needs `Ordered`, that since
the last reading the idle counter and the busy one have only grown, so that with iowait
no less either the total moved by at least the idle delta. `NoTimeLost` needs `Adds`,
the sum of the deltas. `Invariant` has both, and `TypeCorrect`, `UsageStaysInRange` and
`TimeIsConserved` follow.

**Handlers_proofs**, the handlers that ask about one thing several times.
Of `ProcInfo` (`ProcInv`): the owner of the number is noted while the call runs
(`OwnerNoted`); while only one was noted, an unguarded reading before a successful one
is of the same process (`Contiguous`). From it `AnswersOfThisNumber` and `NoHoles`.
Of `Docker` (`IInv`): `Kept` says that the histories know what the argument denotes now,
`Resolving` what each point of the call has found out: in particular that a resolved ID
is the argument, or was borne, and that a container that was to be found all the time
is the one resolved. With `Unique`, no two containers share a name or an ID.
`NothingIsHidden`, `AnswersOfTheRightOne` and `AnswersOfOneContainer` follow.

**Readings_proofs**, what is put together from readings of different moments.
Of `Collect` (`CollectInv`): each source's value is in its history (`Noted`), each
reading is in the history of the source it was taken of (`Sourced`), and a source that is
read only on a condition was read because an earlier reading met it (`Called`). What
is left is about the reports alone: that a maximum of the checks' statuses is one of
them, that the critical and the warning branch of a temperature exclude each other only by
order, that the ports collected from a table are those of its rows, that the shown and
the counted rest of the listeners are all of them. Assumed of the readings
(`SourcesAssumption`, `TableAssumption`, `UnitAssumption`, `UserAssumption`): the sources
are those of the provider's module, a table has finitely many rows with natural ports, a
unit and a name have one of the states the modules tell apart.
Of `Streams` (`StreamInv`): that a listing which ended missed no more than went says
nothing of one that is still read. `ListingKept` counts instead, at any offset, the entries
*behind* it that stayed and were not taken, no more than went, and the taken ones *beyond*
it, which can be met again, with those already met twice, no more than came. An entry's
position is its rank among the listed, the number of those up to it; a page takes exactly
the ranks after the offset, and one entry that comes or goes moves every rank by at
most one, in one direction (`RankInterval`, `RankAfterGain` and the lemmas after them).
Assumed: the entries are numbers, of which finitely many exist at a time, and the mark
is not one of them. That is about rows; the names shown are fewer by one for each marked
row after the first (`NamesOfRows`).
`ReadingKept` is that the byte at `k` is byte `k` of its content and that contents follow
each other. From them the ten theorems of the module.

Only model-checked: liveness (`SignalStops`, `OnlyTheStuckWait`, `StopFrees`,
`StreamEnds`), which this prover cannot do under fairness.

## Abstractions

* Floating point is exact: percentages and thresholds are compared as fractions.
* The CPU check of health reads two files as one; who(1), which is run a second time
  without `-u` when it fails, is one reading; that both fail is that it shows no sessions.
* `Services` and `Users` are about one entry, `Sensors` about two: entries share no state.
* A container has one name. A full ID is recognized by its first 12 digits.
* Of the kernel: an unmount of a mount in use fails (or, for drop(session), which tries
  a lazy one without the rights for a plain one, may fail); killing a server ends what waits for
  it; a statfs that is being served is answered even when its asker is gone.

## Not modelled

* The providers of memory, disk, network, file systems, load and uptime: they keep no
  state; a collect() reads a file, or calls statvfs() once, and formats a number.
  That two mount points may have one sanitized name (procsys/fs.rs:76) is, in the
  registry, an insert over a leaf, which `Mount` allows within a plugin.
* The configuration's fields, and that it is read twice (main.rs:84, main.rs:308).
* Poisoned locks: no modelled step panics.
* File sizes, times and permissions; `open()` but for its effect, that nothing is cached.
* Parsing: HTTP, the columns of who(1), utmp, the lines of /proc files.
* Formatting helpers and packaging.

## Plan

Done: the inventory, the modules above and the proofs. What remains are the names of
the discovered file systems after sanitizing, and the configuration as two readings of
one file.
