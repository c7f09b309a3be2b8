# A TLA+ model of ArtifactFS

ArtifactFS mounts git repositories as file systems. A daemon keeps a blobless
clone of each registered repository, publishes the tree of HEAD into an SQLite
snapshot, fetches blobs when they are read, and keeps local changes in a
writable overlay that survives changes of HEAD. This directory holds
specifications of the parts of it that run concurrently or survive crashes,
configurations that model-check them with TLC, and proofs checked by TLAPS.

Contents: 1 the system, 2 the modules, 3 the runs, 4 fairness, 5 the proofs,
6 disagreements found, 7 what is not modelled, 8 the plan.

## 1. The system

| component | source | state | operations | talks to |
|---|---|---|---|---|
| hydrator | `internal/hydrator` | priority queue, set of active blobs, waiters per blob, verified blobs, wake-up channel, stop flag; the cache directory | `EnsureHydrated`, `ReadBlob`, `Enqueue(Batch)`, worker loop, `Stop` | git store (fetch, hash), engine (callers), daemon (size callback) |
| ready gate | `internal/fusefs/ready_gate.go` | flag, channel, error | `Wait`, `MarkReady`, `MarkFailed`, `Reset` | the gated file system waits, the daemon settles |
| overlay store | `internal/overlay` | table `overlay_entries`, files under `upper/` | `EnsureCopyOnWrite`, `CreateFile`, `WriteFile`, `Truncate`, `Remove`, `Rename`, `RenameAndMarkModifiedFromBase`, `SetMtime`, `Mkdir`, `Reconcile` | engine, daemon |
| engine and resolver | `internal/fusefs/{ops,merged}.go` | the generation served | path resolution and directory listing over snapshot and overlay, the write operations, directory prefetch | snapshot, overlay, hydrator |
| fuse adapter | `internal/fusefs/fuse_unix.go` | inode table with a count of lookups, open handles with a cached blob file | the kernel's operations | engine, gate |
| daemon, preparation | `internal/daemon` | maps of runtimes and preparations | `Start`/`syncRepos`, `runPrepare`, `mountRepo`, `mountAsyncRepo`, `stopRuntime`, `AddRepo`, `RemoveRepo`, `Prepare`, `SetRefresh` | everything |
| daemon, HEAD refresh | `internal/daemon`, `internal/watcher` | the watcher's mtimes, served generation, batch of sizes | watcher poll, `onHEADChanged`, fetch loop, size batcher | snapshot, overlay, resolver |
| registry | `internal/registry` | one row per repository, shared between processes | upsert, conditional update of the preparation state, deletion | daemon, command line |
| snapshot store | `internal/snapshot` | generations of base nodes, current generation | `PublishGeneration`, lookups, size backfill | daemon, resolver |
| git store | `internal/gitstore` | the clone, a pool of `cat-file` processes, the blob cache files | clone, fetch, checkout, tree listing, blob fetch | hydrator, daemon |

Small or pure parts: `model`, `auth`, `logging`, `meta`, `cli`, `gitfs` (a
library facade), `examples`.

What is hard in it:

* **Fetching.** Readers, prefetchers, workers and verification goroutines share
  a queue, a wait map and a cache directory. A blob must be fetched once, every
  blocked reader answered, an urgent read must not wait as a prefetch, and a
  damaged leftover of an earlier run must never be handed out.
* **The gate.** It is opened, failed and reset while operations wait at it;
  none may be forgotten at a channel nobody will close.
* **The overlay.** A row and its file change in two steps without a lock, the
  refresh after a HEAD change deletes rows and files while operations go on,
  and the daemon may die anywhere. Local work must survive all that.
* **Names.** What a path shows depends on its row, on rows above and below it
  and on the tree; what is under `upper/` depends on every operation before.
* **The mount.** The kernel counts lookups, names inodes, and takes both back
  in messages that cross its own requests; the adapter must know what it means.
* **Pipes.** A `cat-file` process is used by one call after another, and a call
  may be cancelled, or git die, anywhere in an answer.
* **Preparation.** A poll, goroutines that clone or fetch for minutes, and
  commands of other processes meet in one registry row and one runtime. At most
  one preparation may work on a clone, an overtaken one must not open the gate
  of its successor, and a row that says `preparing` must not stay so.
* **Refresh.** A tree is published, reconciled and served in three steps;
  readers may hold a generation number that is about to be cleaned up.

`PROJECT.json` lists these as hazards, each at its line, with the properties
that cover it or the reason why none does yet.

## 2. The modules

An action is one critical section, one channel operation, one database
statement or transaction, or one call on the file system or of git: what the
code does without letting another goroutine or process see it half done.

### Hydrator (`Hydrator.tla`, abstract: `HydrationPromise.tla`)

`queued`, `active`, `wait`, `verifying`, `verified` are the fields of
`Service` of the same purpose; `token` is the buffered signal in `workReady`;
`file` is the cache directory. A process (reader, `ReadBlob` caller, worker)
has a `pc` and a blob. `validateCachedBlob` is one group of actions (`Stat`,
verification, removal) that readers and workers share as in the code.
Verification goroutines outlive the caller that launched them, so they are
counted per blob and stage. Cached files are absent, good, short or corrupt;
`KnownSize` says of which blobs the snapshot knows the size, which decides how
a short file is found out. Fetches and hash runs may fail or be cancelled, and a fetch
may never return (`Hang`): `BlobToCache` closes a `cat-file` that is still sending and waits
for it (gitstore.go:471, 481), which is `Clogged` in `BatchPool`; what has a worker in it stays so.
Which task of one priority is popped is left open (the heap orders them by
enqueue time). `Stop` is two steps, as in the code: closing the channel, then
answering the waiters.

`HydrationPromise` knows only calls, the cache and which blobs are being
fetched: a read ends with the path of a blob that is not damaged or with an
error, at most one fetch of a blob is under way, and only a fetch brings a blob
into the cache. `KeepsPromise` is the refinement.

### Ready gate (`ReadyGate.tla`, abstract: `GatePromise.tla`)

`ready`, `closed`, `done` and `err` are the fields of the gate; `shut` is the
set of closed channels, `pc`, `chan` and `answer` follow the operations through
`Wait`. `GatePromise` is a gate without channels: an operation passes only
while the gate is open, and is refused only when it failed, when it was settled
while the operation waited, or when the operation's own context ended.
A channel nobody holds is reused by a later reset.

### Mount (`Mount.tla`, extends `ReadyGate`)

The operations of the gate are those of the kernel, and what they reach is the
adapter's tables: `inodes` (path and `refcnt`), `pathToInode`, `nextInodeID`, `handles`.
`job` follows an operation from its question to its answer. The kernel's side is
`name` (dentries: the inode of a name in a directory, which it knows by its number,
so that what is in a directory moves with it), `lookups` (how many answers with an inode it has counted),
`opened` and `forgets`. It is Linux, as far as the adapter depends on it: a new
name is looked up once at a time and not while its directory changes; names it
knows are revalidated at any time; an inode without name, open handle or
operation is evicted, and its lookups go back in FORGETs, which do not pass the
gate and may arrive in parts. Part of them may go back earlier: when a number comes back
with another type, the kernel drops its inode for a new one with that number (`Evict`). `StatFS`, releases, flushes and attributes of the
root do not pass it either. What the file system answers is open: that is the subject
of `Overlay`, `Directories` and `FileHandle`.

A rename leaves the inode its path, as the code does: after `mv a b` and a new `a`,
what the kernel does under the name b reaches a's file until it looks the name up
again, at most a second later; an open handle keeps the old path.

The same goes for directories. The engine refuses to rename those of a commit, but one made
in the mount moves, with whatever the kernel knows in it or asks there meanwhile, and the
adapter goes on to serve names in it below the path of its inode (`PathAt`): after
`mkdir d; mv d e` a `touch e/z` within that second is a create of d/z. A `mkdir d` is then
answered with the number of the directory that is e to the kernel, which moves its one name
back (`Splice`), unless that is above the new place or in a directory that is being changed.

### Overlay (`Overlay.tla`)

`row` is `overlay_entries`, `disk` the files under `upper/`, `head` the newest
published tree, `shown` the one the resolver serves. An operation of
`fusefs.Engine` is begun by the kernel and walks through the store's
statements: look up the row, copy on write, write the file, store the row, or
the transaction and then the move of a rename. The refresh is
`Publish`, `ListRows`, `DeleteRows` (with its guard on kind, source and mtime),
`RemoveBacking` per file, `SetGeneration`; `ReconcileFails` is the error that
`onHEADChanged` logs and ignores. `Crash` stops everything; mounting starts with
a refresh before any operation is served.

The kernel runs one mutating operation at a time on a file (the mount disables
writeback caching), so two operations on one path exclude each other in `Begin`.
Nothing excludes the refresh.

`want` is a history variable: what each path should show. A path is *exposed*,
and no promise made of it, when an operation on it was under way as Reconcile
deleted its row, as the tree was served over no row, or at a crash; when one
began on it before its backing file was removed; when its mtime was set back
between the list and the DELETE, or a file that then looks `Alike` to the DELETE was
renamed onto it; and when a created file that hid a tracked one
was renamed. These are the windows the code leaves open; each is in the hazards.

### Directories (`Directories.tla`, `PathNames.tla`, abstract: `FileTree.tla`)

The overlay again, in the other direction: many names and one step per
operation. `PathNames` has paths as sequences of names. `row`, `disk`, `head`
and `shown` are as in `Overlay`, with directories in each; a tree of a commit
has a directory only above a blob. `Resolve` is `ResolvePath`, which looks at
one path; `Visible` is what a program finds by walking to it, one directory
after the other; `Listed` and `ListedAs` are what `ReaddirTyped` makes of the rows
that `ListByPrefix` selects, at any depth, and the children in the tree. The
operations are guarded by what the kernel lets pass and what the engine and the
store refuse, and change `disk` as `MkdirAll`, `Remove` and `Rename` of the file
system do: directories that a copy or a rename has made stay under `upper/`, and
a rename that fails late leaves them there too (`RenameFails`). `Tmp` says which
path has the name of another's temporary file; `lost` is a history variable for
the rows whose file was taken for one, or that a rename of such a row has put
something else under.

`FileTree` knows only the tree that programs see: an operation adds, removes or
renames one name, a directory that is removed or renamed is empty, only a new
commit changes anything else, and what is there is in a directory. Two
liberties are the code's: a directory that appears may show what a commit has
hidden under that name, and the old name of a rename what the commit has there, which
may be a directory that shows such names again.

### Preparation (`Prepare.tla`)

`row` is the repository's row in the registry, `head` what the clone is checked
out for, `snap` the tree of the current generation, `rt` the entry of
`Service.running` with its gate, `preparing` the entry of `Service.preparing`,
`worker` the goroutines in `runPrepare`, `sync` the poll, `cli` the commands
that read the row before they write it. A configuration stands for what
`samePrepareConfig` compares, and a tree for the configuration it was checked
out for. Two flags replace pointers and contexts: `alive` (the context the
goroutine was started with is not cancelled) and `held` (the runtime it captured
is still the one in the map). The numbers of `prepareSeq` are replaced by the
names of the goroutines, which are reused: a number is only compared with that
of a goroutine that has not returned.

Abstractions: a git command takes effect in one step and not after it was
cancelled; two configurations share the clone and the databases, as they do by
default; repositories added without `--async` and disabled ones are left out.

### Head refresh (`HeadRefresh.tla`)

`at`, `tip` and `loose` are git's: which file HEAD's commit is in, the commit in
each, and which branches have a file at all. `seen` and `awaited` are `prev` and
`firstSeenChange` of the watcher; `cur`, `rows` and `stored` the snapshot's
current generation, its base nodes (a tree is named by its commit) and
the HEAD stored with it; `served` the resolver's generation and `state` the
HEAD that the runtime remembers. `pc` and `loc` follow two processes, the
daemon's mount and watcher goroutine and an `add-repo` of the same repository in
another process; both run `ensurePreparedRepo` (`EnsurePrepared`). A poll is four
steps, between which git may do anything: the look at HEAD's mtime (`StatHead`),
the reading of the file for the branch it names (`ReadRef`), the look whether
that branch has a file (`StatExists`) and the look at its mtime (`StatRef`); a
change of HEAD takes the same way with other names, because it primes the ref before
the refresh. `OnHEADChanged` goes through two git commands, the comparison, the publication with its clean-up, and
`SetGeneration`. A reader takes the number and queries its rows in a second step.

An mtime is kept by its relation to the one the watcher remembers: never looked
at, not later, later. A change may fall in the clock tick of the one that is
remembered, then nothing tells them apart. HEAD's oid and ref in the snapshot are
read by two statements in the code and one action here: they are written in one
transaction, and a mixture of two only leads to another publication or equals
one of the two.

`symbolic-ref` may fail for any reason; `ResolveHEAD` returns DETACHED then and no
error (`SymbolicRef`, `HEAD` in the model), and mount, refresh and command go on with it.

`missed` is a history variable for what the code lets go by. `"change"`: made before
the first poll looked at its file, within one clock tick, packed away before the
next poll, made after a poll that was `unwatched`, or met by a failing git command or
publication (nothing is retried, and a failed `symbolic-ref` leaves the runtime and
the stored HEAD at DETACHED); it ends when HEAD is next resolved. `unwatched` says that refs
were packed between a poll's two looks at a branch the watcher did not know, so that it neither
remembers nor awaits it (watcher.go:61 and 86); it ends with the next look, and only a commit made
until then is missed. `"checkout"`: a switch within a clock tick,
after which the watcher may take the new branch's file for one it never saw
and only record it; it ends when HEAD's change is noticed. `"tree"`: the mount
served a generation older than the HEAD it read; it ends with the next
publication. `foreign` says that another process published after what is served.

### File handle (`FileHandle.tla`)

`path` and `cache` are the handle's path and its open cache file with the
generation it was opened for (`cacheFile`, `cacheGeneration`); `current` replaces
`invalidateSeq`, saying of each read whether the number is still the one it took. `row`
is what the overlay has for a path, with the content of the backing file, `tree` and `gen`
what the resolver serves, `coming` the published tree not yet served. A read
(`FileHandle.read`) walks from `ReadFile`, which takes the generation,
through the sections under the handle's mutex and the lookups of `BaseCachePath` and
`Engine.Read`. An operation closes the path's cached files one handle at a time,
changes the row in two steps (`EnsureOverlay`, `Change`) and closes them again.
The steps inside the store are the subject of `Overlay`, rows of generations cleaned up under
a reader that of `HeadRefresh`; here each is one step, and any of them may fail.

`window` and `may` are history variables: what a path may show now, what a read may
return. A path that no operation is at work on may show only what it shows; a read, what
its path showed since it began. A path in `unsure` may also show what it
showed earlier: the last operation on it failed, after which nothing is closed a second
time, or it was created under a name that some handle has open, for `CreateFile` closes nothing.
When a generation is served while an operation is at work on a path, its file is allowed there too:
the row may hide it before a read that has found no row returns it.

### Pool of git processes (`BatchPool.tla`)

`free`, `maxSize` and `closed` are the pool of one git directory; `proc` the
processes, each with what it was asked and the output nobody has read; `call` the
calls of `BlobToCache` and `ReadBlob`, of which the former have the caller, which waits for
the context, and the goroutine that talks to git, as two sides of one
record (`Talking`). An answer is a header and pieces of content, or `missing`; the
reader tells these apart, but not whose they are. `tmp` and `dst` are the
temporary and the final file of a blob in the cache, written through a handle at
its own position, so that two fetches of one blob (of a stopped runtime and its successor)
can meet in one temporary file. Git may answer, die or hang; contexts end; the
pool is resized and closed.

Facts the model has from the code: a call that fails without having killed its
process waits in `close` for it to exit, and for ever if git is blocked on the full
pipe (`Clogged`, gitstore.go:475); a process in the pool that has died looks alive
until it is written to, which is what the second try is for; `ReadBlob` has no
timeout of its own; a call that outlives `Close` returns its process to a pool
nobody will empty (gitstore.go:59).

### MC modules

`MCMount` starts with the gate's current channel fixed. Its constraint `GateOrTable`
takes two parts of the behaviour apart: anything that happens to the gate before
a first lookup is answered; or a gate that was opened once, with all of the tables'
operations beside a lookup, on two names in the root that are opened (`OpenFiles`), or on names
in directories, which move and are made again, without opens (`Directories`).

`MCBatchPool` likewise (`OnePairOrCrossing`): a fetch and a `ReadBlob` with a fault and
any size of the pool, or two fetches of one blob that cross, without.

`MCDirectories` has all commits over its three paths; the two blobs are interchangeable.

`MCFileHandle` gives one path two reads at a time; the second path exists to be renamed
from and to, is not changed by the refresh, and has one read at a time.

`MCHeadRefresh` starts from a clone of one branch, with another branch anywhere.
`MCHydrator`, `MCFileHandle` and `MCOverlay` add the symmetry sets and, for the overlay, all
trees over the paths. Readers and workers, and paths, ids and operations, are
interchangeable: no action or property names one of them, and no liveness
property is checked under symmetry.
In `MCOverlay` the constraint `PairOrLong` lets two operations run at a time with few changes, or
one with more.

## 3. The runs

| run | instance | shows |
|---|---|---|
| `hydrator` | 1 reader, 1 `ReadBlob`, 2 workers, 1 prefetcher; 1 blob with any leftover file, or 2 blobs (one of known size) without damage, `ReadBlob` and `Stop` | types; one worker per blob; no damaged blob is handed out; no lost wake-up, and nobody waits for a verification nobody runs; no priority inversion |
| `hydrator_join` | 2 workers, 2 blobs, fair: 2 readers of one corrupt blob, with `Stop`; or, over an empty cache, 2 readers of different blobs, or 1 reader and a prefetcher of both | no stranded reader; refinement of `HydrationPromise`; every read is answered while the service runs, unless its fetch or every worker hangs |
| `mount` | 2 operations, 4 channels; names d and e in the root and e in d, each a file or a directory; 1 handle, 3 inode numbers (the last of them given while one operation runs), 2 lookups counted; fair | types; the gate closes no channel twice and abandons nobody; refinement of `GatePromise`; a settled operation returns; the adapter knows exactly the inodes and handles that the kernel may name, in renamed directories too |
| `overlay` | 2 paths, 2 contents, all trees; 2 operations at a time with 2 changes of rows and 1 refresh or crash; or 1 at a time with changes and refreshes 4 in all | types; every live row has its file; each path shows the last work on it; no row outlives the refresh that contradicts it |
| `directories` | directory d with file f, file x; d may be a file, whose temporary file is x; any commit; no bound on operations | types; refinement of `FileTree`; every live row has its file or directory; listings and lookups agree |
| `batch_pool` | 2 fetches of a blob, 1 `ReadBlob` of it or a larger one, 3 processes, sizes 1 and 2, 2 pieces, 1 fault, fair | types; no process is shared or lost, no pool too large; nobody reads another's answer; only whole files get their name in the cache; every fetch returns |
| `prepare` | 2 configurations, 2 goroutines, 1 client, 3 commands, 1 fault, fair | one live preparation; an open gate serves its configuration; ready means published; a request ends; ready means served |
| `head_refresh` | 2 branches, 2 commits, 1 reader, 3 events (changes by git, `add-repo` commands and faults together), fair | a stored generation is the tree of its commit; the served one keeps its rows; a lookup outlives one refresh; no noticeable change stays unserved between polls; the mount settles on HEAD |
| `file_handle` | 2 handles, 2 reads, 1 operation, 1 refresh, 2 blobs, 2 paths | no handle keeps a file its path no longer shows, nor a base file over a row; a read returns what its path showed meanwhile |
| `overlay_rename`, `overlay_race`, `directories_types` | as small as the behaviour allows | section 6 |

Why the bounds are enough for what is asked:

* Hydrator: two workers and one more actor suffice for a race on one blob
  (claim, pop, finish against enqueue, join, upgrade). The second blob
  is for the wake-up channel and the order of the queue, which need two
  tasks; the state constraint `OneBlobOrQueueing` keeps it apart from what is about
  one file only (damage, `ReadBlob`, `Stop`), and `ReadBlob` under way apart from `Stop`. In
  `hydrator_join` the prefetcher fills the queue while a reader waits, so a popped
  task leaves another behind and the worker must signal; `MCJoinSpec` bounds only what
  callers ask for: no step of a worker, of a verification or of a call under way leaves
  `JoiningOrQueueing`, so that fairness is not weakened by the bound. Each reader makes one call; a second call of one reader is a call of
  a second reader.
* Mount: a channel nobody holds any more is reused, as memory is, so four
  channels (two held, the current one and a new one) never hold up a reset and
  an operation can sleep through any number of them. A count goes wrong when an
  answer and a FORGET cross on one inode, or a name is given away while an
  answer with it is under way: two operations, two inodes, one handle. The operation that
  runs beside a lookup is of any kind. Paths d, e and d/e are what renames need: with d renamed
  to e the kernel's e/e is the adapter's d/e, a new d gets the number that e has, and a lookup
  in d is under way while it moves. Deeper trees add no case: the adapter's tables do not
  relate a path to its parent's, and the theorem has any tree.
* Overlay: a rename needs two paths; a change of content needs two ids; a row
  that is copied, renamed, written and removed needs four time stamps. Two
  operations at once race with each other and with one refresh; with two
  refreshes a row left by the first meets the second. `PairOrLong` leaves the
  product of both out, for a second refresh matters as soon as one row is there. Time stamps grow with
  every change of a row, except that `SetMtime` sets any earlier one.
* Directories: nothing is bounded but the names. A directory, a name in it and
  a name beside it are what a rename into, out of and of a directory
  needs; that the name beside it may itself be a file, a directory or the
  temporary file of the first covers the collisions. Three levels in one chain
  were checked too.
* Pool: two calls compete for one process, and a third finds what they left; an answer
  of two pieces can be cut in its middle and at its end; one fault is one thing
  that git, a context or the disk does wrong, at any point.
* Preparation: a change of branch while a preparation runs needs two
  configurations and two commands, one more asks for it again or goes back; two
  goroutines are the overtaken one and its successor. The one fault is a crash, a
  failed mount or a failure that could not be recorded, anywhere.
* Head refresh: a change that meets the poll between its two looks needs one
  switch and one commit; the third event is a fault, an `add-repo`, or a change
  back. Three publications (mount, refresh, `add-repo` or second refresh)
  are what the clean-up needs to remove a generation a reader holds. The
  invariants were also checked with 4 events (20 million states).

* File handle: a read overtaken by an operation needs one of each, a file another
  read has installed needs two reads; the second handle is the one an operation
  has closed before the other. One refresh stands for any number, since
  generations are only compared for equality. With two operations, one path
  and no constraint, TLC found no violation in the first 24 million states.

Deadlock is checked where the system can always go on (`hydrator`, `mount`, `directories`,
`prepare`, `head_refresh`, `file_handle`). It is not in `hydrator_join`, whose
readers make one call each, in the overlay runs, where the bound on time
stamps ends the work, nor in `batch_pool`, whose store closes.

Every property of a passing run has a mutant: a definition changed the way a
plausible mistake would change it, under which TLC finds the property violated.
The mutants stand beside the definitions they replace.

## 4. Fairness

* Hydrator: every step of a process that the Go scheduler would run is weakly
  fair: workers, verification goroutines and readers that are not blocked.
  Nobody must call, prefetch, cancel or stop. Fetches may fail any number of
  times: a failure answers the reader. Cancellation is never forced. A fetch may hang
  instead of ending, at any moment and for ever; `EveryReadAnswered` then excepts the readers of
  that blob, who wait until they give up (hydrator.go:190), and everybody once all workers hang.
* Mount: an operation at the gate that can go on does. The daemon need not settle the gate,
  so `SettledReturns` only speaks of operations whose gate is settled; and the
  kernel need not do anything.
* Pool: goroutines run, and a fetch has two minutes (gitstore.go:451), so that its
  context ends. Git need not answer: the remote it asks may hang.
* Preparation: `Start`'s ticker keeps ticking, so the poll is weakly fair as a
  whole, and so is each preparing goroutine as a whole: which of success and
  failure a step ends in is open, and every preparation ends at the latest by
  its timeout of thirty minutes. No command, crash or failed mount must happen,
  and each is bounded, so the liveness properties say: after the last of them,
  the system settles.
* Head refresh: the watcher's goroutine runs on a ticker and calls the refresh
  itself, so mount and watcher are weakly fair as one process, and an `add-repo`
  that was started goes on. Git need not do anything, nor need a reader, and the
  faults are bounded.

## 5. The proofs

TLAPS proves these for every value of the constants that satisfies the
module's named assumption (the assumptions say that the sets of names are
disjoint and the bounds natural numbers; for the pool also that there are as many
slots for processes as calls, for a call has one process at a time).

`MountProofs`, of the gate: `GateIsConsistent`, `NobodyIsAbandoned`, `GateIsSound`,
`GateKeepsPromise`. The invariant is the type invariant with `GateConsistent` (the current channel is
closed exactly when the gate is settled) and `NobodyAbandoned`; the second is not
inductive without the first, because Reset replaces the channel of a gate
that says it is settled, and nobody is abandoned only if that channel is closed. The refinement adds that an operation that has seen
its channel closed has an answer it may return.

The same module, of the mount: `MountImplementsGate`, and from it with the theorems above
`MountGateSound` and `MountKeepsPromise`; `MountTypeCorrect`, `TheKernelIsKnown`.
A step of the kernel or of the tables leaves the gate alone, except the one that takes an
operation's answer, which makes room for the next operation; so the mount is
a `ReadyGate`, and inherits what is proved of it. The tables' invariant `MInv`
is `KernelIsKnown` and what makes it inductive: `CountsAgree` (the adapter's count is
the kernel's, and what is on its way in answers and FORGETs), with the cardinality of the
answers under way; `NamesCounted` (what the kernel names, holds open or asks about it
has counted at least once, the directories of an operation's names included, so no FORGET in
flight can take the last count);
`JobsSound`, how far each operation has come and what its record then means; and `TableSound`,
unused numbers mean nothing. That the kernel locks directories is not used: an operation
holds the directories it names, wherever they move.

`HydratorProofs`: `TypeCorrect`, `SingleFetch`, `ReadersAreNotStranded`, `WaitedForFirst`,
`NobodyForgotten`, `ServedIntact`, `HydratorKeepsPromise`.
The type invariant includes that a process at work has a blob. One worker per
blob is inductive with it. That readers are not stranded needs a
strengthening, `ReadersRegistered`: whoever is in `wait` is blocked on that very
blob and unanswered; without it, an answer could go to the wrong reader or a
registration could outlive its reader. That nobody waits for a verification nobody runs needs
`VerificationRegistered`: what is registered for a blob waits for just that blob without a verdict,
and as long as anybody is registered a goroutine is at work, which is why a second
process may join instead of launching its own. No damaged blob is served by `OnlyIntact`: the
file is intact from the moment a hash says so, through the verdict each process was
handed, until the reader is answered; it holds because no step of the code damages a
file. The refinement of `HydrationPromise` rests on these: a fetch begins and ends at most once in the
abstract set because of `SingleFetch`, and a path is returned only for a file that is
not damaged.

`PrepareProofs`: `PrepareTypeCorrect`, `OnePreparation`, `GateOpensOnItsTree`,
`ReadyRowsArePublished`. The invariant (checked with TLC before it was proved)
has four parts besides the types. `SyncSound`: what the poll decided to restart
is registered, the runtime it then starts a preparation for has the configuration
it read, and between unmounting and superseding no preparation lives.
`LiveSound`: a preparation whose context is not cancelled is the one in the map
and works for the configuration of the mounted runtime. `HeldSound`: a goroutine
may capture a runtime it was not started for, but then its context is cancelled
and it does not pass the checks that take it. `Progress`: how far it has come
(HEAD, its tree, the snapshot, the served tree are those of its configuration).
`LiveSound` makes the goroutine that lives unique, so nobody else disturbs
its `Progress`; `HeldSound` carries it from the checks to the opening of the gate.
The type invariant is proved together with these: no conditional update brings
a deleted row back only because a goroutine always knows a configuration.

`HeadRefreshProofs`: `HeadRefreshTypeCorrect`, `RestartServesStoredTree`,
`ServedGenerationIsKept`, `LookupsOutliveOneRefresh`, `RefreshKeepsTrees`. The invariant adds to the
types that a process knows the commit and ref at the steps that use them
(`LocSound`), that no number taken from the snapshot is ahead of it (`NotAhead`),
that the newest two generations have rows (`LatestKept`), and that what is served,
or is about to be, is the newest or its predecessor unless another process
published (`ServedSound`). `LatestKept` is what the three properties rest on: the
clean-up keeps a generation and the one before it, counted from the caller's own
number, which is never ahead of the current one. TLC checked the
invariant first.

`ChangesAreNoticed` (`NothingUnnoticed`) has an invariant of its own on top, `Follow`,
which says at each step of the mount, the poll and the refresh which changes are caught:
`Fresh` (a mount remembers nothing, a refresh runs only after HEAD was looked at), `Watched`
(the current branch is remembered or awaited, unless the poll will notice that HEAD moved or the
last one was `unwatched`), `Aimed` (the branch a poll looks at is the current one, unless HEAD's move
will be noticed),
`Found` (the generation the daemon carries is the tree of the commit it has found),
`Shown` (the served one is that of the HEAD it remembers) and `InStep`: while
nothing was missed and nothing will be noticed, what the daemon has found out so far is what
HEAD is now. Each event of git either makes the poll `Alert` or is recorded in `missed`;
`Watched` is what makes the two exhaustive, because a commit on a branch that the watcher never
looked at leaves no later mtime.

`OverlayProofs`: `OverlayTypes`, `LiveRowsHaveFiles`, `WorkIsKept`, `RefreshLeavesNothingStale`, from
`OverlayInvariant`. Two of the properties speak of paths at rest only and are not
inductive. `Works` says for every step of every operation what the path's row, file
and content are there (`SourceKept`, and `TargetKept` for the new name of a rename), so that the
step which brings the path to rest establishes `Settled`. `Exclusive` (two operations
never have one path, both names of a rename included) keeps one operation out of the
other's facts. `Knows` is for the refresh, which nothing excludes: `Listed` says that every path an
operation has been at since the list is in `touched`, that a path outside is as it was
listed, and that a row which the DELETE takes for the listed one is that row. The last part
is where times matter (`Past`: no row is newer than the clock, so a new row differs
from every one listed), and where an mtime that was set back breaks it. The proof showed that a
rename can do the same, which is why such a path counts as exposed.

`FileHandleProofs`: `FileHandleTypes`, `OpenFilesAreCurrent`, `ReadsReturnWhatIsThere`, from
`FileHandleInvariant`. The danger is a read that opened a file and gives it to the
handle after an operation has closed what was there. `Warmth` therefore speaks alike of
a handle that has a file of the served generation and of one that a read still
`Brings` it to: the path's tree may be shown, and if no operation is at the
path, or the one at it has passed this handle (`ClosedBy`), there is no row above it. A
read that was current before the handle was passed no longer is, because closing
invalidates it even where nothing is open. `Stamped` makes the comparison of generations sound: no
number is newer than the served one, so a file of another tree cannot pass for current. `Shows` (a path
shows something its window allows) and `ReadKept` (what each read has found, its path did show)
carry this to the answers.

`DirectoriesProofs`: `DirectoriesTypes`, `NamesHaveFiles`, from `DirectoriesInvariant`;
`ListingsAndLookupsAgree`; and the refinement of `FileTree`, `DirectoriesKeepPromise`. It begins with
facts about paths: the directories above a path are its parent and those above that
(`ParentIs`), two of them are above one another (`Linear`), on the way to a path below a directory is
a child of it (`ChildOnTheWay`), and what is moved with a directory keeps its way
(`FromIs`, `FromAbove`). They need the set of paths to be closed under prefixes and a
temporary file to be in the directory of its path, which the module assumes. `RowsHaveFiles` is
not inductive alone: a rename empties what was below its names, so `IsDisk` says that whatever is under
`upper/` is in a directory there, and nothing is below a file; each operation of
the file system is shown to keep that. A live row above a path that can be seen is a
directory's, so making the directories of a path for a copy takes no file from a
row. For the refinement, a step that changes what one path resolves to is
lifted to what is seen there and below (`AddSeen`, `RemoveSeen`, `SeenElsewhere`); an empty
listing means that nothing is seen below (`UnlistedIsEmpty`, with rows of any depth), and
a directory that may be renamed is empty because the tree has nothing at its name and
no live row is below it (`RenamedIsEmpty`). Two attempts failed for a reason,
which TLC then showed on four paths: `FileTree` took for granted that what is below the freed
name of a rename stays as it was (section 2), and a rename moves what has taken the place
of a `lost` file along with it, so `lost` follows the rename.

`BatchPoolProofs`: `TypesHold`, `PoolIsSound`, `AnswersAlwaysMatch`,
`CacheFilesAreWhole`, all from one invariant (TLC checked it first), for any number of
calls, any length of blobs and any faults. `Owned`: a process is with one call, or in the
pool once, or gone; a new one finds a slot because with an empty pool every
process is with another call (the one place where cardinalities are compared).
`Streams` is the reason the pool may give a process to the next call: a call that has `Room` for
n more tokens finds at most n unread, all of its own object, and git is asked for
nothing else meanwhile; so what is given back has nothing left to say, and the header
need not name the object. This also bounds the position a call writes at, so
types are proved together with it. `Writing`: as long as nobody has truncated it,
a call's temporary file is its own and has just what it read; what is renamed is then
whole.

Model-checked only: the liveness properties (`EveryReadAnswered`, `SettledReturns`,
`PreparationEnds`, `ReadyIsServed`, `SettlesOnHEAD`, `EveryFetchReturns`), which are beyond the
prover. Every other property of a passing run is also a theorem.

## 6. Disagreements found

Each is a run that TLC must find violated.

* `overlay_rename`: a rename onto a name that has a row fails on the primary key,
  although rename replaces its target. `rm b; mv a b` fails, and so does the second
  save of an editor that renames a temporary file over the original.
* `overlay_race`: `WriteFile` changes the file before the row, so Reconcile's
  guard still matches the old row and it removes the file with the new write.
* `directories_types`: `ListByPrefix` selects rows of all depths, and the listing
  gives a child the type of the last row below it: after any change of d/f, d is listed as a
  regular file, and programs that trust the type (`find`) do not descend into it.

Others appear in the passing runs as exceptions that a property or an abstract
specification names:

* a damaged file is removed by path after the check (hydrator.go:296), so the
  good file another worker has put there meanwhile may be removed
  (`NoDamagedBlobServed` lets a file be gone);
* `SetRefresh` writes back every column of the row it read earlier
  (daemon.go:359), undoing what others did in between (`lost` in `ReadyIsServed`);
* so is a failure that could not be recorded after the row said ready, and
  `Replaced` is a runtime of another
  configuration behind a closed gate under a row that says ready, left when the
  configuration goes away and back while the poll restarts the repository;
* a copy of x is built in `upper/x.tmp` (overlay/store.go:122), which is the backing file of a file
  x.tmp of the mount: that file is lost (`lost` in `RowsHaveFiles` of Directories);
* a created file that hid a tracked one leaves no whiteout when it is renamed
  (store.go:253): after `rm f; touch f; mv f g` the tracked f is back (`Free` in `FileTree`);
* a directory made under `upper/` for a copy stays when the mount's directory
  is removed (store.go:119, 221): after `rm d/f; rmdir d` a file d cannot be created (`CreateFile` is
  then not enabled);
* a file created in a tracked directory keeps its row when a commit lacks the
  directory (store.go:491), but cannot be reached; its directory is listed and not
  found, and a new directory of that name shows the file again (`ListingsAgree`, `Add` in `FileTree`);
* a fetch that cannot write the cache may wait for ever for a git that cannot write its
  answer (`Clogged` in `EveryFetchReturns`; in `EveryReadAnswered` it takes along the readers of the blob,
  and all reads when each worker has met one), and two fetches of one blob can leave a file with
  a hole (`crossed` in `CacheFileWhole`).

The watcher has no run of this kind, but the exceptions named by `missed` are of it:
step 6 of "Data flow" (`src/README.md:225`) and its table of git operations (`src/README.md:275`)
say without exception that a commit is detected, while one made before the first poll, or after
refs were packed in the middle of a poll, is only recorded. The table of subsystems (`src/README.md:237`) says that the mtime
of the index is polled too; the code looks at HEAD and the current branch only.

## 7. What is not modelled

* Symbolic links in the overlay: nothing creates them there.
* Repositories added without `--async`; the commands that act on a daemon's
  mount from another process; mounting and unmounting themselves.
* Clone, fetch and checkout are single commands of git, whose outcomes
  `Prepare` and `HeadRefresh` have.
* The size batcher (a size is stored for the generation served when the fetch
  ended, `daemon.go:553`, which a publication may have replaced), the fetch loop's
  backoff, the git index that `ReadTreeHEAD` rewrites at each refresh,
  and the pure functions: see the plan.
* Credentials and redaction (string rewriting), logging, opening of databases and
  their migrations (a statement or transaction is taken as atomic), the library
  facade and the examples (thin adapters), argument parsing and output.

## 8. The plan

Order, by weight of the behaviour:

1. **Sizes and fetches**: the size batcher against publications, and the
   fetch loop's backoff (the latter with the pure functions).
2. **Proofs** about what these add. The modules with theorems are as many as the
   project keeps, so new ones join the module of their component.
3. **Pure functions**, against reference definitions over bounded inputs: heap of
   the queue, priorities of paths, branch names, refresh intervals, cap on
   prefetch.
4. **Composition** of Overlay with HeadRefresh, so that the
   publication is the daemon's rather than the environment's.

As modules are added, runs of one module that ask related questions are merged
where the instance allows, so that the whole stays quick to check.
