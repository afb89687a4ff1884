# docker-constructor: specification and verification

`docker-constructor` builds and launches a Docker image from a reviewed
inventory.  On the host it keeps a transactional, content-addressed store of
build inputs per project, a shared cache of runtime artifacts, a cache of
assembled npm environments, and it runs `docker` as an owned subprocess while a
presentation thread draws progress.  These modules specify the parts of it whose
correctness depends on the order of steps: of several processes, of threads, of
a process and the kill or power loss that ends it.

Everything is translated from the Python sources under `src/docker`.  TLC checks
small instances; TLAPS proves the theorems of the `*Proofs` modules for all.

## 1. Inventory

| Component | Sources | State it keeps | Operations | What is hard | What makes it correct |
| --- | --- | --- | --- | --- | --- |
| Build store | `versioning/build_orchestration`, `build_generations`, `build_cleanup`, `build_cache`, `build_materialization`, `build_snapshot` | numbered manifests (generations), blobs by digest, uncommitted markers, snapshots, `build.lock` | one `build`: lock, recover, drop abandoned snapshots, expire markers, materialise, snapshot, Docker, commit, clean up | every step may fail, be killed or meet a power loss; two builds of a project; recovery that is itself interrupted | one authoritative set of blobs that changes as a whole; nothing committed is lost; nothing kept is forgotten |
| Durable files | `transactions/regular`, `capabilities`, `codec`, `errors`, `posix` | a private temporary, the published name, their durability | no-clobber publication, replacement, validated read, unlink | fsync order, failures between two system calls, interruption | a name is absent or complete; success means durable |
| Lock capability | `transactions/locking` | a lock file, a descriptor with a `flock` | open or create, lock, verify, repair mode, release | the name replaced between open and lock; release exactly once | holders exclude each other by name |
| Descriptors and cleanup | `filesystem/descriptors`, `streams`, `cleanup` | the owned descriptor, the failures met so far | open child, adopt, detach, close; run and complete cleanups | a close that fails, several failures at once | closed once, never twice; the right failure is reported |
| Owned subprocess | `process` | child, two readers, a supervisor thread, deadlines, a failure ledger | launch, capture/stream, shutdown, cleanup, observe | threads, callbacks, deadlines, policy actions, interruption anywhere | output delivered once and in order, each stream ends once, cleanup bounded and complete |
| Shared artifact cache | `versioning/artifact_cache`, `cache_storage`, `cache` | blobs, identity locks, temporaries; HTTP responses in memory and on disk | validate, download, quarantine, publish | several processes on one blob; quarantine against publication | only verified blobs are used |
| npm environments: storage | `npm_environment/storage`, `publication`, `evidence`, `tree` | staging trees, published trees, a non-authoritative index, identity locks | look up, stage, validate, publish, quarantine | publication of a whole tree, corrupt output against reuse | a published tree is immutable and verified |
| npm environments: execution | `npm_environment/execution`, `streaming` | container, streams, a bounded sink queue, a dispatcher thread | run container, redact, dispatch, remove container | cancellation, late output, removal races | no secret leaves, the container is removed |
| Host presentation | `versioning/host_presentation`, `host_progress`, `activity_monitor` | a bounded two-lane mailbox, worker state, a heartbeat thread | admit, take, close, coalesce; heartbeat, finish | producers against a worker, overflow, shutdown | control events never lost, order kept, last fact after last heartbeat |
| Diagnostic pipeline | `versioning/diagnostic_*`, `aho_corasick`, `npm_diagnostic_stream` | decoded layers with their candidates, a bounded buffer, an open URL, a line with its facts | feed, settle, drain, overflow, finish | URLs and secrets under several percent decodings, cut anywhere, in one bounded buffer with several frontiers | nothing of a secret and of a URL at most host and path leave; the cuts make no difference |
| Project state | `versioning/project_state` | a namespace directory with its metadata | create or adopt, validate | concurrent creation, partial creation | a namespace belongs to one project |
| Updates, constraints, providers | `versioning/updates`, `providers/*`, `semver`, `constraints`, `npm_environment/semver_range` | none | ask, classify, rewrite blocks; compare, satisfy ranges | version order, prereleases, leaves that belong together | agreement with the notation; a proposal that can be merged and then holds |
| Runtime installer | `runtime_installer` | installed extensions in the image | verify and install one by one | one extension failing | failures isolated and reported |
| Launcher | `launcher`, `constructor_cli`, `effective` | projections, container names | select workspaces, publish a projection, allocate a name, run | name allocation against other launchers; a launch that dies | a projection lives as long as its launch; an exit code says what happened |
| Doctor, networking | `build_orchestration`, `networking`, `constructor_cli` | the local companion file, a systemd override | probe, publish an address, repair | overlapping doctors, edits of a reviewed file | the companion stays loadable and keeps what it held |
| npm locks and trees | `npm_environment/lockfile`, `validation`, `tree` | none | accept a lock, validate an installed tree, verify a published one | peers, optional and platform dependencies, nesting | what is accepted is complete and nothing else |
| Inventory, rendering, Pi documents, TUI | the rest of `versioning`, `npm_environment`, `tui` | none | parse, validate, format | nothing of order | outside this project, but for what the modules above use |

How they interact: a `build` takes the project's `LockCapability`, and under it
uses durable-file contracts for manifests, markers and their removal; blobs are
streamed to a temporary and renamed.  Every file is opened through descriptor
capabilities, every failure of several goes through the cleanup accumulator.
`docker` runs through `OwnedProcess`, whose callbacks feed the redacting streams
and from them the mailbox of the presentation worker; activity monitors put
heartbeats in the same mailbox.  The npm environments and the shared cache have
locks of their own, by identity.

The hazards found while reading, each at its line, are in `PROJECT.json`.

## 2. Modules

Specifications:

| Module | What it is |
| --- | --- |
| `CommittedSet` | What the build store promises: one committed set of blobs, proposed, then settled, that changes as a whole |
| `BuildStore` | The store and the builds that use it, every step, failure, kill and power loss |
| `FileLock` | `LockCapability`: processes that lock one name while the name changes hands |
| `RegularFile` | `RegularFileContracts`: publication, replacement, validated read and durable unlink of one name, a system call a step |
| `CleanupFailures` | Operators: which of several failures of one release is raised, which are attached |
| `SecureDirectory` | The walk of `open_secure_path`, creation and adoption of a directory, beside a thread that reuses numbers |
| `ArtifactCache`, `ResponseCache` | Materialisation of one artifact by racing launches; one HTTP response in the memories of commands and on disk |
| `CachedContent` | The two together, and what they promise together |
| `PrivateTree` | The cache root and the project namespaces beneath it: inspection before hardening, concurrent creation, metadata |
| `EnvironmentPublication` | One locked npm environment: lookup, staging, the container, sealing, publication, quarantine |
| `ContainerRemoval` | One assembly: its `docker run`, the thread that removes the container, the continuation, what `assemble` answers |
| `StreamCollection` | `collect_streams` and `SinkDispatcher`: two readers, a coordinator, a bounded queue, a sink |
| `Utf8Decoder`, `SafeLines`, `SecretRedaction` | The three filters of a stream fed in pieces |
| `UrlRecognizer`, `SafeUrls`, `DiagnosticProjector`, `NpmDiagnosticStream` | The diagnostic pipeline: the URLs and secrets found through the decoded layers, what is shown of one URL, the projector with its buffer, a stream of npm's output cut into lines |
| `LockedTree` | Acceptance of a lockfile, selection for the platform, validation and verification of the installed tree |
| `OwnedProcess` | A launched child: its readers, the continuation that supervises and cleans up, the launching and collecting thread, another thread that shuts down |
| `PresentationMailbox`, `HostPresentation` | The two-lane inbox; a presentation session: producers, the inbox, the worker with its grouping, the shutdown |
| `ActivityMonitor` | The heartbeat thread of a step, the transport's observations, and the racing calls of `finish` |
| `HostAccess` | The doctor: the gateway found, the companion edited, the override installed |
| `Launch` | The `run` command: workspaces, projection, the lowest free name, the container |
| `RuntimeInstaller` | What a container does before the user's command, several sharing one Pi home |
| `UserCommands` | The doctor, the launches, the containers and an assembly, and what they promise together |
| `VersionRanges` | Precedence of versions, npm ranges, consistency of constraints, each against what its notation means |
| `Updates` | A check for updates: providers, classification, rewritten blocks, the inventory merged and loaded again; what both promise together |

Instances and proofs:

| Module | What it is |
| --- | --- |
| `MCBuildStore` | Two blobs, three selections, symmetry; builds one after another with fairness |
| `MCCommands`, `MCBuild`, `MCFiles` | Sums of instances, see below |
| `MCHostPresentation`, `MCActivityMonitor`, `MCOwnedProcess` | Texts and templates; two callers that disagree; five kinds of launch |
| `BuildStoreProofs`, `StorageProofs` (`FileLock`, `RegularFile`, `EnvironmentPublication`, `PrivateTree`), `FilesystemProofs` (`SecureDirectory`, `ArtifactCache`, `ResponseCache`), `StreamingProofs` (`StreamCollection`, `ActivityMonitor`), `OwnedProcessProofs`, `HostPresentationProofs`, `CommandProofs` (`HostAccess`, `Launch`, `RuntimeInstaller`, `ContainerRemoval`), `VersionProofs` (`Updates`, `VersionRanges`) | Theorems, for every value of the constants |

Sums.  Components that share no state are checked side by side in one run: a
variable `part`, chosen at the start and never changed, says whose actions are
taken, and the variables of the others stay at one initial value.  The state
graph is the disjoint union of the graphs of the parts, and a conjunction of
their properties (`CommandsSound`, `CachesSound`, `TextSound`, ...) says of each
part just what that part's own conjunct says.  The theorems are about the parts
themselves, without `part`.

### BuildStore and the code

A build `p` walks through `pc[p]` in the order of `execute_build`:

| `pc` | Code |
| --- | --- |
| `discover`, `reconcile`, `clean`, `retire` | `recover_build_generations`: inspection and one fsync; removal of markers of committed blobs; removal of blobs only the predecessor names, and their markers; `durable_unlink` of the predecessor |
| `snapshots` | `recover_abandoned_snapshots` |
| `maintain`, `scan` | `maintain_uncommitted_blobs`, one marker per step |
| `materialize`, `mark` | `materialize_artifact`: hit, refusal of an unsafe entry, `os.replace`, then the marker |
| `link`, `docker`, `finish`, `abort` | `create_artifact_snapshot`, the Docker run, `finish_snapshot` on success and on failure |
| `verify`, `publish`, `untwin`, `pubsync` | `commit_build_set` and `publish_generation`: link, unlink of the private name, fsync |
| `reconcile` ... `retire` again, with `phase = "commit"` | the cleanup after the commit point |
| `release` | every return of `execute_build` |

Each directory has a visible state and what a power loss may leave of it.  For
generations that is `vis` and `dur`, the state at the last fsync; a power loss
keeps any subset of the entries changed since.  For blobs and markers
`blobDisk[b]` and `markerDisk[b]` are the sets of entries the disk may hold: a
change adds one, an fsync leaves one.  `twin` holds the generations whose second
hard link, the private name of `durable_no_clobber`, still exists; `snap` the
blobs with a hard link in a snapshot.

Abstractions, all in the header of the module or here:

- A batch of unlinks and its one fsync are one action that ends in every
  possible state; being killed inside it leaves one of the same states.
- An fsync of a directory is taken to settle the mode of its entries too.
- A removed snapshot stays removed at a power loss.  The code does not
  synchronise that removal; the hazard is listed without a property.
- Directories exist and are safe; malformed names and corrupt markers, which the
  program never writes, appear only as unreadable markers (`Evict`).
- Time is a marker that is fresh or expired.
- Docker, the Pi environment, confinement and the projection are steps that
  succeed or fail.
- A failure to release the lock, which only changes the message, is left out;
  the kernel gives the lock back when the descriptor goes.

### HostPresentation and the code

`PresentationMailbox` has one operator per method of the class of that name; each
runs under the one lock of the code.  The worker thread is a place `wpc`:

| `wpc` | Code of `PresentationWorker._run` |
| --- | --- |
| `top` | `_stop_on_emergency`, then `state.due` |
| `take`, `parked` | `mailbox.take(timeout)`; `parked` is the wait on the condition, which a notification or the deadline ends (`Wake`) |
| `recheck` | after `take`: emergency, then `item is None` and `mailbox.closed`, or dispatch |
| `render` | the calls of the renderer that `HostPresentationState` makes, one by one through `_safe` |
| `stop`, `stopped` | `mark_worker_stopped` in the `finally`, the thread gone |

Between these places every other thread may act: producers (`Produce`), the
session (`spc`: `submit_final_report`, `shutdown`, its judgement, `cancel`, the
emergency), the clock (`TimePasses`).  A display operation (`ShowPrefix`,
`ShowDiagnostic`, ...) computes the renderer calls and the new group, provisional
lines and deadline at once; the calls are then made one at a time, so that a
failure, a cancellation or a hang can fall between any two.  An event carries
its stream, a number for the phase and step whose output it is, its line number,
its text and whether its line is oversized; a prefix is replaced, and a
diagnostic grouped, only within one stream of one step.  What starts may bring
streams of its own (`EmitControl`), or late output goes on.  `shown` holds
what the properties compare of the output: the last number written, the last
line of each stream, occurrences and omissions told.

### ActivityMonitor and the code

The producer thread is a place `ppc`, every caller of `finish` a place
`fin[c].pc`:

| Place | Code |
| --- | --- |
| `check`, `waiting` | `_await_deadline`: `_stop`, the deadline, the injected waiter |
| `beat`, `progress`, `heartbeat`, `leave` | `_publish_heartbeat`: `_lock`, the requested state, the unpublished bytes, the fact, the next deadline |
| `ending`, `reported`, `gone` | `_run`: the handler of exceptions, `_producer_done` in the `finally`, the thread gone |
| `request`, `signal` | `finish`: the first request is stored under the lock, `_stop` and the waiter are set, the shutdown deadline is taken |
| `join`, `await`, `confirm` | `_stop_producer`: the join bounded by the budget, `_producer_done`, the confirmation that the thread is gone; any of them may give up and return False |
| `claim`, `final`, `publish`, `deliver` | `finish`: the claim of the one delivery, the last bytes under the lock, the terminal fact |

`record_transport_progress` and the clock may run between any two of them.  Two
regimes are chosen at the start and never change: `honoursSet` says whether the
injected waiter ends on `set()` (the code accepts waiters that do not), `prompt`
whether the clock waits for threads that can go on and nothing raises.  Only
`BudgetSuffices` needs `prompt`: with delays or failures the code gives up and
leaves delivery to a retry.  The silence, activity and deadline that a
heartbeat carries are left out, and `record_diagnostic`, which changes nothing
else.

### OwnedProcess and the code

The thread that launches is a place `launcher`, each reader a place `rpc[s]`, the
continuation `keeper.pc`; `shut[t]` says whether thread `t` is inside a call of
`_shutdown`.

| Place | Code |
| --- | --- |
| `prepare`, `factory`, `transfer` | `launch`: readiness of the actions of the policy, the process factory, `_transfer` of the pipes |
| `start`, `starting` | `_start_reader`: before a thread is started, and between its start and the record that it is |
| `callback` | `_start_supervisor`, then `on_launched`, while the deadline already counts |
| `failing`, `raising`, `raised` | the error paths of `launch`, inside `_shutdown`, and the interruption that it raises in the end |
| `launched` | the `with` block that does not collect |
| `loop`, `looping`, `wait`, `close`, `flush`, `flushing`, `collected` | `_collect`: next chunk, its callback returned, `wait` for the child, `_shutdown` and `_dispatch_closed`, the flush, the result published |
| `leaving`, `left`, `exited` | `__exit__` without a collection (`_raise_result`) and after one |
| `top`, `read`, `put`, `failed`, `finish`, `stopped` | `_reader` and `_read`: the first read, a read, a chunk in hand, the wait of a failed reader for the launch, the last outcome, the confirmed end |
| `waiting`, `policy`, `stage`, `observe stage` | `_continue_cleanup` until the request; `_run_policy`, with the gap between reading `_delivered` and starting the action |
| `cancel`, `await termination`, `await kill` | cancellation of readers and actions, `_reap` |
| `observe`, `late`, `gone` | observation within the budget, the watch after it, everything settled |

Each acquisition of `_lock` in the code is one step here, and what runs outside
the lock lies between two steps.  What the properties do not tell apart is left
out: a chunk is its stream, and there are no retained tails, return codes or the
flag that the deadline passed.  A wait that is shorter than the budget may end at
any time.  The end notifications of one round, for both streams, are one step.
Terminating and killing show only in the exit of the child.  A failure is an
error or an interruption; which of several is raised belongs to
`CleanupFailures`.  The other thread calls `shutdown` once.

`setting` is what a launch may meet; it is chosen at the start and never changes,
so that one run covers several regimes.

### Durable files, locks, descriptors and the code

`FileLock`: `lpc[p]` follows `LockCapability.acquire`: `open`, `open read` and
`open write` for the access fallbacks, `lock` (`flock`), `validate`, `probe` (`_verify_unchanged`, a
second open of the name), `repair` of the mode, `held`; then `unlock` and `close`
of `_release_descriptor`.  `flock` excludes by inode.  Lockers die anywhere, and
another program may change the entry's mode, type or links (`EntryChanges`); that
the entry is unlinked and recreated is `Retire`, the last act of a holder, as the
comment of `_verify_unchanged` has it.

`RegularFile`: the order of the calls of a contract is a function of its name
(`AtomicPath`, `NoClobberPath`, `ReplacePath`, `ReadPath`, `UnlinkPath`), so that a
contract is a row and a system call an action.  `history` holds every inode the
name has stood for; `onDisk` is the index up to which the changes are certain to
be on disk, and a power loss cuts the history anywhere from there.  `promised` is
the largest index a durable contract has returned, the absence that
`durable_unlink` finds included.  `BuildStore` uses these contracts as single
steps with every outcome they have.

`SecureDirectory`: two `OwnedDescriptor`s, the parent retained and the leaf, go
along a path; `kernel` says who has opened each number, the kernel gives the
lowest free one, and another thread opens and closes numbers in between.  A close
that fails has either closed or not (`lost`).  `primary`, `cleanup` and `raised`
carry the failures through nested releases, whose precedence is
`CleanupFailures!Authoritative`.  `from_fd` is given a descriptor that stays the
caller's when it fails.

`PrivateTree`: a command walks a queue of directories, one system call of one
directory a step; `CommandOver`, possible anywhere, stands for every error path
and for a kill, since a failed call changes nothing and ends the command.
`maker` and `firstTree` are ghosts: who populated a directory, what was there
first.

### The caches and the npm environments and the code

`ArtifactCache`: `apc[p]` follows `_materialize_one`: an unlocked hit, the lock of the
identity, the recheck, quarantine, download, verification, rename, permissions,
revalidation and the withdrawal when it fails.  `ResponseCache`: an entry is an
inode in two halves, because two commands may write one `.tmp` (its name has no
process in it); `overlapped` records when they do.

`EnvironmentPublication`: `epc[c]` follows `assemble_environment`, then
`publish_environment` and `_atomic_publish` call by call.  The container is the
daemon's: it outlives a killed assembly and goes on writing into the workspace it
was started on.  A sealed workspace has directories without write permission,
which the removal of staging cannot empty (`WorkspaceStays`).  `stood` and
`aside` are ghosts: what an output identity has held, and what is in quarantine.

`ContainerRemoval` is the other side of the same container: the client of
`docker run`, the daemon that may act after its client is killed, the thread of
`_ContainerRemovalAction` with its `rm`, the continuation of `OwnedProcess` that
lets the thread go and waits for it within a budget, and `assemble`, which
removes the container itself if no removal was attempted.  The ghost `unseen`
marks a removal that found nothing while the creation was still under way: the
container then comes into being afterwards, and no message of the program tells
of it.  `RemovalSound` excuses this case, which is the daemon's to prevent.

`LockedTree`: a path is the sequence of its package names, a range is one version
or any.  The three steps are acceptance (`parse_lockfile` and its checks of
dependencies, peers, platforms and flags), the selection and the validation of
what npm installed, and the verification of a published tree by its manifest.
npm and whoever alters the tree choose freely.

### Output and the code

`StreamCollection`: the coordinator is `cpc`, a reader `rpc[t]`, the dispatcher
`spc`; `drain` counts the two budgets of `finish`.  Each lock of the code is one
step; `terminated` is the event everyone waits for.  Interruptions fall before
and after the start of each thread.  The filters are fed in pieces cut anywhere:
`Decode`, the framer and the redactor are the methods, and what they must come
to (`Decoded`, `Accounts`, `RedactText`) is defined over the whole stream,
independently.

The diagnostic pipeline is four modules, one above the other.  `UrlRecognizer` is
fed a symbol at a time; each of its `Layers` percent-decodes the one before.  The
code matches schemes and secrets by automata whose cursors it moves along
(`aho_corasick`); what a cursor remembers is the end of what it has read, so that
the model keeps a window of each layer, as long as the longest pattern, and asks
what it ends in.  The matcher of a layer decodes it once more in a buffer of its own
(`buf`), which the end of a token leaves alone while the decoders between the
layers are emptied (`Cascade`).  `SafeUrls` is `diagnostic_projection`: the first layer with a host,
the path in its canonical form, whether a secret hides either.  `DiagnosticProjector`
is `CoordinatedProjection`: `Drain` decides about the buffer as `_drain_coordinated` does, by
recursion, one round a call, and gives two texts, that of the display and the
one without URLs.  `NpmDiagnosticStream` cuts them into lines and gives each line the
hosts and fingerprints found in it.  A step is one call of `feed` with one symbol or
with the rest of a line, or `finish`.  The properties compare this with definitions
over the whole stream, which `Found` decodes at once, and with a second stream,
`plain`, which has the same text in whole lines and shows no URLs.
Left out are npm's own fetch lines, the classification of lines, ports, IP
literals, IDNA, dot segments and letter case: a host is a word.

### Commands and the code

`HostAccess`, `Launch` and `RuntimeInstaller` have one record per command with its
place, and one action per call that leaves a trace outside the process: reading
or replacing the companion, publishing or removing a projection, listing and
running containers, extracting the two files of a package.  A companion is a
sequence of lines; `Pass` is the loop of `_persist_host_access_address`, one
`PassLine` per line.  A projection is what `read_projection` has sorted, so that
a package may be there twice, which it refuses.  `Updates` is
sequential: ask, classify, rewrite, merge, load.  `VersionRanges` asks one
question per behaviour (two versions, a token, a hyphen range, a constraint) and
compares the program's answer with the notation's.  A branch of a range is a set of
bounds, which the code keeps as text and takes apart again (`parse_range`); no bound
is any version, as `*` is.

## 3. Runs

| Run | Instance | Question |
| --- | --- | --- |
| `commands` | 2 builds without power loss, or 2 doctors, 2 launches, 2 containers, 1 assembly, every version question within bounds, 1 check for updates | Do builds exclude each other, do committed blobs survive, does work start on a recovered store only? Does each of the other commands leave what it shares sound? Do versions mean what they say, and can updates be taken over? |
| `build` | 1 build at a time with power loss, or 1 collection, the filters, the pipeline over listed streams, a lock of three places | Are generations never ambiguous, results honest, tracked blobs tracked for ever, recovery never blocked by a snapshot, and is `CommittedSet` implemented? Is output accounted for, does a collection end, does a cut change the text, does a secret or a URL leave? Is what is accepted of a lock and a tree complete? |
| `store_live` | builds one after another, 2 generation numbers, fair | Is the lock always given back, is a predecessor eventually retired? |
| `files` | 2 processes over one name, directory, blob, response, environment or tree | Do lockers exclude each other, are durable files complete and kept, is every descriptor accounted for, are caches, environments and namespaces sound? |
| `monitor` | 2 callers of `finish`, 5 ticks, fair | One terminal fact, the first requested, after the producer and the last bytes? Heartbeats on schedule? Does `finish` end, and deliver within one budget? |
| `present_lines` | lines mode, both lanes of one, 2 lines of a prefix and an end, 1 control event; only the session is fair | Does output keep the order of admission, is every occurrence and every omission accounted for, is nothing pending after a healthy end, does the queue stay ordered? Does shutdown return although the renderer hangs? |
| `present_interactive` | interactive mode, 2 lines of three texts, one a fetch, a refresh; only the worker is fair | Does the worker end once the inbox is closed, without an emergency? |
| `process` | 5 kinds of launch, 2 streams, a queue of one, fair | Do pipes outlive their readers, do ends follow chunks, is every chunk of a natural collection delivered, is a complete status true for ever, is every failure reported, do cleanup and collection end? |
| `store_stranded` | violation | The comment of `publish_uncommitted_blob` about interruptions, on the path `build` really takes |
| `store_twin` | violation | The specified completion of a generation that became visible before an interruption |
| `present_lost` | violation | The drain of accepted events at a healthy close |
| `present_overtaken` | violation | The order of a stream's lines when a prefix is superseded |

Bounds of the store.  Two blobs with the selections `{b1}`, `{b1, b2}`, `{b2}` give commits
that keep, add and replace blobs, and candidates that are all, some or none of
the old set.  Three generation numbers allow a publication over a retirement
that was not synchronised, and reach the overflow that `format_generation_name`
refuses (`MaxGen` stands for 10^20 - 1).  A second build matters only for the
lock, so the other runs have one, run again and again.  Nothing else is bounded.

Bounds of the files.  Two processes, because every conflict is between two.
Lockers differ in what the code distinguishes: one may open what the mode
denies, one fails fast.  Two inodes let a name change hands once; three changes
of a name give a publication, a replacement and an unlink.  Three descriptor
numbers against a walk of three components and a thread that takes numbers make
every number be reused.  Two output identities of one npm input and one act of
tampering give collisions with sound and corrupt outputs.  Two projects with one
short name, one prepared directory and one child of a namespace have every order
of creation.

Bounds of the output.  A queue of one and one chunk per stream fill the queue and
put the sentinel against it.  Nine bytes, one of each class the decoder tells
apart, in streams of four, the longest sequence; nine characters in streams of
four against a control limit of three and a line limit of four; two secrets of
up to three letters over two letters, in texts of up to five: longer inputs
repeat these situations.  The streams of the pipeline are listed in `MCBuild`: a URL
in each way to write its scheme, undecoded, once, twice and once too often
encoded, with hosts and rests that end, run on, carry an escape or are cut, and
secrets that overlap its host and path, its scheme, or nothing.  Three layers of the
code's four are the fewest that tell the first, the middle and the last apart; a
pending limit of 16 is less than the longest stream.  Paths of up to four segments; the nodes of the three
places of a lock are listed in `MCBuild`, each way of needing a package once.

Bounds of the commands.  Two commands of a kind overlap; a container finds at
most one unusual thing, a doctor meets at most one.  Parts of versions are 0 or 1 with two prereleases,
constraints have up to three clauses; `Updates` has three versions of which one
is a beta, and GitHub may mark that one as a prerelease, or another instead; up to two
targets are checked at once.

Bounds of the presentation.  Lanes of one or two are full after one or two
events, so that drops, control overflow and the saturation of the omission
counter (limit 1) happen with the first events after them.  One control event, so that
output of one step follows that of another.  One stream, because
streams meet only in the queue, whose order is proved for any number of them.

Bounds of the monitor.  Two callers race and disagree; each may be interrupted
and call again, two calls in all.  One byte is enough to be told or forgotten.
The first heartbeat comes after one tick and each next after two, so that half the
ticks are no slot, and the budget of three is longer than any wait, as in the code; the clock ends at `Horizon`, where every timed wait counts as
over, so that the end of time never leaves a call waiting.

Bounds of the owned process.  Two streams, of which one has no descriptor: its
read can only be ended by closing it, so it is the one stream that may be
released under its reader.  One chunk per stream against a queue of one makes
readers wait for room, and the collector leave while they do.  One failure per
launch, of the kinds the setting names: errors of the factory, of reads and of
cleanup; an interrupted callback; another thread's shutdown; no collection at
all; a policy with one action for aborts, drained.  Two failures of one launch
meet only in the ledger, which is a set, and `NoFailureLost` is proved for any
number.

Fairness (`store_live`, `AloneFairSpec`).  A running build goes on: it is a sequential
program whose steps end, Docker included, which runs under deadlines
(`process.py`).  Somebody builds again: the program asks for that ("recovery is
required and will be retried on the next build").  No single step of recovery is
hit by a fault or a kill every time: strong fairness on the success of each,
without which a broken disk excuses everything.  `LockIsReleased` needs the first
only.  The power may fail between two builds where that matters most to recovery
(`Spoils`: a blob may be left that is refused from then on, before any generation
is published).

Fairness (presentation).  `StallingSpec` makes only `shutdown` fair, which is one
sequential call with two bounded waits; the worker may stop anywhere.
`FairSpec` makes only the worker and the clock fair: `WorkerEnds` must not need
the emergency that an expired shutdown signals.

Fairness (monitor).  `FairSpec`: the producer and the callers go on, a sink
returns, the clock advances.  Weak fairness is enough for `_lock`: the producer
takes it once per slot and lets go of it in between.  The sink of
the program is the mailbox, which never waits.  A sink that hangs would make
`finish` hang, which takes `_lock` before any of its bounded waits.

Fairness (owned process).  `ProcessFairSpec`: every thread of the program runs.  The
budget of a shutdown and the deadline of a launch pass, because the clock does;
a child that was killed is gone; an action that was started or cancelled settles.
Each of these happens at most once, so one weak fairness condition on their
disjunction is enough.  A child that was not killed need not exit and a read
without a descriptor need not return before its stream is released: the code
promises to end regardless.  The end of a collection needs the deadline, which only
the caller can choose to give.  The `with` block may last for ever.

No fairness (collection of output).  `CollectionSound` states the end of a
collection without any: every step brings it nearer (`Nearer`, a variant), and
before the end some thread can go on or some budget can pass (`GoesOn`).

What the violations show.  `store_stranded`: `materialize_artifact` renames a blob
into place before it writes the marker; killed in between, the blob is named by
no marker and no generation, and since a later hit does not mark it, no
maintenance collects it.  `store_twin`: `durable_no_clobber` links the complete
manifest and then unlinks its private name; killed in between, the manifest has
two links, which `validated_read` refuses, and no code removes the other one:
every later build of the project fails.  `present_lost`: `take` times out, an
event is admitted and the session closes, and only then the worker reads
`mailbox.closed`; it ends with the event in the queue, and `shutdown` returns
True.  `present_overtaken`: the first prefix of a line replaces the last prefix
of the line before, whose end is queued behind it; an oversized line is then
shown before the line that precedes it, and again at its boundary, because the
late diagnostic discards the note that it was shown.

Smaller disagreements met while modelling, without a run of their own; where a
property would fail because of one, it states the excuse by name:

- `parse_lockfile` raises `IndexError`, not `LockedNpmError` as its docstring says
  (`lockfile.py`), for the key `node_modules`; a key that ends in
  `/node_modules` is parsed as a path (`PathsAgree`).
- A name in both `dependencies` and `optionalDependencies` that the platform omits
  is accepted by the parser and refused by `validate_assembled_tree`
  (`DeclaredTwice`).  Required dependencies of optional packages, which npm marks
  optional, are refused as `optional_marked_required`.
- The docstring of `semver_range` gives `<X.Y.Z` where the code emits `<X.Y.Z-0`, and
  `>=0.0.0` collapses to any version.
- "Every replacement block round-trips through `load_inventory`" (`updates.py:496`)
  fails in three cases, which `LoadsAgain` names.
- With one secret inside another the inner one ends the wait for the outer one,
  of which the rest passes if it comes in a later piece (`RedactsUnlessNested`).
- A "%" that begins no escape, followed by the first letter of a scheme, lets that
  letter through before the marker of the URL, whose parts are then not shown
  (`LetGo`).
- The facts of a piece are taken up before its lines are emitted
  (`npm_diagnostic_stream.py`, `Emit`): when a secret spans a line's end, facts found
  behind it are told of the line before it.

## 4. Proofs

Every theorem is about the specification of a component, for every value of its
constants under the ASSUMEs its module names, with all the faults the model has.
The assumptions say that bounds are natural numbers (positive where the code
requires it) and that a value which stands for "nobody" or "nothing" is none of
the things it is told from: `NoBuild`, `Nobody`, `Unheld`, `None`, `"none"`.
`TreeAssumption` adds that the directories of a namespace are none of those that
are prepared, and `ProcessAssumption` that the settings are records of settings.
Of the commands, `DoctorAssumption` says that the companions found first are
sequences of lines and that an address can be written into a line,
`LaunchAssumption` that the daemon lists finitely many containers, no two of one
name, and `InstallerAssumption` that the packages are told apart by their names
and have a version.  `UpdatesAssumption` says that there are finitely many releases,
of which some are prereleases and some may be marked as such, and `RangeAssumption` that a prerelease is a
sequence of numbers and words.

### The build store (`BuildStoreProofs`)

- `TypeCorrect`, `MutualExclusionHolds`: inductive with the types.
- `GenerationsStayUnambiguous`: power loss included; inductive because a
  publication synchronises first and requires that there is no predecessor.
- `CommittedBlobsSurvive`: `SpecPowered => []CommittedComplete`.  Alone it is not
  inductive.  `GenerationsInv` adds that a build past its synchronisation sees
  what is on disk, so that the generations which may be the authority are just
  the visible newest one; `CommittedInv` adds that the blob a failing
  materialisation unlinks is not committed, and that the set about to be
  published is in the store.
- `WorkStartsOnRecoveredStore`: `SpecPowered => []WorkStartsRecovered`, with
  `MarkersInv`: what is visible is among what the disk may hold.
- `SnapshotsNeverBlockRecovery`: `Spec => []RecoveryNotBlockedBySnapshot`, with
  `SnapshotsInv`: while a power loss may leave two generations, and during a
  commit, no snapshot is left.
- `TrackedBlobsStayTracked`: `Spec => TrackedStaysTracked`, an action property, with
  `RetireInv`: when a predecessor is about to be retired its own blobs are gone
  from the disk, not only from view.
- `ResultsAreHonest`: `Spec => []ResultHonest`, with `ResultInv`: what a build in the
  cleanup of its commit has settled, reconciled and retired so far.
- `StoreImplementsCommittedSet`: `Spec => ImplementsCommittedSet`, the refinement.
  `NewestKept` says that the visible and the synchronised generations differ by
  one publication or one retirement, `ControlInv` that a selection is published
  only while its blobs are held; every step then maps to a step of
  `CommittedSet` or to none.

The argument is shared: `WorksMoves` (a running build moves alone),
`WorksGenerations` (the four ways a step changes generations), `WorksBlobs` (the
three reasons a valid blob goes), `WorksMarkers`, `WorksSnapshots`.

### Files and locks (`StorageProofs`)

- `LockTypeCorrect`, `HoldersAreAlone`: `LockSpec => []HoldersExclude`.  `HoldersInv`:
  whoever is past `flock` holds the lock of the inode it has open, and whoever is
  past the probe has open what the name stands for.
- `DurableFilesSound`: `RegSpec => []RegularSound`.  `CompleteInv`: an inode that ever
  had the name was written, and flushed unless it is atomic only; a process works
  on an inode that is its own until it has the name.  `DurableInv`: a process past
  its fsync knows an index that the disk has reached, across other processes'
  changes and power losses.

### Descriptors and caches (`FilesystemProofs`)

- `DescriptorTypeCorrect`, `DescriptorsAlwaysAccounted`: `DirSpec =>
  []DescriptorsAccounted`.  `DirInv` says which owners are live at each place
  (`PlacesOwn`), that a live owner's number is open and this call's
  (`OwnersOpen`), that what is open has a live owner or is one a failed close left
  (`OpenOwned`), and that the pending failure takes precedence over all raised
  before the release under way (`PrimaryHonest`), whose induction is over a
  failure added at the end.  The attempt found that the model let a failing
  `from_fd` close the caller's descriptor; the code does not, and the model was
  corrected.
- `ArtifactTypeCorrect`, `ResponseTypeCorrect`, `CachesAlwaysSound`: `ArtifactSpec /\
  CacheSpec => []CachesSound`.  `ArtInv`: beyond the lock one launch at a time, and
  what it is about to publish is verified.  `RespInv`: without an overlap a writer
  is alone on its inode and what it wrote is what the inode holds; what a command
  remembers was at most one TTL old when it was stamped, hence the bound of two.
- `LeastExists` (a nonempty set of numbers has a least one) rests on the
  library's well-foundedness of `<` on the naturals.

### Environments and namespaces (`StorageProofs`)

- `EnvironmentTypeCorrect`, `EnvironmentsSound`: `EnvSpec => []EnvironmentSound`.
  `EnvInv`: only the holder of the identity lock is past the wait for it; by its
  place, an assembly knows who built the workspace and how far
  (`WorkspaceOf`); a container writes only to a workspace that is not complete;
  the identity about to be published names no sound output until the rename.
- `TreeTypeCorrect`, `DirectoriesSound`: `TreeSpec => []TreeSound`.  `TreeInv`: everything
  is inspected before anything is secured (`Hardening`), directories are found
  from the root down to the namespace (`Finding`), children are looked at only
  once the metadata is the command's own project's (`Populating`), and metadata
  once published stays.

### Collected output (`StreamingProofs`)

- `CollectionTypeCorrect`, `OutputIsAccounted`: `CollectionSpec => []OutputAccounted`, for
  any streams, chunks and capacity.  `CollectionInv`: what was accepted has been
  seen, is in hand or waits, in this order, unless the sink failed
  (`NothingLost`); the sentinel comes last; without a notice every chunk made was
  accepted.
- `CutStreamsAreAborted`: an action property, from `AbortSignalled`: whoever forces a
  stream has set the abort event before.

### The presentation (`HostPresentationProofs`)

For any streams, texts, capacities, numbers of events and every mode:

- `TypeCorrect`, with `WorkerTypes` for what the worker holds; `InboxOrdered`.
- `OutputInOrder`: `Spec => []DurableInOrder`.  `OrderInv` is one chain of admission
  numbers: what was shown, the calls to make, the open group of interactive mode,
  the item taken, the queue, the next number.  `WritesJoin` is the lemma about
  sequences it rests on, and `ShowOrder` its use for every display operation.
- `DroppedAreReported`: `Spec => []OmissionsReported`; `OccurrencesNeverLost`: `Spec =>
  []OccurrencesAccounted`; `EndsWithNothingPending`: `Spec =>
  []NothingPendingAfterClose`.  The three properties speak of states in which no
  call is pending, so none is inductive: `AccountInv` counts the pending calls in.
  `ToldInv`: dropped is told, about to be told and pending; `CountInv`: admitted is
  queued, in hand, in the group, replaced, told and about to be told; `EndInv`:
  from the closing round on nothing is pending and nothing more comes.  A sum over
  a sequence cannot be defined by recursion and reasoned about here; since no
  display operation makes more than four calls (`FewCalls`, proved along), the sum
  is written out (`Sum`), with `SumJoin` and `SumTail` as its two laws, and
  `ShowSums` says what each display operation adds.  `DiagnosticsAppend`, `DiagnosticsTail`
  and `DiagnosticsAdmit` count diagnostics in a queue that grows, is taken from and
  has a prefix replaced in the middle.

### The monitor (`StreamingProofs`)

- `TypeCorrect`; `DeliveredOnceAfterStop`; `BytesToldBeforeTheEnd`; `FirstRequestWins`, from
  the types alone; `BeatsOnSchedule`, with `ScheduleInv` (the next deadline is a
  slot after the last heartbeat's) and `NextDeadlineLater`, which rests on
  `Multiples`, arithmetic about the grid of the schedule.
- `MonitorInv`: who is inside the locked parts holds `_lock` (`LockInv`), a caller past
  its claim is alone and the producer is gone (`DeliveryInv`), published bytes never
  exceed the received ones and are equal once the last have been told
  (`BytesInv`).  None of these is inductive without the others.

### The owned process (`OwnedProcessProofs`)

- `ProcessTypesCorrect`.
- `PipesNeverPulled`: `_safe` believes `_started`, which lags behind the thread.  The
  invariant that closes the gap is `ReleaseInv`: nothing is released before a
  request, no request is made while a reader is being started, and then every
  reader that runs is known.
- `CompleteIsSettled`, with `SettledInv`: what was observed as settled is, and a
  complete status was published by a continuation that is gone, after which
  nothing acquires anything.
- `NoFailureLost`, with `Reporting`: while the status is behind the ledger, some
  thread is still going to publish.
- `EndsToldLast`, with `EndInv`: while the collection lasts, a stream whose end was
  told has no chunk in the queue and no reader that will put one there.
- `NaturalCollectionComplete`.  `Unasked`: as long as nobody asks for cleanup, chunks
  read are the chunks handed out, those queued and those in the hands of a reader;
  `Drained`: and the same from the natural request to the last flush.
  `WaitingAppend` and `WaitingTail` are the lemmas about counting in a sequence.

### The commands (`CommandProofs`)

For any number of commands of each kind, `CommandsAreSound`: `HostSpec /\ LaunchSpec
/\ InstallerSpec /\ RemovalSpec => []CommandsSound`, from four theorems:

- `CompanionsSound`.  `DoctorInv`: by its place, a command knows the gateway it found,
  whether it is saved and whether the override was applied (`CommandOf`); the
  companion is the first one, or the result of a pass over a loadable one
  (`CompanionInv`).  What a pass computes is induction over data, and is proved here
  all the same, for every companion: `HoldsAll` is induction as a statement about a
  set of numbers, `Computes` and `RecursionExists` prove that the function defined by
  recursion exists, `PassUnfolds` and `RestUnfolds` that it goes line by line.  `Tracks`
  is the invariant of the loop: the result so far is loadable, keeps what is kept
  in its order, and has the address once, in its table; `TracksAtFirst`, `TracksOn` and
  `RewriteSound` are its three steps.
- `LaunchesSound`.  `LaunchInv`: serial numbers are given once; a projection is its
  launch's own by the place of the launch (`LaunchOf`); names given by the daemon
  differ.  `GreatestIs` and `LeastNumber` are about the lowest free name.
- `CommandsStartInstalled`.  `InstallerInv`: only the last result is a failure
  (`Progress`), and as long as a container is alone in the Pi home, what it has
  settled stays as it left it (`Undisturbed`), file by file.  The attempt found that
  the model took a projection for a function of packages and so could not meet the
  duplicate `read_projection` refuses; the model was corrected.
- `ContainersAreRemoved`.  `RemovalInv` says who answers for the container at each place:
  the thread of the action, the continuation, or `assemble` itself.

### Versions (`VersionProofs`)

`VersioningIsSound`: `RangeSpec /\ UpdatesSpec => []VersioningSound`, from two theorems:

- `UpdatesAreSound`, for any releases, answers, filters and number of checks.
  `UpdatesInv`: the inventory loads and has the leaves of its targets; what was found
  of a target is what its provider's answer comes to (`FoundOf`), about the inventory
  as it still is; and a target whose block was taken over is up to date
  (`BlocksSettled`).  The promises speak of the blocks and not of the answers, so that
  `Changes` first says what an outdated result is: a version its provider named, a
  later one where versions have an order, with the artifacts that belong to it.
  `LoadsAgainHolds`, `ForwardHolds` and `AnnouncedHolds` follow from that, target by
  target.  For `BlocksSettled`, `RewrittenInventory` says that what is merged is an inventory
  again, and `NewestSettles` that a target at the newest its provider named is current
  when the same answer is classified again.
- `VersionsAreSound`, for parts of any size, any prereleases and any number of
  clauses.  `PrecedenceOrders`: `Less` is a total order on all versions, by
  `TripleOrder` for the releases and `LabelOrder` for prereleases, whose first
  difference `PrereleaseLessIs` names.  `TokenMeans` and `HyphenMeans`: a branch is a set
  of bounds, of which each is read as a comparison of triples (`FromMatches`,
  `BelowMatches`), so that what a token or a hyphen range takes is what its notation
  says, token by token.  `ContradictsIs`: with no more than the tightest bounds
  (`LowerIs`, `UpperIs`) it is decided whether any version is left.  The points
  of constraints are the three a clause of the model may name, with one
  between any two; the specification only asks a question, so that `RangeInit` is its own invariant.

The attempt found that the model's rules of the providers and of the ranges were
written with cases that overlap; they were made exclusive, and the bounds of a
branch a set.

### Only model-checked, and why

- Liveness: `LockIsReleased`, `RecoveryCompletes`, `FinishReturns`, `ShutdownReturns`,
  `WorkerEnds`, `EverythingEnds`; fairness and ENABLED are out of the prover's reach.
  `CollectionSound` for its `GoesOn` (ENABLED) and `Nearer` (a fold over the streams);
  its first conjunct is `CutStreamsAreAborted`.
- `BudgetSuffices`, which is about a clock that waits for prompt threads.
- `TextSound`: what the filters compute of every stream is induction over data, and
  the projector's `Drain` is a RECURSIVE operator, beside which the prover has no SMT.
- `NpmSound`: agreement of computed results with definitions over the listed locks;
  there is no invariant beyond them.

## 5. Not modelled

The confinement of the build context, npm's fetch lines and the classification of
diagnostics, the terminal UI, argument parsing, the shapes of documents and
the developer scripts.  Of the parts that are modelled, what is left out stands in
the header of the module, above, and in `PROJECT.json` under the component: mostly
formatting, digests, error classification, retained tails and return codes.  The
abstractions that a property could notice are the atomic batches of unlinks and
the removal of snapshots in `BuildStore`, the deadline flag in `OwnedProcess`, and
the content of a heartbeat in `ActivityMonitor`.

## 6. Plan

What is left, in the order of what it would say:

1. The windows of `UrlRecognizer` against the automata of `aho_corasick`: that a cursor
   knows what the last symbols of its layer end in.
2. `NpmSound` for every lock: that the closure the parser computes is the least set
   closed under the needs, which can be stated without recursion.
3. The resurrection of a removed snapshot at a power loss, and the deadline flag of
   `OwnedProcess`.
4. The confinement of the build context, whose files live beside the snapshots.

Runs stay few: a component gets one run for safety and one where liveness needs
an instance of its own; regimes are chosen in the initial state, as in
`ActivityMonitor`, rather than in one cfg each.
