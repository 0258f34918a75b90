# wgctrl-go in TLA+

A verification development kept beside `wgctrl-go`: TLA+ modules translated from
the Go source, TLC configurations that check them on small instances, and
theorems that TLAPS checks for every instance. File and line references are to
the repository.

1. [The system](#1-the-system)
2. [The modules](#2-the-modules)
3. [The runs](#3-the-runs)
4. [The proofs](#4-the-proofs)
5. [Where the code and its documentation differ](#5-where-the-code-and-its-documentation-differ)
6. [What is not modelled](#6-what-is-not-modelled)
7. [Plan](#7-plan)
8. [Running the checks](#8-running-the-checks)

## 1. The system

`wgctrl-go` controls WireGuard devices. One library (`client.go`, `wgtypes`) has a
backend per platform; the `wg`, `wg-quick` and `wgd` programs use it.

| Component | State it keeps | Operations | Talks to |
| --- | --- | --- | --- |
| Names store, `internal/wgmeta` | one JSON file of peer names per interface, a lock file beside it, a mutex per process | `Names`, `Update` | file system, `flock` |
| Apply, `internal/wgconf` | none between calls | `Apply`, `Sync`, `AttachNames` | a device client, the names store |
| REST server, `internal/wgapi` | `Server.mu` | handlers of `/devices`, `/devices/{name}`, `/devices/{name}/conf` | `wgconf`, `wgconfig`, the client |
| `wg` command, `cmd/wg` | none; one process per run | `setconf`, `addconf`, `syncconf`, `show`, `showconf`, `list`, `syncgitee` | `wgconf`, the client, the Gitee API |
| `wgd`, `cmd/wgd` | the HTTP server | start, shutdown on a signal | `wgapi` |
| Public client, `client.go` | list of backends | `Devices`, `Device`, `ConfigureDevice` | the backends |
| Linux kernel backend, `internal/wglinux` | a netlink socket | list, dump and merge, configure in batches | the kernel |
| Userspace backend, `internal/wguser` | none | find sockets, `get=1`, `set=1` | wireguard-go |
| Windows, OpenBSD, FreeBSD backends | a handle cache and a size guess (Windows) | the same, by ioctl | the kernel |
| `wg-quick`, `internal/wgquick` | interface, addresses, routes, policy rules, DNS entry, the `.conf` file | `Up`, `Down`, `Save`, `Strip` | `ip`, `resolvconf`, `sh`, the client |
| Parser, `internal/wgconfig` | none | `Parse`, `Encode`, endpoint resolution with retries | DNS |

What is hard about it:

- a configuration is applied in two places, the device and the names file, which
  no transaction spans (`conf.go:27`, `conf.go:39`);
- writers are goroutines of one `wgd` and any number of `wg` processes. `Server.mu`
  orders the former only; `processMu` and `flock` protect the names file and
  nothing else;
- processes are killed and machines lose power between any two steps;
- configurations may mention a key twice, remove and add it, or update only;
- large configurations reach the kernel in several requests, and large answers
  come back in several messages that have to be merged; `wg-quick` makes a dozen
  changes that have to be rolled back;
- interfaces and daemons come and go while a call asks for them;
- where the kernel is asked by ioctl the size of an answer is guessed and grows
  between two calls, and on Windows goroutines share a cache of paths and a guess;
- `wg-quick` rewrites its own file, in two steps and with a temporary file of a fixed name.

What makes each part correct:

| Component | Correct when |
| --- | --- |
| Names store | no update is lost, no torn file is ever found, every call returns |
| Apply, REST server, `wg` | names follow the peers; requests through one `wgd` look atomic; a failed request can be repaired by repeating it; the lock is given back |
| Public client, backends (reading) | what is returned was there; what was there is returned; "missing" is said only of what is missing; calls return |
| Kernel backend (configuring) | the messages together do what one message would do, also on a retry |
| Ioctl backends (configuring) | the counts, flags and order in the memory say what the configuration says |
| `wg-quick` | an interface that is up is isolated; one that is down has left nothing; runs do not disturb each other |
| `wg-quick`'s file | both parsers read it alike; a save leaves a whole file with the device of one moment |
| Parser | the configuration is what the text says, line by line; what is shown can be put back; lookups end |
| REST server, one request | a refused request has changed nothing; a broken upload damages its last entry at most |
| `wg syncgitee` | no published node is lost, a key is there once, the latest view of it wins |

`PROJECT.json` lists every hazard with its line and the properties that cover it.

## 2. The modules

### Names store: NameFile, AtomicNames, NameStore

`NameFile` has the constants: processes with their goroutines (`Task`,
`ProcOf`), files, the maps they may hold, and `Absent`, `Bad` (not JSON) and
`Torn` (written in part). A map and a callback are values: `Updates` is a set of
functions from maps to maps, and nothing depends on what a name looks like.

`NameStore` is `store.go` with `lock_unix.go`, one action per system call:
`LockMu`, `LockFile`, `ReadNames`, `CreateTemp`, `WriteTemp`, `SyncTemp`,
`RenameTemp`, `UnlockFile`, `UnlockMu` for `Update`, `LockMu`, `Load`,
`UnlockMu` for `Names`, and `UpdateFails` for an error at any of them with the
deferred clean-up. `file` is what a path holds now, `disk` what it may hold after
a power failure (the rename is atomic but the directory is not synced, so the old
content stays possible until `Settle`). `Kill` ends a process, and the kernel its
flocks; `PowerLoss` ends all and picks a content of `disk`.

`AtomicNames` is what callers are promised: `Update` and `Names` happen in one
step, or fail without effect; a power failure may bring back an older version,
never a mixture. `NameStore` implements it under the mapping that a call is done
once its result is decided (`phase`).

### Applying configurations: ConfData, ConfLoops, ConfApply, AtomicConf

`ConfData` keeps of a `wgtypes.Config` what decides which peers exist and how
they are called: `replace`, and per entry the key, `remove`, `updateOnly` and the
name (`Keep` is a nil pointer, `Clear` a pointer to `""`). `PeersAfter` and
`NamesAfter` say in closed form what the two loops over the entries do;
`SyncPeerConfigs` adds the removals of `Sync`. `ConfLoops` is the same two loops
entry by entry; its run shows, and `ConfApplyProofs` proves for every configuration,
that the closed forms are what they compute, so that `ConfApply` can use them.

`ConfApply` is one task per request: a handler of `wgd` or a run of `wg`. Its
`pc` goes through `parse`, `lock`, `current` (Sync's look at the device),
`configure`, `readback`, `save`, `reply`; `POST /devices/{name}` locks before it
parses, `.../conf` after, a command never. Entries may fail in the middle of
`Configure`; the save may fail; a handler is stopped when `wgd` is; interfaces come
and go. `Store.Update` is one step here, which `FileProofs!StoreIsAtomic`
justifies. `AtomicConf` serves a request in one step; `Promise` in `ConfApply` maps
to it, a request that has configured its device counting as having saved its names.

### Configuring through the kernel: KernelData, KernelConfigure

`KernelData` is the kernel's `set_device` as the code relies on it (external),
`EncodePeer` and `shouldBatch`. `KernelConfigure` is `buildBatches` loop by loop
(`BeginPeer`, `Chunk`, `ClearReplace`) and the sending of the messages (`Send`,
`SendFails`), with a caller who tries again. `goal` is a history variable: what
the whole configuration in one message would leave.

### Reading and choosing a backend: Devices

`Devices` is `client.go` over the two backends of Linux. `host` holds the kernel's
interfaces and the sockets (a socket may be `Stale`); `at` is the backend being
asked, `todo` the names left. `Piece` is a message of a dump, cut at any place and
merged by `mergeDevices` (`known` is `knownPeers`); `Line` is a line of a daemon's
answer. `Happens` changes, adds or removes an interface, or kills a daemon, at any
moment. `seen`, `present`, `changed` and `wrote` are history. A dump is taken to be
of one moment: the code ignores `NLM_F_DUMP_INTR`, so a change during a dump that
the kernel flags is outside the model.

### Reading and configuring by ioctl: IoctlMemory, IoctlDevices

`IoctlMemory` is the memory of one ioctl. On Windows and OpenBSD it is flat: a
structure is a cell, an address the number of a cell, and `ParseConfiguration`,
`ParseDevice`, `BuildConfiguration` walk it by sizes and counts as the code does. On
FreeBSD it is a name-value list (`ParseList`, `UnparseConfig`), a function whose domain
is what has been set. `DeviceCells`, `DeviceList`, `CellsMessage`, `ListMessage` are the
kernels' side (external).

`IoctlDevices` is the three clients. One record per goroutine (`task`) holds its call
and its local variables; `cache` and `guess` are the fields that goroutines of Windows
share, each guarded by its mutex for one step. Windows: `Snapshot`, `Scan`,
`Publish` are `refreshInterfaceCache`, then `Lookup`, `Open`, `OpenFails`,
`GetWindows`; the others: `Count`, `Fetch` (OpenBSD and FreeBSD list the
members of a group), `GetBSD`; `Check` is FreeBSD's way with update-only entries; `Set` is the
second ioctl. `Happens` creates, removes or changes an adapter, or makes the system
refuse (`denied`), between any two of them. `had`, `before`, `hurt` and `stale` are
history.

Taken from the systems, not from `src/`: a path belongs to one name; the list of adapters
is of one moment and each is asked for its name and state later; an open handle does not
outlive its adapter; a kernel answers a buffer that is too small with the size it needs. A
FreeBSD list is read as a whole, whatever is behind it in the buffer.

### wg-quick: WgQuick

`WgQuick` is `Up`, `Down` and `Save` as sequences of commands on a host of links,
routes, counted policy rules and resolvconf entries; one action per command (those
that change nothing the properties see are merged: addresses, MTU and link up are
`SetLinkUp`). `UndoRules` and `UndoLink` are the deferred functions. `Killed`
stops a run anywhere; `WgSet` is `wg set` by somebody; a stray `down` is one on an
interface that is not up. No two runs work on one interface.

### The file of wg-quick: QuickText, QuickSave

`QuickText` is `wgquick`'s own `Parse`, `Encode` and `Strip` over the lines of
`ConfText`, with three kinds more (`address`, `hook`, `net`); a name is a comment to it.
`WireGuardConfig` is what `Up` asks of the device, `ApplyDevice` what `Save` writes over
the file's keys and peers.

`QuickSave` is `Save` by system call: `ReadFile`, `ReadDevice1`, `OpenTmp` (truncates what
an earlier run has left), `WriteLine`, `CloseTmp`, `Rename`, with `WriteFails` and
`SaverEnds` anywhere. `content` keeps every file ever created, `path` and `tmp` say which
of them the two names stand for, so that a run can go on writing into a file that another has
renamed. `PowerFails` cuts off a file that is not on the disk yet (`Flush`). `first`,
`published`, `overlapped` and `powerless` are history. Lines count as equally long where two
runs write over each other.

### A request and its text: ConfText, RestRequest

`ConfText` is `wgconfig`. A text is a sequence of lines, a line its kind and its
value; one action of `ParseStep` per line, with the variables of `Parse`: `section`,
`named` (`peerHasName`), `cfg`, and `tries` for the loop in `resolveEndpoint`.
`Encode` gives the lines of a device; it stops, as `encodePeer` does, at a name it
refuses. `Meant` is a definition of the result that does not go through the text.

`RestRequest` puts a client in front of it and the device behind it. `at` is where
the request is: `peek` (`withLogging` reads the body ahead; it may arrive whole, broken
off anywhere, or with an error), `auth` (`withAuth`, the routes, the methods), `parse`,
`sync`, `configure`, `readback`; every `Reply` leads back to `idle`. `shown` keeps the
last configuration shown and `before` the device when the request came, for the
properties. `SetDevice` of `KernelData` and `NamesAfter` of `ConfData` are what
applying does; other clients, and what is left when applying stops in the middle, are
in `ConfApply`. The key of `wgd` is taken to be set, as `cmd/wgd` makes sure.

### Publishing nodes: GiteeSync

A run of `wg syncgitee` on each host: `ReadDevice`, then `CreateGist`, or `ReadGist`
and `UpdateGist` with `Merge`; `RequestFails` ends it anywhere. Whether the lines
of a node can be parsed again is a property of the node (`readable`). The user
tells a host the file's ID (`TellID`). `seen`, `stale` and `latest`
are history.

### Modules for TLC

An `MC` module gives the constants their values. `MCServer`, `MCKernels` and `MCTexts` put
components that share no variable into one run: `part` is chosen in the initial state and
never changes, the variables of the other parts rest at a fixed value, and every
property holds of a part at rest.

In every component module the operators introduced as "a slip to exclude", and the
few next to them that vary an action, are no part of `Next`: each is a change to the
action after it that a property has to notice (`mutants` in `PROJECT.json`).

## 3. The runs

| Run | Instance | Shows |
| --- | --- | --- |
| `store` (NameStore.cfg) | `wgd` with two goroutines, one `wg`; one file; one key, a callback that toggles its name | `ReadIsCurrent`: no update overwrites one it has not seen. `WholeVersions`: no torn file, also after a power failure. `Atomic`: implements `AtomicNames`. `CallsReturn` |
| `server` (ConfServer.cfg) | two handlers, one interface, six requests of all kinds, no faults; and, as a part of its own, the loops over every configuration of up to three entries about a peer and the device's own key | `NamesFollowDevice`, `InStep` (its inductive strengthening), `SyncExact` (syncconf leaves exactly the peers asked for), `Serialised` (implements `AtomicConf`). `ClosedForms`: the closed forms are the loops, after every entry. `NamesFollowPeers`: both end in agreement |
| `faults` (ConfFaults.cfg) | two handlers and a command, two requests, every fault | `SetconfRepairs`: repeating a request as setconf leaves no stale name. `RequestsAnswered`: `Server.mu` is given back |
| `command` (ConfCommand.cfg) | a handler and a command | violation: section 5 |
| `kernels` (Kernels.cfg) | Linux: one or two entries, every combination of flags, messages of two IPs, one refusal. The others: two goroutines, two adapters, devices that are smaller and larger than the first guess, one change meanwhile | `MessagesFit`, `RetryCompletes` (a retry ends where one message would have), `LaterMessagesKeep`, `CallReturns`. `IoctlTruthful` (what is read was there, whole, and nothing is left out), `IoctlErrors` (errors are true), `ConfiguresAsAsked`, `IoctlReturns` |
| `key_twice` (KernelTwice.cfg) | a peer removed and added again | violation: section 5 |
| `stale_handle` (StaleHandle.cfg) | a goroutine of Windows that reads a device twice | violation: section 5 |
| `devices` (Devices.cfg) | two names, two backends, devices of up to two peers and two IPs, one change per call | `Truthful`, `Complete`, `ErrorsAreTrue` ("missing" was missing, a call nothing disturbs succeeds, one backend is configured), `ReadsBack`, `CallReturns` |
| `quick` (WgQuick.cfg) | two interfaces, four configurations, five kinds of trouble | `RulesHaveRoutes`, `Isolated`, `RulesPaired`, `DownCleans` |
| `quick_saved` (QuickSaved.cfg) | the same with `wg set` and `save` | violation: section 5 |
| `texts` (Texts.cfg) | any REST request of a few hundred, then the configuration is shown, the device is changed or the change fails, and what was shown is put back in each mode; two hosts with two runs of `syncgitee` each, one file, three keys; every file of `wg-quick` of a few thousand; two runs of `save` | `ParsedAsWritten`, `PutBack`, `DamageIsLast`, `StatusIsTrue`, `Answered`. `Published`: a key is in the remote file once, and what it holds is the latest that no host has written over unread. `FilesAgree`: the two parsers read a file alike, `Strip` and `Encode` lose nothing. `SavedWhole` |
| `sync_clears` (RestSync.cfg) | the REST requests of `texts` | violation: section 5 |

Bounds and why they are enough:

- *Processes.* Two goroutines of one process and a second process are the smallest
  system in which both `processMu` and `flock` have waiters. Actions treat tasks
  alike, and `FileProofs` and `ConfApplyProofs` have no bound on them.
- *Callbacks.* One that toggles a name makes every lost update visible: two toggles
  must leave the map as it was.
- *Entries.* Three entries about one key contain every order of an addition, a
  removal and an update (`Applied`); the device's own key is there because the
  device never adds it.
- *Messages.* With `IPChunk` 2 and `PeerChunk` 1 instead of 256 and 32, three IPs
  and three operations end before, at and after a boundary of either list and of both
  together. `Refusals` is 1: a second failure meets nothing that the first did not.
- *Changes.* One change during a call (`MaxChanges`, `MaxHappens`) separates what was listed
  from what is read, and one size from the next. The proofs of section 4 need no bound.
- *Sizes.* `Guess0` is 2 cells instead of 512 bytes: the empty device fits, the other does not,
  and the size that one goroutine learns is the first guess of the other.
- *Scripts.* `Script` is four requests: one that leaves the device in an odd state, one
  that shows it, one that changes it unless it fails, one that puts back what was shown. The
  texts have up to seven lines: after the header of a peer any two, or a peer, one more line
  and another peer, which is what a variable carried from line to line can get wrong. `Retries` is 1: the
  second lookup is the last, as the sixteenth is with 15.
- *Files.* With one file (`MaxGists`) and two runs of two hosts (`MaxRuns`) the second
  run of each meets what the other wrote, read before or after it. More files are
  more of the same: nothing relates them.
- *Saves.* `MaxSaves` is 2 runs of two processes (`Saver`): one after the other, overlapping, or one
  that finds the temporary file of one that was killed. The file and the device are two each,
  with nothing there among the files.
- *Weather.* `may` is chosen once per behaviour from sets of kinds of trouble
  (`Weathers`), so that a property can say which kind it survives and each kind is
  explored with the ones it interacts with. `MostRules` bounds the copies of a rule
  that repeated failures leak.

Where the properties of `wg-quick` are conditional, the condition is the result:
`RulesHaveRoutes` survives everything but a failing rule command, after which the
first rule of a pair stays (`quick_linux.go:239` adds two rules and records them
only when both are there). `Isolated` does not survive a `down` of an interface that is
not up, nor one after a killed or failed `down`: it deletes the suppressing rule of
another interface, because `ip rule del` removes any one copy of it. The DNS entry
of a failed `up` stays until the next `down` (`DownCleans`); the rollback does not
touch it.

Truncated answers: a daemon that is killed while it answers leaves an answer that
`parse.go:51` accepts as whole. `Truthful` bounds the damage: the result is the
beginning of a device that was there.

Deadlock is checked in all runs but `kernels`, `stale_handle`, `key_twice`, `texts` and
`sync_clears`, whose calls, runs or script come to an end. (In `server` the loops that have
finished stutter, so that the handlers beside them are checked.)

Fairness. `NameStore` and `ConfApply`: weak fairness of each task's steps (a
goroutine runs on) and strong fairness of taking a lock (`sync.Mutex` hands itself
to a starving waiter after a millisecond; the kernel queues flock waiters in
order). `ConfApply` asks for parsing to end. `RestRequest` (weak fairness of `Serve`: `net/http`
runs the handler on) shows that it does with a finite number of retries; with
`WG_ENDPOINT_RESOLUTION_RETRIES=infinity` it need not. `KernelConfigure` and `Devices`: weak fairness of
the call's own steps, that is, the kernel and the daemon answer; the code has no
time limit of its own to fall back on. `IoctlDevices`: weak fairness of each
goroutine's steps. On Windows that is not enough when the system refuses for ever to open a
path that is in the cache: `interfaceHandle` tries again for ever (`client_windows.go:89`), and
`IoctlReturns` says that this is the only way not to return. No failure, request or change is ever fair.

## 4. The proofs

Each module with theorems is about one component, except `ConfApplyProofs` (the requests
rest on the closed forms of the loops) and `FileProofs` (the two kinds of file that several hosts or
processes read, change and write back). `ListProofs` has what they share: facts about
the first entries of a list, lists put together, `SetToSeq`, the last element of a set of numbers, and the
recursion by which the folds of the community modules are defined. The library's induction
rules take an operator as a parameter and cannot be used, so an induction over the length of
a list is `Upwards`: a set of numbers that has the first and with each the next has all.

### Names store

`FileProofs`, from the assumptions on constants in `NameFile` and
`NameStore` only (any processes, goroutines, files, maps and callbacks):

- `StoreConsistent`: the inductive invariant `Consistent`. `ReadIsCurrent` alone is
  not inductive: it needs that the file lock is owned from the read to the unlock
  (`FlockHeld`) and that a call stays what it was (`CallFits`); `WholeVersions` needs that
  a temporary file is complete and synced before the rename (`TempFits`).
- `NoLostUpdate`, `NoTornFile`: its two consequences.
- `StoreIsAtomic`: `Spec => Atomic`, refinement step by step: `RenameTemp` is the
  abstract `Update`, `Load` is `Names`, an error is `Fail`, the rest stutters.

### Applying configurations

`ConfApplyProofs` begins with lemmas about `PeersAfter` and `NamesAfter` for every
configuration: which entry decides about a key (`LastDecidesUnique`), what one more
entry changes (`OneMorePeer`, `OneMoreName`), that names stay with peers
(`NamesStayWithPeers`). On them rest:

- `LoopsHaveClosedForms` (`ClosedForms`) and `LoopsKeepNames` (`NamesFollowPeers`). The closed
  forms hold of the entries passed so far; the invariant adds what the first loop leaves to the
  second.
- `TypesHold`: the types of `ConfApply`, under every fault.
- `SetconfLeavesNoStrays` (`SetconfRepairs`), under every fault and for every system: what a
  request as setconf saves is computed from the peers it read back, and `NamesAfter` names no others.
- `HandlersInStep` (`InStep`) and `NamesFollow` (`NamesFollowDevice`), if only handlers of one
  `wgd` are at work, nothing fails and no two interfaces share a file (`Undisturbed`). The run
  `command` shows that the first is needed. So is the last: in the mode "one JSON that holds all
  interfaces" (`server.go:78`) the map in the file is flat, and a setconf of one
  interface clears it for all (`conf.go:40-44`). `NamesFollowDevice` is not inductive; `InStep`
  is: it says in addition who holds `Server.mu` when (`LockHeld`) and that what
  was read back is still true (`Fresh`).
- `SyncIsExact` (`SyncExact`) and `RequestsAreSerialised` (`Serialised`), for `Undisturbed`
  systems. To `InStep` the invariant adds what a
  handler has in its hands when it configures the device (`Accepted`): the
  configuration that was asked for, with the removals that are right for the peers of this
  moment. That the moment lasts is the lock's doing. `Configure` is the step that serves
  the request in `AtomicConf`, `Save` comes unseen. `SyncIsExact` needs that a file
  knows no removals and no update-only entries (`SyncsFiles`): `wgconfig.Parse` makes none.

### Configuring through the kernel

`KernelConfigureProofs`, for every configuration, every `IPChunk` and `PeerChunk` and any
number of refusals:

- `BatchesFit` (`MessagesFit`). The invariant (`Building`) says it of the messages that are ready,
  and of the entry being cut that it is empty only if it was from the start.
- `RetriesComplete` (`RetryCompletes`) and `BatchesKeep` (`LaterMessagesKeep`), of configurations
  that name no key twice, as the properties are (the run `key_twice` shows why). The invariant
  (`Completing`) has three parts. `Cut`: what is ready, and what is left of the entry at hand,
  does to *any* device what the entries passed so far do. `Underway`: when messages have been
  sent, the device is where they have taken one that the whole configuration would have taken to
  the goal. `ToGoal`: the whole configuration would take the device, as it is, to the goal; this
  is what a retry begins with, and it has to survive a refusal in the middle. Two facts about
  devices carry it: a part of an entry and the rest after it do what the entry does
  (`PartThenRest`), and a part that was done before loses nothing when the entry is done
  (`PartFirst`). Both follow from what a list of allowed IPs does to the owners of IPs in closed form
  (`GivenParts` in `KernelDataProofs`), which is proved along the recursion of the fold.

### Reading and configuring by ioctl

The last part of `KernelConfigureProofs`, for any goroutines, names, paths, devices, plans
and first guess, and however often something happens:

- `IoctlErrorsAreTrue` (`IoctlErrors`). All that the errors depend on is which adapters there are and with
  which paths; two moments that agree in this are `Alike`. The invariant (`Asking`) says of a
  goroutine in a call what it has `Witnessed`: a moment alike to now; on Windows, moments alike
  to all that the other calls have seen; and that a path does not change under an adapter.
  So what a half-made map, the shared cache or a path says was so at one of these moments
  (`Scanned`, `Cached`, `Opening`), although another goroutine may have published it. A call without
  events is where it has to be (`Quiet`), and what was not found was missing (`Missed`). `stale`
  marks the calls that began with a cache that was wrong already; of them `Cached` says
  nothing until a new map is published. Assumed of the constants: `IoctlTypes` and
  `PlanTypes` (a list asks for no name, the other calls for one).
- `ConfiguredAsAsked` (`ConfiguresAsAsked`). The memory has a closed form: it is a head and
  behind it one block for each peer, each block beginning where its predecessors end
  (`BlockPlaces` of `ListProofs`). `WalkPlaces` says that the walk by counts comes to exactly these
  places; `WindowsMessage` and `FreeBSDMessage` say that what the kernel reads there is the
  configuration. The invariant (`Carrying`) is that a goroutine which is about to send holds the memory
  that was made of its own call.
- `IoctlReadsAreTrue` (`IoctlTruthful`). `CellsRead` and `ListRead` say that what the three parsers
  make of what a kernel wrote for a device is the device, each peer once. The invariant
  (`Telling`) says what a call has read so far (`Kept`) and which names are being read or left to do
  (`Upcoming`): no device is in two of these places, and a device that was there at all moments of the call
  is in one. At the moment at which a list gets its names this is so because the
  map it goes over is true to moments of the call (`Mapped`, over `Scanned` and `Witnessed`) or
  because the call has seen what there is (`Present`). It needs that a kernel has a device to
  write whatever was sent before (`SentDevice`, over `Carrying`), and `FiniteData`: keys and
  addresses are finitely many, or a device could not be listed.

### Reading and choosing a backend

`DevicesProofs`, for all devices, cuts and numbers of changes, from the assumption
`DeviceTypes` that the kernel lists a peer once:

- `DeviceTypesHold`: the types.
- `ReadsAreTruthful`: `Truthful`. The invariant (`Reading`) says that a device in
  `seen` is what has been merged and what is to come together, one peer at most being
  on both sides of the cut (`Joined`), and that `knownPeers` is where the peers are
  (`KnownPeers`). `MovesOn` shows that a message or a line keeps this.
- `DevicesAreComplete` (`Complete`), `ErrorsTellTheTruth` (`ErrorsAreTrue`) and `DeviceReadsBack`
  (`ReadsBack`). Each says something of the end of a call; the invariant (`Progress`) says of its
  middle what has been asked for: no backend has been changed and what was there all the time is
  there (`HostSeen`); a call for one name has only left a backend behind that did not always
  have it (`ForOneName`); what was there all the time has been read, waits to be read, or is on
  the backend that comes next (`Listing`); as long as nothing happens nothing that was listed is missing
  (`Listed`); what was written is the first of its name (`WrittenFirst`).

### wg-quick

`WgQuickProofs`, for any interfaces, configurations and copies of rules, if no two runs share
an interface (`OwnInterfaces`; section 6 says why):

- `DownLeavesNothing` (`DownCleans`), whatever fails and whoever is killed. The invariant (`Cleaned`)
  needs that resolvconf knows no interface whose file has no DNS field (`DNSInFile`), which is true
  because `Save` keeps the network fields of the file.
- `RulesFollowRoutes` (`RulesHaveRoutes`), `DefaultRoutesIsolated` (`Isolated`) and
  `RulesComeInPairs` (`RulesPaired`), each under the weather that the property names. The
  invariant (`RulesAndRoutes`) has three parts. `Kept`: how far a run is with its routes (`Ahead`,
  `Done`), and that the device has what its file says (`SetUp`). `Ruled`: of each rule for a table
  of ours, that an interface whose route is in the table secures it (`Secured`). `Held`: who holds the
  rules of a family (`Holds`), and that the suppressing rule is there once for each holder
  (`Counted`). A table belongs to one interface and has one default route of a family, so that
  nobody deletes the rules of somebody else; that the number is right needs the counting of a
  finite set.

  They rest on `QuickTypes`: there is one default per family (`0.0.0.0/0` and `::/0`, `config.go:140-143`),
  numbers of tables are none of the words for tables, and runs and prefixes are finitely many.

### REST server

The first part of `TextProofs`, for any script of requests, any text and any device:

- `StatusCanBeTrusted` (`StatusIsTrue`). The invariant (`Served`): the device is as the request found
  it until it is configured (`Untouched`), after which there is no reply that calls the request
  wrong; a device that is not there has been missing during the request (`Gone`).
- `TextsAreRead` (`ParsedAsWritten`). `Meant` says what a text means without going through it:
  sets of lines, put in order. `MeantMore` says what one more line adds to that, along
  `UnderMore` (which lines belong to a header), `InOrderMore` (the new line comes last) and
  `FlattenMore` (lists add up); `ParsesOn` says that every step of the parser adds the same, or refuses
  the line. For that it has to know in which section the lines so far end (`Ends`),
  and that lists are lists (`Readable`), of what a client sends, of what is left of it and of what `Encode`
  writes (`EncodeReadable`), as that may be put back. The invariant (`Reading`) carries these through a
  request; that `Encode` can write a device needs finitely many peers, which `SetDevice` keeps
  (`PeersFinite`).
- `DamageStaysLast` (`DamageIsLast`), from the same invariant: what is left of a text is its
  beginning and a line that starts no section (`BreaksOff`), and each line after a beginning changes its last
  entry or adds one (`FollowsWhole`).
- `ShownCanBePutBack` (`PutBack`), the third part of the module. The way out: the text that `Encode` writes
  is a heading and then, peer by peer, a few lines; what each of them adds is known from `MeantMore`, so
  `PeerLinesMean` says what a peer's lines add and `EncodeBack` what the whole text means:
  the same interface and one entry per peer. If a name is odd the text ends in a header
  without a key, so nothing comes of it. The way in: applied one by one, those entries leave the peers so
  far (`OnlyPeers`) as they were, and each next one adds its own setting and IPs; `NamesBack` says the same of
  the names. The invariant (`Restoring`, kept beside `Reading` and `Served`) says of a request that brings back what was
  shown (`Returning`) that its configuration says that device (`SaysShown`) until it is applied, and
  that the device is that one afterwards (`Restored`). It needs as well that only peers have settings
  and IPs (`Tidy`, `SetDeviceTidy`), as an entry that gives them to a key without a peer would
  be nowhere in the text; and that all values that are parsed or broken off are values (`GoodValues`).

They rest on `BodyTypes` (keys and addresses are finitely many bytes, a text is a list of
lines, a structured configuration has a list of peers) and `HostResolves` (what a host name stands for
is an endpoint, and no endpoint is a host name).

### Publishing nodes

`FileProofs`, for any number of hosts, keys, files and runs:

- `FilesSayLatest` (`Published`), whatever fails and whichever answer is lost. The invariant
  (`Filed`): a run has collected one node per key, only its own with the private key (`Collected`);
  what it merges with is what it has seen of its file (`Running`); a file that no run has written over unseen
  is what `Published` says, with "no key twice" in the place of the number (`True`). `MergeParts` says what
  `Merge` leaves, the new nodes and the old ones about other keys, and is proved along its loop
  (`MergeRounds`). It needs `HostKeys`: finitely many keys, and no host called "nobody".

### The file of wg-quick

The second part of `TextProofs`, for any runs of `save`, keys, addresses, lists and lines:

- `FilesAreReadAlike` (`FilesAgree`). The parser of `wg-quick` and that of `wg` go through the
  same lines; after each that `wg-quick` can read, what it holds is, peer by peer, what the lines so far mean to
  `wg`: the same key and setting, the addresses as operations that set them, a name beside them
  (`Agrees`, `Alike`, `AgreesOn` over `MeantMore`). So it is for a whole file (`FilesMean`) and for what `Strip` leaves
  of it (`StripReads`), and what agrees is sent to the kernel alike (`AgreesMade`). That `Encode` loses nothing is
  `EncodeParse`.
- `SavesAreWhole` (`SavedWhole`). The invariant (`Kept`) says what a run of `save` holds at each step
  (`Fits`): the file it has read, with the network part of the beginning (`SameNet`); that file with a device
  in it (`Merged`); a temporary file with the first lines of this (`HalfWritten`). As long as one run
  at a time has the temporary file open (`OneWriter`), the file is whole after each rename (`LastSaved`), and
  what can be read of it has the network part of the beginning (`NetStays`), so the next run merges into
  the same. This rests on `EncodeParse`: `Parse` undoes `Encode`, which is proved along the lines,
  from what each of them does to what has been read (`GotHeader`, `GotField`, `GotPeer`) and what texts
  one after the other do (`RunBoth`).

It needs `SaveTypes` and `SourceTypes` (what a device has, and files that are lists of lines; keys and addresses
are finitely many) `ReadableValues` (what cannot be read is no value, and the zero key is
nobody's: `parse.go:76` takes it for a missing one) and `MissingValues` (what is missing is no value).

### What is only model-checked

- Liveness, and everything with `ENABLED`: `CallsReturn`, `RequestsAnswered`, `CallReturns`,
  `IoctlReturns`, `Answered`.

Each invariant of a run that passes is stated by a theorem, so are the action properties and the
implementations; these five are not, because TLAPS 1.4.5 proves neither.

## 5. Where the code and its documentation differ

- `command`: `NamesFollowDevice` fails when a `wg` command works beside `wgd`. Apply
  reads the device back and saves names later, with no lock over both
  (`conf.go:30-61`); the comment promises names from the actual state of the
  device (`conf.go:20`).
- `key_twice`: in a configuration that is cut into messages, a later entry about a
  key loses its preshared key, endpoint, keepalive and `ReplaceAllowedIPs`
  (`configure_linux.go:158-167`, `types.go:294`).
- `quick_saved`: `down` takes the rules to delete from the file of today
  (`quick_linux.go:129`). After `wg set` and `save` these are not those of `up`.
- `stale_handle`: on Windows a device that is there is reported as missing when the cache has the
  path of an earlier adapter with its name: the entry stays until another call
  refreshes the map (`client_windows.go:106`). `client.go:60-61` says it of one that does not exist.
- `sync_clears`: `Sync` only appends removals (`conf.go:94-106`); a preshared key or a
  keepalive that the device has and the file does not stays. The design
  (`docs/superpowers/specs/2026-08-22-wg-cli-compatibility-design.md:176`) and its plan
  (`docs/superpowers/plans/2026-08-22-wg-cli-compatibility.md:464`) want them cleared.

Without a run of its own: the comment on `wgapi.Config` says that an explicit `null` clears a
setting (`json.go:113-114`); `encoding/json` leaves a nil pointer, as if it were absent,
and `RestRequest` models that.

## 6. What is not modelled

- Byte formats: netlink attributes, ioctl structures, JSON, the characters of a line.
  What they carry is modelled, how they are
  laid out is not. The numeric edges in them are listed as hazards.
- `show`, `list`, `wgcli`, `examples`: output of a device that was read.
- `wgd` apart from its end and its requests: flags, the banner, self-update;
  `genkey`, `genpsk`, `pubkey` and `version`, which keep no state.
- `lock_windows.go`: the same calls as `lock_unix.go` for `LockFileEx`, which `NameStore` would
  not tell apart.
- Where the names file lies (`path.go:35`, a default directory that depends on which one exists when
  it is asked for) and one explicit file for two interfaces (`store.go:20`): `NameStore` is about one
  file whoever names it, and `Undisturbed` in section 4 is the assumption that no two interfaces share it.
- Two edges of one conversion, which a unit test with one value decides and no order of steps
  changes: a handshake in the first nanosecond of a second (`parse.go:166`), a keepalive beyond
  16 bits (`configure_linux.go:215`).
- Two processes that replace the peers of one device through the Linux kernel at the same time,
  each in several messages (`client_linux.go:129`): no document says what they leave.
- Two runs of `wg-quick` on one interface: no lock keeps them apart, and no document says
  what they leave.
- Within modelled parts: the peers' endpoints, keys, keepalive and counters travel
  with a peer and are not told apart, except where a property is about them
  (`setting` in `KernelData`). Addresses and MTU in `wg-quick` go with the link.

## 7. Plan

Order: the path of a configuration first, since it is what the programs are for,
from the names file up to the requests, then the device, then the host.

Done: `NameStore` (with `AtomicNames`) → `ConfLoops` → `ConfApply` (over `ConfData`,
with `AtomicConf`) → `KernelConfigure` (over `KernelData`) → `WgQuick` → `Devices` →
`RestRequest` (over `ConfText`) → `GiteeSync` → `IoctlDevices` (over `IoctlMemory`) →
`QuickText` → `QuickSave`, and the proofs of section 4.

Next, models: `Up` and `Down` reading the file while it is saved, as `WgQuick` over
`QuickSave`; `MetadataPath`, a `FileOf` that changes.

The proofs are complete but for liveness, which this version of TLAPS cannot do.

## 8. Running the checks

In this directory, with the TLA+ tools, the community modules and TLAPS 1.4.5:

```
tlc -workers 2 -config NameStore.cfg MCNameStore.tla     # and so on, see PROJECT.json
tlapm FileProofs.tla
tlapm ConfApplyProofs.tla
tlapm KernelDataProofs.tla
tlapm KernelConfigureProofs.tla
tlapm DevicesProofs.tla
tlapm WgQuickProofs.tla
tlapm TextProofs.tla
tlapm ListProofs.tla
```
