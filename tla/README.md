# A TLA+ verification of racnet

Racnet is an offline-first message board: phones that meet over Bluetooth
exchange signed entries until they hold the same ones. A Rust core does
everything but the I/O; an Android shell owns the sockets, the clock and the
threads. This directory models both, checks the models with TLC, and proves with
TLAPS the safety properties of the node and its limiter, of the batches it
pushes, of the link driver with its handshake, of sync sessions across a network,
of the device's identity, of the message board, of a connection's teardown, of the
choice between duplicate links and of the Android service with its two BLE roles,
and that the journal implements a durable store. `PROJECT.json` maps every definition to
the lines it models and lists runs, mutants, findings, hazards and theorems.

## The system

| part | source | state | operations | what makes it hard |
|---|---|---|---|---|
| handshake limiter | `core/src/link/limiter.rs` | token bucket per address, half-open tickets with deadlines | admit, established, closed, expire | buckets refilled lazily and dropped when "full"; integer division; a cap on tickets |
| node | `core/src/api/node.rs` | link table, limiter, last clock reading | connect, accept, on_bytes, on_transport_closed, tick, start_sync, create_entry | two timers for one link; callers' clocks out of order; links retired on four paths |
| link driver | `core/src/link/driver.rs`, `wire/frame.rs` | epoch, keys, negotiated version, age | on_bytes, on_tick, open_sync, send | many frames in one buffer; closes that drop or add frames; crossing HELLOs |
| Noise XX | `core/src/noise` | handshake state, two cipher states | write/read message, split, encrypt, decrypt, rekey | both ends must derive the same keys and rekey at the same message |
| syncer | `core/src/sync/session.rs` | open sessions of both directions | open_session, one handler per message | sessions opened by both ends at once, snapshots that go stale, pushes that fail half-way |
| reconciliation engine | `core/src/sync/negentropy` | a sealed set | initiate, reconcile | range splits, a frame limit, termination |
| order index | `core/src/store/order.rs`, `negentropy/fingerprint.rs` | weight-balanced tree with cached counts and sums | insert, rank, bound, summary and range queries | rotations and cached summaries |
| entry store, journal | `core/src/store` | index, append-only file, lock | open, insert | process death and power loss at any step; a second process; limits |
| runtime, scheduler | android `node/` | mutex, established links, pending and active syncs | connect, accept, onBytes, onTransportClosed, createEntry, tick | lost wake-ups; relaying; links dying under a session |
| link connection | android `mesh/LinkConnection.kt`, `FrameWriter.kt`, `ConnectionRegistry.kt` | start, reader, writer and shutdown of one socket | start, read loop, write loop, drain, shutdown | six threads and a service that stops at any moment |
| duplicate link policy | android `policy/DuplicateLinkPolicy.kt` | established links by fingerprint | onEstablished | two peers decide separately |
| central | android `ble/BleCentral.kt`, `policy/ConnectionPolicy.kt` | per-address policy state, attempts in flight | scan result, connect, failed, closed, established | updates queued out of order; backoff arithmetic |
| message board | android `messages/` | draft, revision, a save under way | updateDraft, post, save | edits while a save runs; recreation |
| peripheral | android `ble/BlePeripheral.kt` | server socket, GATT server, advertiser | start, stop, the platform's callbacks | callbacks on other threads while stop runs |
| mesh service | android `mesh/MeshService.kt` | instances, one shared running flag | start, stop, onCreate, onStartCommand, fail, onDestroy | starts that fail half-way; failures on other threads; restarts by the system |
| identity, start-up | android `identity/`, `RacnetApplication.kt` | a sealed file, a Keystore key | loadOrCreate, persist, opening the node | process death at any step; a key that is lost |
| message sizes | `core/src/wire` (`pad`, `msg`, `entry`, `payload`), `push_batches` in `session.rs` | the batch under construction | create_entry's guard, batching, padding, the length gate | limits checked in different places on different lengths |
| not modelled | bytes of the codecs, `sim`, screens, metrics, bindings, fuzz targets, iOS and anchor stubs | | | see the end of this file |

How they meet: the shell calls the node under one mutex. The node hands bytes
to the link's driver; the driver owns a syncer, which runs engine sessions over
a snapshot of the store. The driver's events come back through the node, which
settles its limiter's tickets and its link table, to the runtime, which tells
the registry of established links, closes connections, and starts the sync
sessions its scheduler has pending.

## The modules

**HandshakeLimiter** holds the limiter's operators; it is extended by
**LimiterRate** (the limiter alone, with history variables for what each
address was granted) and by **Node**. In Node a driver is reduced to whether it
is established and when it opened; one action is one call, made with any clock
reading up to `Skew` behind the newest.

**DurableStore** says what a store promises: an acknowledged entry is there
after every crash. **Journal** is the code, over a file with a volatile and a
durable content. An open and an append are one action each that may fail after
any of their steps; a crash inside one is such a failure followed by `Kill` or
`PowerLoss`. `KeepsPromise` is the refinement (`Abstract == INSTANCE
DurableStore WITH ...`). Signatures are taken to be valid.

**Syncer** is one end's sessions as operators on a record; **Mesh** composes
the syncers of all link ends with the runtime and its scheduler. The engine is
kept as what a session learns: each reply settles all or part of the order. With
`FrameLimited`, the default configuration of the code, a reply may also pass over
the end of what is left, for good as far as the session goes; the entries of the
opener that are passed over and that the peer lacks are recorded in `missed`, which
the next session clears. **Negentropy** is the engine itself, both ends of one
session; without a frame limit it finds the exact difference, and its run
`negentropy_tail` shows the loss that `missed` stands for (see Disagreements).

**Noise** is a symbolic model (keys, hashes and ciphertexts are terms, a
ciphertext opens only under its key, nonce and associated data), used by
**LinkDriver**, the two drivers of one connection. What the syncer makes of a
message is reduced to "replies", "does not" and "refuses".

**LinkConnection** is one connection at the grain of its accesses to shared
state: `Start*` is `startActive`, `Reader*` is `readLoop`, `Writer*` is
`FrameWriter.run`, `Shutdown*` the body of `shutdown`, `ShutdownAll` and
`ScopeCancelled` the two steps of `MeshService.onDestroy`. **DuplicateLinks** is
the registry and the policy at two peers, with links that a core closes and that
drain before they go.

**BleCentral** is the central with its policy dispatcher as a queue of tasks,
**BlePeripheral** what the peripheral holds open and how far the platform's
answers are. **MeshService** composes them with the service: the instances the
system makes one after the other, the main thread's queue (`todo`) of callbacks,
the start coroutine (`Start` is `peripheral.start`, `StartCentral` is
`central.start` and what follows), and the user, the radio and the system, which
act at any time. The service's start and stop, the radio receiver, `fail` and
`onDestroy` are one action each. What a destroyed instance cannot take back at once
outlives its action: channels that were being opened (`unwinding`) and connections
that registered behind `shutdownAll` (`orphans`), which still hold their addresses
in the registry while the next instance runs.

**Wire** has the lengths of things on the wire, **Push** the entries of a node
from `create_entry` or a peer's push to the batches of `push_batches`, one action
per turn of its loop. **OrderIndex** is the tree, its queries compared with the
sorted set it stands for. **EntryStore** composes Push and OrderIndex: one
`insert` fills both, sessions take windows of the index (`Snapshot`) and push any
part of them. The store's limits are Journal's.

**IdentityStore** is the start-up of the process, with the file, the Keystore and
the places where the process may die; **Board** is the view model; **App**
composes the two over the lives of the process (the board is shown only once the
start-up is through, and the saved draft outlives the process).

The proofs are in **NodeProofs** (the pushes, the node, the limiter),
**JournalProofs** (the journal, the app), **ConnectionProofs** (one connection, duplicate links),
**CentralProofs** and **ServiceProofs**, which extends it, **SyncProofs** (one end
of a session) and **MeshProofs**, which extends it, and **LinkProofs** (the
handshake and the driver). `MCJournal`, `MCMesh`, `MCDuplicateLinks`,
`MCMeshService` and `MCEntryStore` only define constants.

## What is checked

| run | states | what it shows |
|---|---|---|
| `limiter_rate` | 1.5M | the bucket's rate holds; refusals are earned; collected buckets carried nothing |
| `node` | 76k | tickets and half-open links match; both timers of a link agree; Closed is reported once; no stored time is ahead of the clock; half-open links end |
| `journal` | 17k | the journal implements the durable store, leaves files it can open whatever the sizes of the entries, and its index is what the file says |
| `mesh` | 54k | on four networks, with a frame limit: no session collision, no lost wake-up; quiet links differ, and entries fail to spread, only by what a session passed over |
| `negentropy` | 462k | every pair of subsets of eight items: without a frame limit the exact difference in at most two rounds; with one, sound, in size, and it ends |
| `link_driver` | 36k | versions, prologue, keys and rekeying agree; events are in order; silent closes are silent; every link ends by its lifetime cap |
| `link_connection` | 14k | nothing is left once all threads are at rest; established links are listed; the last frame goes out first; a stalled drain ends; an orphaned connection is cleaned up |
| `duplicate_links` | 36k | of three crossed links at most one survives, and none only if a core closed a link that the rule prefers |
| `mesh_service` | 200k | the toggle tells whether the mesh is up; a destroyed instance has released the scan, the socket, the GATT server and its advertising; every start comes up or is undone; busy addresses have an owner, failures count up, backoff is kept |
| `entry_store` | 52k | balance, ranks, summaries, ranges and windows of the index, over the insertion orders of ten entries; every batch encodes, and batches lose nothing |
| `app` | 51k | one author over all lives of the device; last words kept and one save at a time; sending ends |
| `negentropy_tail` | | expected to fail: `Exact` under a frame limit (see Disagreements) |

Each module's `TypeOK` is a conjunct of one of its safety invariants, so it is
checked with it. `HandshakesTracked`, `PolicyAgrees`, `QueriesAgree` and `Mutual`
are conjunctions of claims that the modules state one by one.

What varies within a run is a variable that never changes after `Init`: `net`
in Mesh picks one of four networks (a pair, a chain of three, two links between
the same two nodes, a chain whose middle store has room for one of two entries;
in the first two links may be lost at any time), `frame_limit` in Negentropy
the size limit or its absence, `scenario` in MeshService two instances with a radio
that goes off once, one instance and a peer to connect to while time passes, or two
instances and a peer, for what the first leaves to the second;
`writes` in IdentityStore how the device's AtomicFile writes. In BleCentral
`lost` records the addresses for which `start()` has lost its connection to a
concurrent shutdown; the address is then returned twice, so the claims about
attempts are made for the others, and `BusyIsOwned` for all.

### Bounds

Every bound is a named constant of the cfg. They are small and chosen so that
the case in question happens: `MaxTime` is past every timeout and a full refill
(limiter, node); three links and a cap of two half-open ones fill the cap and
free it again; the journal has room for two entries by count, or for one that is
as large as a record may be, and an entry one larger than that would still fit in
the file; two entries and a session limit of two
make the ends' sessions cross; two buckets and a list threshold of four make
eight items split and split again; a rekey interval of two is crossed by the
sync messages and one application send an end; ten items reach single and
double rotations on both sides. The entries' payloads lie just below, at and
above the largest the door lets in and the fractions of the batch budget, and
`MaxPushed` = 4 entries are enough for three batches with a boundary of each
kind; `PushTtl` is the default, 0. `MaxCloses` = 2 of three links may be closed
by a core, at either end. `MaxDeaths` = 2 gives the process three lives: one
that leaves a file behind, one that reads it, one after the Keystore has lost
its key, which it may do `MaxLosses` = 2 times. A backoff cap of two over a base of
one is reached at the second failure and passed by the shift at the third, the
shift cap of two is passed at the fourth, and the time is enough for all of them.
Runs that stop at a bound say `CHECK_DEADLOCK
FALSE`; so do the ones whose system ends (a closed link, a finished session, a
connection at rest).

### Fairness

Liveness is checked under weak fairness of what the code schedules by itself
and of nothing a user or a peer does:

- node: time passes and the runtime's loop ticks (`NodeRuntime.startTicking`);
- link driver: the same at each end;
- mesh: delivered bytes are read (`readLoop`) and a dead transport is noticed
  at the other end; with no fairness for new entries, links or losses;
- link connection: a launched coroutine runs, the drain deadline fires, ticks
  happen, a started `onDestroy` ends; none for the peer, and a blocked write may
  stay blocked;
- mesh service: the app's start-up ends, the main thread gets to each callback it
  is handed and to the start coroutine; none for the user, the radio, the
  platform's answers or the system's kills;
- app: the node answers a save and the coroutine resumes.

## What is proved

**Node** (`NodeProofs`), for all sets of addresses, link counts, timeouts and
limits, from `LimiterAssumption` and the assumptions of Node (limits are natural
numbers):

- `HandshakesAreTracked`, `ClosedReportedOnce`: the invariants `node` checks;
- `NoFutureTimes`: no stored time is ahead of the clamped clock
  (`NothingFromTheFuture`).

None of the invariants is inductive alone. That a close releases exactly one
ticket needs tickets to be distinct between links, which needs those handed out to
be below the next one (`Fresh`); that a link is reported once needs the ids in
the table to be below the next id and not yet reported. `IInv` is
their conjunction with `Fresh`; one lemma per call shows that the call keeps
it, and the temporal steps follow.

**Limiter** (`NodeProofs`), for all bursts, intervals and numbers of addresses,
from `LimiterAssumption` and `TimeAssumption` (the clock's bound is a natural
number): `RateIsBounded`, `RefusalsAreEarned` and `BucketsStayRecent`. The argument
is one of account keeping. The invariant relates an address's bucket, its tokens
and the time it was last refilled, to every admission the address has had: what it
obtained since the i-th one, and the tokens it still holds, are covered by the
burst and the time that went by. An address without a bucket is as good as one
whose bucket is full, since only such buckets are collected. The bound has one
handshake more than the burst and the intervals because the part of an interval on
account outlives the fullness of the bucket; without it the formula is false, as
TLC shows.

**Pushes** (`NodeProofs`), for entries of any size and number, from
`EntriesAssumption` (the two integers of an entry take 2 to 18 bytes) and
`PushTtlAssumption` (a ttl below 24, which CBOR encodes in one byte like the 0 the
door tries):

- `EveryPushFits`: every message that `push_batches` makes encodes. The invariant
  `PushInv` adds that all entries stored fit alone, that `batch_bytes` is the
  length of the batch, and that a batch is one entry or within the budget
  (`BatchFits`); a batch has no more entries than bytes, so the head of its array,
  which the budget does not count, takes at most three;
- `PaddingIsPermitted`: what encodes is padded to a length that the driver's gate
  lets pass and that fits the 16-bit length of a frame with its tag;
- `EverythingIsPushed`: the batches that have become messages, the one under
  construction and the ids still to visit are together, in order, the ids that
  `push_batches` was called with. `Joined`, the concatenation of the messages, is a
  recursive function of their number; that it has values, and that one more message
  is one more piece at its end, is shown by taking a least counterexample.

**Link** (`LinkProofs`), for any rekey interval from 1 on, any finite sets of
versions on offer, any timeouts and number of sends, from `RekeyAssumption` and
`DriverAssumption`, and with the symbolic cryptography of Noise:

- `NeverFails`: no handshake between the two fails and no ciphertext is refused
  (`NoSpuriousFailure`);
- `AlwaysMutual`: the ends agree on the version, on who is established first, on each
  other's static key, on the handshake's hash and on the position in each cipher
  stream, and report their events in order (`Mutual`);
- `ClosesInSilence`: the action property `SilentCloses`.

An invariant about the two drivers alone is not inductive: what an end is about to
read was written in a state the other end has left. The invariant `LinkInv` counts
instead. There are the versions `P` both ends offered, and for each end the number
`b` of frames it has read and `s` of frames it has sent; `Stream(P, e, j)` is the set
of frames that can be the j-th of end e, as a function of `P` and `j` alone (a HELLO,
the handshake messages computed from `P`, then ciphertexts whose key and nonce
follow from `j`). A running driver's state is the one that belongs to its two
counts, and the channel to an end holds the frames from `b` to its peer's `s`.
`HandshakeRuns` computes the XX handshake symbolically once; `CipherAt` says that
the key after n messages depends on n alone, rekeying included, which is why two
ends that count alike decrypt alike. A call is followed through its loop over the
frames of one buffer by `InCall`, the same statement with what the call has
consumed and queued so far; a silent close drops exactly what was queued.

**Mesh** (`SyncProofs`, `MeshProofs`), for any nodes, links, entries and stores'
room, and any networks that satisfy `NetworksAssumption` (links join nodes, and the
entries a node begins with fit in its store), from `SyncerAssumption` (room for one
session of each end, at least one entry in a push), with and without a frame limit:

- `FaultsNever`: no end refuses what its peer sends it, and a session fails only
  where a store is full (`NoSyncFaults`);
- `ActiveAlwaysOpen`: the scheduler's active session is the one open in the core;
- `SettledAlwaysAgree`: on a link on which nothing runs and nothing is on its way, an
  end lacks an entry of the other only if the engine passed over it in the other's
  last session; without a frame limit both ends have the same entries (a store that
  is full closes the link).

The invariant `MeshInv` has two layers. The first is about messages: the session of
each direction is in one of six stages (`Stage`: idle, opening, asked, answered,
closing, and closing with the next one opening), each of which says which session
messages are on their way, in which order, and which sessions the two ends hold; an
end whose peer is gone is in step with the peer as it was (`StepInv`). The second is
about entries: every entry of one end is at the other, is being pushed there, is due
from a message or a session under way, was passed over by the last session, or the
link has a sync pending (`Covered`), and a pending sync has a session to wait for. This is what a lost wake-up would
break. A call to `onBytes` keeps both layers message by message (`InCall`), and what
it leaves to `drainSyncsLocked` is `Before`, where the node's own links may be
pending without a session.

**Duplicate links** (`ConnectionProofs`), for any finite number of links, from
`LinksAssumption`: `BothKeepTheSame`, for peers with different fingerprints and
exactly one link that the rule prefers, says `OneSurvives`. The invariant says that
a node lists one link as established or none, that ids tell its links apart, and that
the preferred link ends by the hand of a core alone. With two preferred links the
formula is false: disagreement 3.

**App** (`JournalProofs`), for any texts and any number of edits, saves, restarts,
deaths, failed writes and lost keys:

- `IdentityIsKept`, of the start-up alone. An identity is used only after its file
  was written, and generated only where there is no file; `StageInv` says what the
  file holds at each stage of the start-up and with which key a write is sealed,
  `AliasInv` that the Keystore has the last key it made or none;
- `LastWordsAreKept`, of the view model alone. It rests on `RevisionTells`: as long
  as the revision is the one a save was begun with, the draft is the text being
  saved; so what the end of a save clears is what the node has stored;
- `AppKeepsIdentity` and `AppKeepsWords` state both of the composition that `app`
  checks, every behaviour of which is one of each of the two (the lemma
  `AppRunsBoth`).

**Journal** (`JournalProofs`), for any number of processes and entries of any
size, from `JournalAssumption` and on disks that persist a file's name with its
first sync (`FsyncPersistsName`): `JournalKeepsPromise`, that every behaviour is
one of DurableStore. What is stored is what every possible disk holds, and limbo
is what only some of them hold. The invariant `JournalInv` says that what
processes see is itself a possible disk, that a file without its header has no
records, and that the process with the lock shows the committed records, all that
is stored among them. An append that fails leaves contents that begin with those
records, so it unsettles nothing; a sync leaves one possible disk. Sizes may be
persisted before bytes: that can make the file unreadable (disagreement 7) but
loses nothing that was acknowledged.

`JournalReopens` and `JournalIndexMatches` are about the same journal. The first is
for disks on which no size is persisted before its bytes (`~SizeMayLead`;
disagreement 7 is what happens on the others) and uses that a file with nothing
but its header is within the limit (`HeaderSize <= MaxBytes`). It needs the sum of
the record sizes to be a number that grows with every append and does not depend on
what follows; `Ends` is a recursive function, and these facts are proved by taking
a least counterexample. The invariant `LedgerInv` says that every possible disk has
no record twice, no records without a whole header and, where sizes do not lead, is
within the limits that open checks; and that the index of an open store is the
committed part of the file. An append keeps the limits because it checks them from
the committed length, which is the length after it has cut off what a failed append
left behind; an incomplete record of which only the length was written is within
the limit on records because append checks that before it writes the length.

**Connection** (`ConnectionProofs`), for any length of the write queue from
`QueueAssumption` (it has room for a frame): `TeardownIsComplete`,
`EstablishedAreListed` and `FinalFramesGoFirst`. The invariant follows the one
`shutdown` that won `tornDown` through its steps and says for each of them what is
already undone; that the registration of a `start()` that was overtaken is undone by
its own check; and that the loops run only between the registration and the end.

**Service** (`CentralProofs`, `ServiceProofs`), for any number of instances, addresses, lives of the
process and switches of the radio, and any backoff parameters, from
`CentralAssumption` and `MeshAssumption` (instances are positive numbers):

- `PolicyStaysInStep` and `AttemptsDoBackOff`, the central's, in `CentralProofs`.
  `Regular` says of an
  address that has not lost a connection that exactly while it is busy one thing is
  out for it: an attempt, a connection, or the queued notice of its end. That the
  notices `established` and `closed` are queued in this order keeps the count of
  failures right.
- `StopsRelease` and `ToggleIsTrue`, the service's, in `ServiceProofs`. They rest on what the main
  thread's queue can hold (`QueueInv`): an instance that is alive or about to be made
  is the one on record or will be destroyed; each is made only after the one before
  is destroyed; `start` and `destroy` find their instance alive; and only the
  radio's messages may come after the end. `HoldsInv` says what an instance has open
  in each phase, `ServesInv` what the one on record provides unless it is about to
  be told that the radio is off. `StopsRelease` says nothing of connections: those
  that outlive their instance are `unwinding` and `orphans`, and that an orphan is
  cleaned up in the end is `OrphansEnd` of LinkConnection.

The proof of `QueueInv` failed at first for a good reason. Instances are numbered in
the order they are made, and the model took as used only those that had been created
and the one on record. An instance whose creation still waited when the user stopped
it was neither, so its number could be given out again and the queue could hold two
creations of one instance. `Made` now counts the instances of all waiting messages.

Only model-checked:

- liveness, and ENABLED (`EntriesSpread`, `LinksEnd` and the other eventualities):
  outside the prover's reach;
- the engine's and the tree's results (`ExactUnlimited`, `Sound`, `FitsFrame`,
  `EndsInTime`, `Balanced`, `QueriesAgree`): RECURSIVE operators are outside its
  reach, and so are the library's induction theorems. A recursive function over
  numbers can be reasoned about by a least counterexample, as in `JournalProofs`,
  `CentralProofs`, `NodeProofs` and the loops of `SyncProofs` and `LinkProofs`; the
  engine and the tree recur over ranges and subtrees, which has no such argument in
  reach. That the engine answers as Syncer has it, exactly but for what the frame
  limit makes it pass over, is therefore shown by the `negentropy` run alone.

## Disagreements

The first is a finding with a run. The others are sentences of the repository
that do not hold of the models: some when the formula or constant named is added
to the cfg, some as exceptions that a property makes. They are written down here,
and in the modules, so that nobody takes them for checked.

1. `negentropy_tail` (`negentropy/mod.rs:228`). When a range does not fit in
   the frame its output is dropped, and the closing fingerprint covers only the
   items after that range although its bounds cover the range as well. When it
   was the last range the fingerprint is that of no items. If the answer also
   runs out of room on its last range, both ends have sent the fingerprint of
   nothing, they match, and the session ends without the range's differences.
   With the code's constants (limit 4096, 16 buckets, lists up to 32) this takes
   about 1,890 entries at each end and messages that fill up to within a
   few hundred bytes: rare, and repaired by a later session over a different
   snapshot. `tests/recon.rs:2` expects the exact difference "within the
   frame-size budget". `ExactUnlimited` holds, and `Sound` with a limit. In Mesh
   the loss is `missed`, which `SettledLinksAgree` and `EntriesSpread` except.
2. `MeshService.kt:106`; `INVARIANT StopTearsDown` in `LinkConnection.cfg`. A
   connection that registers between `shutdownAll` ("Tears every connection
   down") and the cancellation of the scope is left registered with an open
   socket. `OrphansEnd` shows that a restarted service's tick ends it; in MeshService
   it is one of the `orphans`.
3. `DuplicateLinkPolicy.kt:39`; `Links = {1, 2}` and `Initiator <- MCRotated` in
   `DuplicateLinks.cfg`. For two links opened by the same side (its peer's address
   rotated) each end compares its own link ids and both links may be closed;
   PROTOCOL.md:843 says both ends "close the same link".
4. `BleCentral.kt:195`. A connection whose handshake failed is returned to the
   policy as closed and retried with no backoff, while `ConnectionPolicy.failed`
   is documented for "the attempt (or the connection it produced)".
   `AttemptsBackOff` is about attempts that made no connection.
5. `journal.rs:111`; `INVARIANT FlushedBeforeVisible` in `Journal.cfg`. A record
   written and not synced when the process died is served after the restart,
   before any sync; ADR 0017 says to flush a record before making it visible.
6. `journal.rs:59`; `FsyncPersistsName = FALSE` and `INVARIANT NamePersisted`. A
   death between the two syncs of a new journal leaves its name unsynced for
   good, on file systems where that matters.
7. `journal.rs:93`; `SizeMayLead = TRUE`. On file systems that persist a size
   before the data an incomplete append can make the journal unreadable
   (`Reopens`), although open is documented as "recovering an incomplete final
   append".
8. `MeshService.kt:111`; the exception `FailedLate` in `ToggleTells`. `running` is
   documented as "Whether the service is running, for the UI toggle", and is shared
   by all instances. An `onServiceAdded` that had read the advertiser when `stop`
   cleared it can still call `fail` after its instance is gone; if the next
   instance is up by then the toggle shows off, and cannot stop it.
9. `BlePeripheral.kt:114`; the exception `"raced"` in `StopReleases`. The same
   callback can start advertising after `stop`; nothing ends it before the radio
   goes off or the process ends.
10. `IdentityStore.kt:54`; `identityFile.state = "torn"` in `IdentityKept`. ADR 0017:32
   relies on AtomicFile "for durable identity replacement". Up to API 29, the
   lowest the app supports, AtomicFile writes a first file in place: a death
   during the very first write leaves a file that no later start can read. The
   author does not change; the device stays at the start-up error.
11. `ConnectionRegistry.kt:90`; the last conjunct of `OneSurvives`. A link its core
   has closed is listed until it has drained. If the rule prefers it, the rival
   that establishes meanwhile is shut down and the peers are left without a link
   until they meet again.

## What is not modelled

- The bytes of the formats (CBOR, varints, bounds) and their decoding, which are
  pure and covered by round-trip tests and fuzz targets, and malformed input
  generally; Wire has the lengths.
- A `push_ttl` of 24 or more, which the guard of `create_entry` does not allow for
  (the default is 0 and nothing sets another).
- Cryptographic primitives, hash collisions, exhaustion of a 64-bit nonce.
- The engine's version byte; `Syncer::abort_session`, which has no caller.
- The GATT callbacks of `readPsm` (success or failure only).
- What a power loss does to the identity file: process deaths only.
- A scheduler's start refused by the core: with the limits modelled it cannot
  happen, so `Mesh!Tick` changes nothing there.
- Screens, permissions, notifications and metrics (presentation); `sim` and the fuzz
  targets (test drivers); the bindings (generated); the iOS and anchor stubs.

## Plan

1. Extend: the GATT exchange of `readPsm`; a power loss around the identity's
   rename; bound and varint codecs as operators over small alphabets.
2. Prove: the engine's `Sound`, with its ranges as functions of their positions in
   place of recursive operators.
