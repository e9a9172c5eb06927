# A TLA+ model of the SMIP-MWP datapath

This directory holds TLA+ specifications of the core of SMIP-MWP-Rust: the
route table, the packet forwarder, the AF_XDP sockets, the key exchange with the
sessions made from it, the wire header, the hardening guards, and the program
that runs them as a server or as a bridge. TLC checks each on a small instance.
Every safety property that holds there is also proved for all instances, with
TLAPS.

`src/` in a path stands for the root of the repository.

## The system

| Component | State | Operations | Interacts with |
|---|---|---|---|
| Route table (`src/routing/src/lib.rs`, `Table`) | 16 sharded hash maps, an ordered map with a flat list of next hops, per-destination statistics, a process-wide epoch, two caches per thread | `update_route`, `remove_route`, counter updates, `lookup_next_hop`, `lookup_spray_primary`, `lookup_spray_buf`, `lookup_spray_single`, `lookup_predictive_fallback`, `lookup_or_predict` | called by the forwarder's threads; written by whoever manages routes |
| Router policies (same file, `Router`) | one map behind a lock | `lookup_policy`, `update_policy` | nobody yet |
| Forwarder (`src/datapath/src/lib.rs`) | arena (`AlignedBuffer`), offset table, batch statistics | `process_batch`, `process_batch_mcr`, `process_batch_spray_full`, `process_batch_slices` | polls and sends on an `XdpSocket`, looks up routes, encrypts with a session |
| Descriptor rings (`src/afxdp/src/rings.rs`) | shared memory: two `u32` indices and an array of descriptors per ring | `rx_pop`, `comp_pop`, `fill_push`, `tx_push` | the kernel is the other end |
| Free list and transmit path (`src/afxdp/src/socket.rs`) | circular list of frames, bump counter, UMEM | `send`, `set_freelist_headroom_all`, `set_freelist_headroom_for` | rings, kernel |
| Key exchange (`src/crypto/src/kex.rs`) | one ephemeral key per object | `new`, `public_key`, `respond`, `finish` | a peer, over a network |
| Session (`src/crypto/src/session.rs`) | AEAD key and nonce base, a process-wide HKDF cache | `prederive_session`, `new`, `encrypt_*`, `decrypt_*` | forwarder; any session of the process, through the cache |
| Hardening guards (`src/crypto/src/security_hardening.rs`) | handshake deadline, retries, sequence window; last packet time; a global counter | `check_timeout`, `check_retries`, `increment_seq_counter`, `allow_packet`, `increment_global_seq` | the wall clock; nobody calls them yet |
| Wire header (`src/wire/src/lib.rs`) | the buffer | `marshal_into`, `parse`, two views | forwarder |
| Sockets' life (`src/afxdp/src/socket.rs`, `lib.rs`) | UMEM, descriptor, binding, mapping; a registry of counters by label; a registry of weak references to instances | `new`, `Drop`, `register_socket_instance`, three headroom calls | the kernel; the control thread and the gauge thread |
| Control and gauge threads (`src/cli/src/main.rs`) | the request being answered; the labels of the last round | `GET` and `POST /control`, `/metrics` | both registries |
| Bridge run and workers (`main.rs`, `bridge.rs`, `worker.rs`) | request, worker plan, statistics, telemetry | validate, plan, spawn, join, report | a forwarder and a socket per worker |
| Benchmarks, tools, Lean sketches | | | |

### What is hard

* **Interleavings.** `update_route` and `remove_route` take four locks or
  atomics one after the other; lookups of other threads run in between and
  write what they saw into caches that the epoch invalidates later.
* **Shared memory with the kernel.** The rings are read and written while the
  other end moves its index; completions come back late and in any order.
* **Ownership of frames.** A frame is on the free list, in a batch being built,
  on the TX ring, in flight, or on the completion ring. `send` moves frames
  between these places, fails half way, and tries again.
* **Unchecked memory.** The forwarder writes to its arena without checking its
  capacity, on the strength of a reserve made before the first frame; a draft
  that cannot be sealed is cut off again and rewritten.
* **The same loop five times.** Serial, owned, primary spray, full spray, and
  full spray of a large batch must keep the same books.
* **Arithmetic at the edge.** Wrapping indices, masks against remainders, a
  multiply-and-shift range reduction, a wrapping subtraction, a saturating
  counter.
* **An unreliable network** under the key exchange, and caches shared by all
  sessions of a process above it.
* **Time.** Deadlines and rate limits are measured on a wall clock that may be
  set back, by threads that may stall between reading it and using it.
* **Life and death of sockets.** Sockets are dropped by whoever holds the last
  reference, which may be the control thread in the middle of a scan; labels
  outlive sockets and are used again; a panic poisons a mutex others scan.

`PROJECT.json` lists these hazards one by one, at the line where each bites,
with the property that would catch it.

## The modules

| Module | Models | Composition |
|---|---|---|
| `RouteTable` | the table, its caches and its callers | |
| `RouteTableProofs` | theorems about `RouteTable` | extends it |
| `SpraySelect` | channel and prediction arithmetic | pure operators, one call per state |
| `BoundedFifo` | abstract specification: a queue that takes and gives batches | |
| `DescRing` | one ring with its producer and consumer | implements `BoundedFifo` |
| `DescRingProofs` | theorems about `DescRing` and its refinement | extends it |
| `FreeList` | the circular free list, as operators | |
| `XdpSocket` | `send` and the kernel | extends `FreeList`; uses rings as queues, which `DescRing` justifies |
| `XdpSocketProofs` | theorems about `XdpSocket` and `FreeList` | extends it |
| `Forwarder` | the packet loops and the arena | uses lookups as a nondeterministic answer, which `RouteTable` models |
| `ForwarderProofs` | theorems about `Forwarder` | extends it |
| `Kex` | key exchange objects and a network | |
| `Session` | `HybridSession` and the HKDF cache | |
| `SecureChannel` | from key exchange to packet | extends `Kex` and `Session`: each object makes its session from the secret it derived |
| `SecureChannelProofs` | theorems about `SecureChannel`, `Kex` and `Session` | extends it |
| `Clock` | the wall clock | |
| `ReplayWindow` | abstract specification: a bounded set of the largest numbers accepted | |
| `KexState` | `HybridKEXState` | extends `Clock`; its array implements `ReplayWindow` |
| `KexStateProofs` | theorems about `KexState` and its refinement | extends it |
| `Throttle` | `DoSThrottle` and the global counter | extends `Clock` |
| `Wire` | header fields in a byte buffer | |
| `Router` | flow key and policies | |
| `LibraryProofs` | theorems about `Router`, `Wire`, `Throttle`, `SpraySelect` and `WorkerPlan` | extends the five |
| `WorkerPlan` | core lists and assignments | operators, one call per state |
| `SocketControl` | sockets from `new` to `Drop`, the registries, the control thread and the gauge thread | `send` appears as the time its mutex is held; `XdpSocket` models what it does |
| `Cli` | the program: server or bridge run | extends `SocketControl`; a batch is its effect on the statistics, which `Forwarder` models |
| `CliProofs` | theorems about `Cli` and `SocketControl` | extends `Cli` |
| `MCLibrary` | instance of the modules that call nothing else | extends `SpraySelect`, `Wire`, `Router`, `WorkerPlan`, `KexState`, `Throttle`, `DescRing` |
| `MC*` | instances for TLC: constants, views, symmetry | extend the module they are named after |

Operators placed just before a definition and named for a plausible slip in it
(`FreeOffByOne` before `Free`) are that definition with the slip; substituting
them shows that a property notices it.

### RouteTable

`shard`, `inner`, `predictive` and `stats` are what the four locks guard;
`epoch` is `GLOBAL_TABLE_EPOCH`; `cache` holds `THREAD_CACHE` and `SPRAY_CACHE`
of every thread. A write is four steps, one per lock or atomic, in the code's
order: `WriteShard`, `WriteInner` (with the rebuild of the predictive list),
`WriteStats`, `BumpEpoch`. A cached lookup reads the epoch and its slot
(`BeginLookup`), then the shard under its lock (`ReadShardHit`, which also
writes the slot, or `ReadShardMiss`), then, for `lookup_or_predict`, the
predictive list (`PredictiveFallback`). `window` and `raced` are history: the
routes a destination had during a call, and the destinations two writers wrote
at once.

A cache slot also records the table that filled it. The code does not: the
field is history, no guard reads it, and it lets the properties speak of
several tables that share the caches.

`MaxEpoch` bounds the writes: no write starts, and none bumps, at the bound.
The code's epoch is a `u64` that never wraps in practice. The epoch is loaded
with relaxed ordering; as with the rings, the model's steps take effect in
program order, which the locks and x86-64 give.

### SpraySelect

The index arithmetic of `lookup_spray_primary`, `lookup_spray_buf`,
`lookup_spray_single` and `lookup_predictive_fallback`. `&` is a parameter
(`BitAnd`; TLC is given the bitwise one), of which `SprayAssumption` says what the
code relies on: where `n & (n - 1)` is zero, masking with `n - 1` leaves the
remainder (`MasksLikeDivision`). The shift by 64 is a division by the number of
hashes, `HashSpace`. Channels are numbered; 0 is `next_hop_id`, i is
`alternate_channels[i-1]`.

### DescRing and BoundedFifo

One producer and one consumer on a ring, one of which is the kernel. `tx_push`
and `fill_push` are the same code, as are `rx_pop` and `comp_pop`. A push reads
the indices (`PushBegin`), copies one chunk up to the end of the array and one
from its start (`PushChunk1`, `PushChunk2`), and publishes its index
(`PushPublish`); a pop mirrors it. Steps of the two sides interleave freely.
The refinement mapping gives the queue as the slots between the two indices;
every step of the ring is a step of the queue or a stutter, so a batch appears
at once when its index is published.

Memory operations happen in program order. That is what the code gets on
x86-64, its target (the datapath's fast paths are x86-64 only); it has no
fences, and a weaker machine is outside the model.

### FreeList and XdpSocket

`send` is one action per step that the kernel can fall between: popping
completions, giving each back, allocating each frame and copying its packet,
reading the TX indices, publishing, returning each frame, deciding to give up,
waiting. `KernelTake` and `KernelComplete` are the kernel's, inferred from how
the code uses the rings: it reserves room for the completion before it takes a
descriptor, and completes in any order. The mutex around the socket is why
`Reconfigure` cannot happen during a send.

`copy_into_frame` is `CopyInto`: a frame takes the first bytes of a packet, as many
as it has. The rest of a longer packet is dropped without an error, and `send`
returns `Ok` all the same; and as `tx_push` passes an address and no length, what
follows a shorter packet in its frame is whatever was there before. `PayloadIntact`
is therefore about what was copied (`Copied`), not about all the caller gave. A
frame is a few bytes (`FrameSize`), each of which is a byte of some packet.

The packet queued with a descriptor is history: it is what the caller wanted
sent, against which the frame's contents are compared. `clean` records that no
frame came from the bump allocator and no batch was pushed in part; `roomy`
that the headroom has always left a slot for each frame.

`send` is compiled with the `real` feature only. There, `RealSocketHandle::send`
(line 554) declares `buf: &mut Vec<u8>` where the trait has `buf: &[u8]`, which
has to be fixed before that feature builds; `RealSocket::send`, which is what
is modelled, matches the trait.

### Forwarder

A frame is its size and the payload length its header claims; bytes are counted,
not kept. The loops that write into the arena directly (serial, primary spray,
full spray) handle a frame in two steps, as the code does. `StartOutput` writes
header and payload at the end of the arena (`Draft`; nothing is drafted for a
frame that is copied whole, which is `CopyOutput`). Then the payload is encrypted
in place and the tag and what is left follow (`SealOutput`), or the draft is sent in
clear (`KeepOutput`, in the primary loop), or it is cut off again and the whole
frame written in its place, a route miss (`RewriteOutput`). `start` is the local
variable that remembers where the draft began. Every one of these writes counts
against the capacity, those that are taken back too.

The loops differ, as the code does: the spray loops count a frame too short for a
header as a miss, the serial loop cuts off the bytes after an encrypted payload,
the primary loop cuts them off a clear one and writes its table entry from where
the arena ends after the cut, the full-spray loop from where the draft began.

The owned loops copy frames per channel first (`Duplicate`), then hand the items
to the thread pool (`Fork`), whose threads handle them in any order (`MapItem`);
`collect` puts every result at its item's place (`Place`, external: rayon keeps the
order of an indexed iterator), and the main thread reserves (`Collect`) and appends
(`AppendOutput`). `pool` says whether there is more than one thread: without, a
large batch takes the serial loop. What `Owned` makes of a frame is one step, as a
thread works on a vector of its own.

A route lookup may answer either way for any frame. Encryption may reject a
payload (`SealLimit`): with 16-bit lengths the real one never does, but all
loops handle it and so does the model.

### Kex

Each peer is one `HybridKEX`. Cryptography is symbolic. The network keeps every
message ever sent and delivers any of them to anyone, any number of times;
delivering none is loss, and `Short` is a truncated one. `finish` has failure
returns after it has taken its key (`kex.rs:191` to 203); a message of the right length
reaches none of them, and `Finish` leaves them out. Message contents are
honest: an adversary that makes up keys is not modelled, and the exchange
authenticates nobody.

### Session and SecureChannel

A user is one owner of one session. `Lookup` is the read-locked part of
`prederive_session` and `new`, `DeriveAndInsert` everything after a miss; other
users of the process run in between. HKDF is the tuple of its inputs, of which
the info is cut at 237 bytes as `derive_session_material` does (a longer one is
cut without an error). `AHash` is a parameter, so that an instance can make
hashes collide. A nonce is its session's material with the sequence number:
prefix and mask are the same for all packets of a session. `packets` is every
ciphertext ever made; `Opens` says whether a decryption succeeds on its first
`len` bytes.

`SecureChannel` gives every `HybridKEX` object a session made from the secret it
derived, over the cache of its process, as the crate's own tests do. `Unshared`
excludes from the end-to-end property the sessions whose hash collides with
another input's: the code cannot tell those apart, and `SessionsOwn` says what
they then hold.

### Clock, KexState and Throttle

Time is a number that ticks and may be set back; `adjusted` remembers that it
was. `KexState` keeps the array and its length as the code does, with
`copy_within`; the refinement maps them to the set of numbers in use. `retry_count`
is bounded by the check itself. The owner may set `handshake_done` and
`seq_counter` at any time, as both are public fields. `dead` is history: a check
failed, or `cleanup` ran, and the owner has not declared the handshake done.

`Throttle` splits `allow_packet` where other threads can come in between: after
the clock is read, after the load, and at the store. `allowed` is history:
the calls that passed, each as the clock reading it used and its number among
those with that reading. With n threads up to n(n+1)/2 packets pass in one
interval where one should: all n may load the same time, and each late store may
put an older time back for those that load next. `BurstBounded` states that
bound; TLC reaches it with three threads, and it is proved for any number.

### Wire, Router and WorkerPlan

In `Wire` a buffer is a function from offsets to bytes, and scalars are stored
in the order of the host after `to_be`; the property compares all getters with
what was written, and the bytes with network order. `Router` keeps the map of
policies; its key is the XOR fold, so a flow shares its policy with the reverse
flow, and flows whose words cancel write the default. `WorkerPlan` has the core
list as chunks rather than text; `PlanBalanced` says nothing of a machine that reports
no core at all, where workers are numbered from 0.

### SocketControl

`held` is what a socket has acquired so far: its UMEM, descriptor, binding, the
kernel's hold on the UMEM, the mapping of the rings, and its entry among the
counters. `OpenNext` is one system call of `new`, `OpenFails` any error path,
`OpenDone` the end with its registration. `DropNext` is one step of `Drop`, then
of the drop of the fields; it also unwinds a failed `new`. The kernel binds one
socket to an interface and queue and lets go of the frames when the descriptor
is closed (`Bindable`, external); it is taken to accept the order in which the
code binds first and registers its UMEM afterwards.

`refs` are the strong references to a registered socket: its owner's, and the
one a scan holds between `upgrade` and the end of the iteration. `Release` runs
`Drop` when the last one goes, in whichever thread that is; a scan then goes on
only when that `Drop` is over (`Dropped`). A scan holds the registry's lock
from its first entry to its last, so `RegisterInstance` waits (`RegistryLocked`). `sending` are the
sockets whose mutex the owner holds; a panic under it poisons it (`PanicInSend`)
and the socket lives on.

The HTTP thread is `Accept`, then one or two scans, then the reply. Each scan takes
the registry's lock (`LockInstances`) and frees it at its end (`ScanDone`); while a
request is read (`http.pc` "request") and between the snapshot and the change of a
POST to all sockets ("between"), sockets are registered and pruned. `read` is
taken to return: it has no time-out, and a client that sends nothing stops the
thread for good. `Parse` says
what the code makes of a body: it searches all 4096 bytes, so a number is
understood only when white space follows. The gauge thread is three steps per
round. In the repository only tests call `register_socket_instance`, whose doc
leaves it to the callers; the model has owners that call it.

`RealSocketHandle`, which is how a registered socket is used, is compiled with
the `real` feature only and has the signature mismatch noted above.

### Cli

`main` is either a server, where `SocketControl` runs and the main thread
sleeps, or a bridge run. A worker opens its socket step by step (it may lose the
interface to another worker, or fail anywhere, and then uses the mock), processes
one batch, drops its socket, and is done; or it panics in the batch and drops its
socket while unwinding. When at most one worker is asked for, `run_demo` takes the
place of the workers, on the main thread and with a route of its own (`Alone`): the
request's routes and sessions are then not used, although the program reports them
as initialised, and its panic ends the program without telemetry (`MainPanics`).

`OnePacket` is what a batch counts for the demo packet. Every forwarder is built with
a session, so a packet with a next hop is encrypted, and one without is a miss and
forwarded as it is, as in `Forwarder`. `Found` says when there is a next hop: with a
route to the packet's destination, or, except in the primary spray loop, with any
route at all, as the predictive fallback then answers.

`Cargo.toml` sets `panic = "abort"` for release builds. Poisoned mutexes, unwinding
and workers whose `join()` fails exist in development and test builds only; a
release build ends at the first panic.

## What TLC checks

`PROJECT.json` gives module, configuration and properties of each run. A
deadlock check is on in all of them.

| Run | Question | Bounds and why they suffice |
|---|---|---|
| `route_table` | Are cached lookups regular? Is no entry of the current epoch stale? Do the copies of a route agree? | two threads, two destinations in the same cache slot, two routes of which one has an alternate, two flow labels, writes until the epoch has been bumped twice (`MaxEpoch` 3): eviction, a write between the two reads of a lookup, and two overlapping writers all occur. 1.7 million states |
| `xdp_socket` | Does each frame have one owner, does none leak, is none overwritten? Does every send return, and within how many of its own steps? | three frames of two bytes, packets of one and of three, rings of two, batches of two, one retry, free list capacity 8 with indices modulo 16, headrooms that just leave room (5), leave none (6) and exceed the capacity (9). 115 thousand states |
| `forwarder` | Is the arena large enough, is the table right, do the books balance, in all five loops? | batches to 3 of six kinds of frame, owned paths from 3, two channels and a reserve for two copies, with and without a thread pool, a small initial capacity so that reserves matter. 1.5 million states |
| `library` | Is a ring a FIFO? Do the spray lookups agree, does the buffer list each channel once, are predictions even? Do header fields keep to their places? Are worker plans balanced? Is the replay window the set it should be, is a number ever returned twice, does a dead handshake come back? How many packets pass a throttle? | all channel counts and buffer lengths to 9 with both kinds of reduction, flow labels past twice the count, all 6-bit hashes; every field with zeros and with bytes that are all different, buffers around 96 bytes; four node ids of which some cancel, two updates; lists of three chunks, seven workers; a window of 3, numbers to 5, four instants; three threads with an interval of two instants, stalling anywhere; a ring of four slots with indices modulo 8 and batches to 3, which takes both chunks, fills up and wraps many times. 429 thousand states |
| `secure_channel` | Do exactly the partners share a secret and open each other's packets, whatever else is in the caches? | three objects in two processes: crossed, repeated and misdelivered messages, both roles, a third party in the partner's process; three infos of which one is cut to another and two collide; one packet, two sequence numbers, up to two prederived inputs. A million states |
| `cli` | Are live sockets counted, frames freed last, control requests answered and true, whatever is registered and pruned beside them, stale gauges removed? Does a bridge run leave nothing behind and add up? | three sockets, two of which want the same label one after the other; all kinds of request; pruning from the second registration on, so that the third registration, or one beside a request, prunes; two workers for one interface, or main alone, with every kind of route. 895 thousand states |

`MCView` in the route table hides cache entries of past epochs, which no lookup
can hit because the epoch only grows; in `XdpSocket` it hides where the free
list starts in its buffer, the bytes of frames that no property looks at, and,
once there is a second owner, which frames are where; in `Forwarder` it hides, between batches, what the next batch
clears. `Threads` are interchangeable in every definition, hence
the symmetry sets. Liveness is never checked with symmetry. In `xdp_socket` it is
checked through the view: two states that look alike allow the same steps, to
states that look alike, and the view shows `pc`, which is all that `SendReturns` and
the fairness of the sender's steps speak of, and in full whatever `StepsLeft` is
computed from.

A behaviour of `library` exercises one of its modules, chosen at the start
(`subject`), and the view shows that module's variables only. The counter and
the throttle share none, so the counter is a subject of its own. In
`secure_channel` the view hides the network once no object holds its ephemeral
key: nobody can use a message then. `b` and `c` are in one process and
interchangeable, and so are the sequence numbers.

In `cli` a server is checked with the control thread or with the gauge thread at
work, not with both (`watched`). They share nothing but the sockets: one reads the instances
and sets headrooms, the other reads the labels, and a `Drop` that a scan runs is
to the gauge thread like one that an owner runs. The control thread gets two
sockets with different labels, the gauges the two with the same, and workers run
while neither thread exists, as in the code.

A third kind of server ("registry") has all three sockets beside the control
thread, which handles a `POST /control` to all sockets. There opening a socket
succeeds, and once begun it and `Drop` run to their end before another thread moves:
no guard of the control thread reads what a socket holds on the way, only
whether it is registered and referenced. `OneBound`, the failures of `new` and the
other requests are in the first kind.

**Fairness.** `xdp_socket` assumes weak fairness of the sender's steps
together. `send` is straight-line code whose only waits have timeouts
(`epoll_wait` and `poll` with 100 ms, or a sleep), so its thread is scheduled
again. Nothing is assumed of the kernel.

`cli` assumes weak fairness of the control thread while it answers a request, of
the gauge thread, which loops for ever with a sleep of a second, and of a `Drop`
that has begun. Nothing is assumed of the owners of sockets, nor that requests
arrive. Waiting for a socket's mutex is not under the control thread's power:
`RequestsAnswered` has the premise that the owners let go of it for good.

### Disagreements

Six runs are expected to end in a violation. Each checks what a comment in the
code claims and shows an execution in which it fails.

* `route_table_raced`: `src/routing/src/lib.rs:356` calls the shards an
  "all-inclusive hash index of all route entries". Two writers of a destination
  may take the two locks in opposite orders; the ordered map can then keep a route
  that the index lacks.
  `AgreeUnlessRaced` is what remains true.
* `xdp_partial_push`: after a push that takes part of a batch, `send` frees
  every frame of it, those on the TX ring included. `OwnedOnce` is what remains
  true.
* `xdp_headroom_wraps`: the comment at `src/afxdp/src/socket.rs:213` says that a
  headroom can only reduce the usable slots. Above the capacity the subtraction at
  line 204 wraps and nothing is refused any more. Frames freed twice after a partial
  push then fill the list beyond its buffer.
* `router_collision`: `src/routing/src/lib.rs:588` says that the flow key eliminates hash
  collisions. It is an XOR fold: a flow and its reverse share a key, and an update of
  one replaces the other's policy. `PoliciesByClass` says which flows collide.
* `forwarder_spray`: full spray reserves three copies per frame and makes up to
  sixteen.
* `control_plain_body`: a `POST /control` with the body `headroom=128`, which
  the comment at `src/cli/src/main.rs:374` describes and the test at 693 sends, is
  refused. The number is parsed together with the zero bytes after it. The test
  passes because it allows for a refusal.

Found on the way, without a run of their own:

* The thread-local caches of the route table and its epoch belong to the
  process. In a thread that uses two tables, a lookup in one returns what the
  other answered. `LookupRegular` holds with one table.
* A body `headroom=5&label=x` is refused, and a label that nothing ends is
  compared with its trailing zero bytes and never found.
* `RealSocket::new` does not close its descriptor when the interface name holds
  a zero byte (line 255). `OpenFails` closes it on every path.
* A packet longer than a UMEM frame is sent cut off, and `send` reports success
  (`src/afxdp/src/socket.rs:667`).

## What is proved

Every theorem is about a specification (`Spec`, or `RingSpec`, `ChannelSpec`, `CliSpec`,
`KexStateSpec`, `RouterSpec`, `WireSpec`, `ThrottleSpec`, `PlanSpec`) and holds for every value
of its constants that meets the module's named assumptions; where more is
needed it is a hypothesis of the theorem. The assumptions say what the
constants are (types, "nothing" is not a value, a capacity is positive) and the
few facts listed under each module below. TLC evaluates them in the runs.

Each proof has the same shape: an inductive invariant, one lemma per action with
a step per conjunct that the action disturbs, and theorems that read the
properties off the invariant. The invariants were checked by TLC first. `LoopTyped`,
`CliTyped`, `HandshakeTyped` and `LookupsByClass` state invariants that no run repeats.

| Theorem | Statement |
|---|---|
| **RouteTableProofs** | |
| `TypeCorrect` | `Spec => []TypeOK` |
| `CacheCoherent` | `Spec => []FreshCacheAgrees` |
| `LookupsRegular` | `OneTable => (Spec => []LookupRegular)` |
| `CopiesAgree` | `Spec => []AgreeUnlessRaced` |
| **DescRingProofs** | |
| `RingTyped` | `RingSpec => []RingTypeOK` |
| `PushesOnlyFree` | `RingSpec => []WritesOnlyFree` |
| `RingIsFifo` | `RingSpec => ImplementsFifo` (refinement of `BoundedFifo`) |
| **XdpSocketProofs** | |
| `SocketTyped` | `Spec => []TypeOK` |
| `FramesOwnedOnce` | `Spec => []OwnedOnce` |
| `FramesKept` | `Spec => []NoLeak` |
| `PayloadsKept` | `Spec => []PayloadIntact` |
| `SendsBounded` | `Spec => SendBounded` (an action property) |
| **ForwarderProofs**, all with `RoundsUp` | |
| `LoopTyped` | `Spec => []TypeOK` |
| `TableTiles` | `Spec => []OffsetsTile` |
| `OutputsCounted` | `Spec => []Accounted` |
| `BatchInOrder` | `Spec => []FramesInOrder` |
| `SealedWhole` | `Spec => []EncryptedWhole` |
| `ArenaSuffices` | `Spec => [](ReserveAllows => WithinCapacity)` |
| **SecureChannelProofs** | |
| `SecretsAgree` | `ChannelSpec => []SecretsMatch` |
| `KeysSpent` | `ChannelSpec => []KeySpentOnSecret` |
| `MaterialOwn` | `ChannelSpec => []SessionsOwn` |
| `PartnersOpen` | `ChannelSpec => []OpensExactlyPartners` |
| **KexStateProofs** | |
| `HandshakeTyped` | `KexStateSpec => [](ClockTypeOK /\ KexStateTypeOK)` |
| `ArrayIsWindow` | `KexStateSpec => ImplementsWindow` (refinement of `ReplayWindow`) |
| `NumbersFresh` | `KexStateSpec => NeverReissued` (an action property) |
| `DeadFails` | `KexStateSpec => DeadStaysDead` (an action property) |
| **CliProofs** | |
| `CliTyped` | `CliSpec => []CliTypeOK` |
| `LiveSocketsCounted` | `CliSpec => []LiveCounted` |
| `UmemGoesLast` | `CliSpec => []UmemOutlivesFd` |
| `RequestsReach` | `CliSpec => []ControlHonest` |
| `BridgeLeavesNothing` | `CliSpec => []BridgeReleases` |
| `TelemetryIsSum` | `CliSpec => []TelemetryAdds` |
| **LibraryProofs** | |
| `LookupsByClass` | `RouterSpec => []PoliciesByClass` |
| `FieldsKeepTheirPlaces` | `WireSpec => []WireRoundTrip` |
| `BurstsBounded` | `ThrottleSpec => []BurstBounded` |
| `ChannelsOnce` | `Spec => []SprayCoversOnce` |
| `LookupsSelectAlike` | `Spec => []LookupsAgree` |
| `PredictionsEven` | `Spec => []PredictiveEven` |
| `PlanIsBalanced` | `PlanSpec => []PlanBalanced` |

### RouteTable

For every set of tables, threads, destinations, hops, flow labels and routes,
any cache size and slot functions, and any bound on the epoch. `OneTable` is
needed for `LookupsRegular`: with two tables another table's answers are hits,
and the statement is false.

`FreshCacheAgrees` is not inductive: a lookup files what it reads under an epoch
it read earlier. `CacheInv` adds that no tag and no epoch held by a lookup is
ahead of the global one (`TagsBounded`), and that the routes a writer's window
records contain the present one (`WindowCurrent`). The argument is then: a slot
written with the current epoch holds the present route; a writer that changes the
shard keeps the old one visible in its window until it bumps the epoch, at which
moment no tag is current any more (`VisibleStable`, `FreshPreserved`).

`LookupInv` adds that a lookup at its fallback step has seen its destination
without a route. `AgreeInv` adds that the predictive list follows the ordered map
(`PredictiveMatches`) and what a sole writer of a destination has made equal so
far at each of its steps (`SoleWriter`).

### DescRing

For every capacity, index space, batch length and set of descriptors.
`RingAssumption` says that the capacity divides the index space, which it does
whenever it is a power of two, and that the mask is then the remainder. (A
capacity that is no power of two is a hazard of its own, listed without a
property.)

`RingInv` says what an operation in progress may rely on although the other side
moves on: a push still has the room it saw (`PushFits`), a pop the descriptors it
saw (`PopFits`), what either has copied is still there (`PushCopied`, `PopCopied`),
and every published slot was written (`QueueWritten`). Under it, every action but
the two that publish an index leaves the abstract queue alone, and those two
append or remove a batch. The work is in the arithmetic of wrapping indices:
the slots of fewer than `Capacity` consecutive indices differ, also across the
wrap, and two chunks are the whole batch.

### XdpSocket

For any number of frames, any rings, batches, packets and numbers of retries.
`SocketInv` gives every frame one of six places: the free list, the completions
in hand, the frames of the batch in hand, the TX ring, in flight, and the
completion ring. No place lists a frame twice and no two share one (`OneOwner`);
while there is room for all, together they are all frames (`AllOwned`). Each
action moves frames from one place to another, which keeps the places apart and
their union as it was (`MovedApart`, `MovedCover`). `Stage` says which places
are empty at which step of `send`, `InHand` that a frame in hand holds what was
copied into it of its packet. `OwnedOnce`, `NoLeak` and `PayloadIntact` have the premise `clean`, as
in the runs: the bump allocator and a partial push break them, and
`xdp_partial_push` shows how. Headrooms may have any value: one above the
capacity refuses no frame, and without a second owner there are never more
frames to take than slots.

`SendsBounded` gives every point of a send a rank, `StepsLeft`: what is left of the
present attempt, counted from its stage and the packets or completions still to be
handled, and a full attempt for each retry left. Each step of a send lowers it and
no step of the kernel touches it, so a send of n packets takes at most
`(MaxRetries + 1) * (MaxReclaim + 2n + 7)` steps of its own. This is the safety half
of `SendReturns`; the other half is that its thread is scheduled.

### Forwarder

For batches of any length, frames of any size, any number of channels and any
initial capacity. `RoundsUp` says of `next_power_of_two` that it rounds up; it
is a hypothesis as TLC cannot evaluate it for all numbers.

`Drafted` says what a loop has written of an output it may still give up: it begins
where the table ends (`start`), is as long as `Draft` says, and is there only for a
frame that has a header. `TableTiles` then follows for the seal, the draft sent in
clear and the rewrite alike, as each of them pushes an entry that begins at `start`
and ends where the arena does.

`Mapped` says that an item of the parallel map that is no longer pending has the
outcome of its own frame at its own place, whichever items were mapped before it. So
once none is pending, outputs laid out and outputs still to append are, read as one
sequence, in the order of the batch and reach the present frame (`MadeInOrder`), and
each output is what its frame allows (`MadeWhole`).

For the arena, `Owed` is the number of bytes the rest of the batch may take, and
`RoomLeft` says that they fit. A step that writes takes no more than what is no longer
owed after it; a draft leaves owed what sealing it, or rewriting it, may still take.
In the serial full-spray loop this needs that a frame has no more channels than the
reserve multiplies by (`ReserveAllows`): `forwarder_spray` shows the overrun
without it. The other loops, and full spray of a large batch, need no such bound,
which `ArenaSuffices` states by putting the premise on the path and not on the
system.

Sums of sizes are functions on 0..n, and facts about them are proved by
induction: a set with zero and all successors has all naturals, from
well-foundedness (`Induct`).

### Kex, Session and SecureChannel

For any objects, processes, infos and payload sizes, any number of packets, any
hash of the cache, any delivery of the network. `KexAssumption` says that "no
secret" is no secret.

`KexInv` adds to the properties that an answer is for the public key its sender
heard, so an object has sent at most one (`AnswersHeard`), and that a secret is
what its owner derives from what it heard (`SecretsDerived`). That two secrets are
equal only between partners then follows from the transcript in them.
`SessionInv` adds that the cache holds under a key the material of an inserted
input with that key (`CacheHolds`); a session may hold another input's
material, but only one with a colliding key. `ChannelInv` ties the two together: a
user asks for one session (`OneCall`), from its own secret (`FromOwnSecret`), and
every packet was sealed by a session with its own inputs (`PacketsSealed`).

### KexState

For any window, range of numbers, time-out and retry limit; one handshake and
the clock. `WindowSorted` says that the recorded part of the array is strictly
sorted; `GivenBehind` that the counter is not behind any number returned since it
was set, and that the last number of all, once returned, stays recorded. From
the first, searching and shifting the array is insertion into a set with
eviction of the least, which is the refinement; the second gives
`NeverReissued`. `DeadMissed` says why a dead handshake is dead: it was cleaned
up, or the time is past its deadline on a clock that only ticked.

### SocketControl and Cli

For any sockets, labels, requests and workers. `CliAssumption` says that the
workers are distinct and no request asks for more than there are;
`SocketControlAssumption` that there are finitely many sockets.

A socket holds a prefix of what `new` acquires or what `Drop` leaves of it
(`HeldByPhase`); of the sockets of one label one is bound (`OneBound`), which is
the one with the counters (`RegistryExact`). `LiveCounted` and `UmemOutlivesFd`
follow. A socket is live as long as somebody refers to it (`RefsLive`), and a
socket that stays alive and healthy during a scan is in the registry throughout
and, once the scan has passed it, reached (`PassedReached`): `ControlHonest` is
that at the end of the scan.

A worker that has ended has closed its socket (`SocketByStage`), all sockets
belong to workers (`SocketsOfWorkers`), and the telemetry is the sum of the
workers joined so far (`TelemetrySum`); when `main` returns, all are joined.

### Router, Wire and Throttle

`RouterAssumption` says that XOR is commutative and associative on the words at
hand, which holds for machine words; the invariant is that each key has the hop
of its last update (`LastWins`). `WireAssumption` says that a field's values have
its width; the invariant is that the buffer carries the header (`Written`), and
what is proved is that no field is stored over another.

`ThrottleInv` counts, for every instant t at which an interval may begin, the
threads that are not late (a late one read the clock before t and cannot pass in
the interval). With m of them, as long as the stored time is before t at most
m(m-1)/2 packets of the interval have passed; once it is not, those that passed
and those that are bound to pass (`Armed`) are at most m(m+1)/2 (`Budget`). A late
store opens the gate again but leaves one thread fewer late.

### SpraySelect and WorkerPlan

For any number of channels and next hops, any buffer, any number of hashes and
any `&` that meets `SprayAssumption`. With it both reductions are the remainder
(`ReduceIsRemainder`), and a buffer is the selected channel followed by the others
with 0 in its place (`SprayBufIs`), which names each once. Shares of hashes are
counted by listing them one to one: the hashes with one remainder
(`RemaindersEven`), and those between two multiples of `HashSpace` divided by n,
rounded up (`BelowMultiple`, `MultiplesEven`). Either way two shares differ by at
most one.

For any chunks, list length, number of workers and available cores. That a parsed
list has one place for each naming of a core by a chunk (`ParsedEnumerates`) is an
induction along the list (`Climb`) over the recursive function inside
`FlattenSeq`, whose existence is proved first (`FlatExists`): appending a chunk
appends its span. Workers are then places paired with rounds (`ServedInRounds`):
the workers on a core include its places in every full round, and are among its
places in the rounds begun, each pair being one worker.

### Only model-checked

* `SendReturns`, `StaleGaugeGone`, `RequestsAnswered`: liveness under fairness is
  outside the prover. Of `SendReturns` the bound on the number of steps is proved.
* What the six runs that end in a violation show.

## What is not modelled

* Receiving beyond the pop of the ring: nothing ever fills the fill ring, so
  `poll` returns no frame. The copy out of the UMEM has no state of its own.
* The text of HTTP and JSON, `/metrics` output, the routing metrics file, the
  reporter of packets per second and the Unix metrics socket: formatting and
  reading of one counter.
* `eventfd` and `epoll` descriptors (optional in the code), CPU pinning.
* `MockSocket`'s `send` and `take_sent`, benchmarks, tools: test harness.
* Counters for profiling and telemetry, `mcr_forwarded`, `mcr_dropped`, the
  `handle_count` that large batches raise twice.
* Contents of packets; the forwarder sees of a header what `Wire` lets it read.
* Weak memory, allocation failure, panics other than under a socket's mutex and in
  a worker's batch.

## Plan

The model covers the system as far as the list above, and each safety property
that a passing run checks has its theorem. What would add to it:

* `UmemOutlivesFd` and `OwnedOnce` speak of the same frames in two modules; a
  composition of `XdpSocket` and `SocketControl` would state them as one.
* `XdpSocket` uses queues where the code has rings. `RingIsFifo` justifies that for
  each ring; a socket over four instances of `DescRing` would say it in one theorem.
