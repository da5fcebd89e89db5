# qmux-go in TLA+

A verification development for `src/qmux`, the Go implementation of QMux: QUIC
streams, flow control and datagrams over a reliable, ordered transport. The
modules model the code, TLC checks them on small instances, and TLAPS proves the
most important results for all instances.

## The system

| Part | State | Operations | Code |
|---|---|---|---|
| Write lock | `held`, a heap of waiters with their priority, `arrivals` | `acquire`, `LockPriority`, `Unlock` | `write_lock.go` |
| Streams | offsets and limits in both directions, unread data, FIN/reset/error/cancelled flags, a signal for readers and one for writers | `read`, `peek`, `cancelRead`, `write`, `closeSend`, `cancelWrite`, and what frames do to them | `stream.go`, `conn.go` |
| Stream limits | `outgoing` (next, max) and `incoming` (next, max, accept queue), for each direction kind | `tryOpen`, `streamLocked`, `tryAccept`, `completeLocked` | `conn.go` |
| Connection flow control | sent/sendMax, received/consumed/recvMax | `receivedLocked`, `consumeLocked`, `reserve` | `conn.go`, `stream.go` |
| Control queue, write loop | queued frames, pending flags, the one-slot `controlWake` | `queueLocked`, `takeControl`, `flushControl`, `writeLoop` | `conn.go` |
| Read loop | none of its own | `readLoop`, `handleRecord`, `handleFrameLocked` | `conn.go` |
| Handshake | `ready`, the peer's parameters | `start`, `handleParametersLocked` | `conn.go`, `qmux.go` |
| Close | `closeErr`, `done`, the transport's half-close | `terminate`, `abort`, `closeGracefully` | `conn.go` |
| Keep-alive, idle timeout, RTT | ping flags, `lastActivity`, RTT estimates | `keepAliveLoop`, `idleLoop`, `handlePingLocked` | `conn.go` |
| Datagrams | a bounded queue | `SendDatagram`, `ReceiveDatagram`, `handleDatagramLocked` | `conn.go` |
| Wire format | none | `Parse`, `Append`, the parameters' codec | `internal/wire` |
| Transports | a read buffer | record framing, the skipping of large records, the message adapter | `transport.go`, `adapter.go` |

How they interact. Everything but the write lock is guarded by one mutex,
`Conn.mu`. Goroutines that wait (a reader, a writer without credit, an opener, an
acceptor) take a signal's channel under the mutex, release it, and sleep until the
channel is closed by a broadcast. Whoever writes a record holds `writeMu` from the
decision of what to send to the end of the write; the read loop changes state and
queues control frames, and the write loop sends them. So the hard behaviours are

- a decision made under `Conn.mu` and acted on after it has been given up: credit
  seen by `waitSendCredit` and spent in `reserve`; a RESET_STREAM queued while a
  chunk is reserved and not yet written;
- a wake-up missed by a goroutine about to sleep, or by the write loop, whose
  channel holds one token;
- the many orders in which the two directions of a stream can end, each of which
  must return connection credit and count the stream once;
- limits that are out of date when the peer acts on them;
- both endpoints blocked on the transport, on credit, and on each other;
- several goroutines that end the connection at once, while others wait for the lock
  or in a write that the peer holds up;
- boundaries: half of a small window, the largest stream limit, unsigned
  subtraction.

`PROJECT.json` lists these as hazards, each with its line and its properties.

## The modules

| Module | Models |
|---|---|
| `Mutex` | what users of the write lock rely on (abstract) |
| `WriteLock` | `write_lock.go`, with `setPriority` and the callers in `stream.go` and `conn.go` |
| `CreditWindow` | what flow control promises (abstract) |
| `Conn` | one endpoint's connection and its streams as a record, and each critical section of `Conn.mu` as an operator on it |
| `Endpoint` | one endpoint against a peer that may send any frame and an application that may make any call |
| `Mux` | two endpoints, the transport between them, and `writeMu` |
| `Session` | what the life of a connection promises (abstract) |
| `Lifecycle` | the goroutines of one connection from `newConn` to their end: handshake, timers, close, and the transport |
| `MC...` | instances for TLC |
| `...Proofs` | theorems |

**WriteLock.** `pc[w]` follows a writer from the reading of its stream's priority
(`Ask`), through `acquire` (`AcquireFree`, `AcquireBusy`), to the close of its
`ready` channel ("handed"), its return from `LockPriority` (`Resume`) and
`Unlock`. Since `Ask` and `acquire` are two steps, the priority a writer queues
with may be stale, as in the code. The heap is the set of queued writers and its
`Pop` any writer that `less` puts before no other. `ahead` is a history variable:
who was queued already when a writer queued.

**Conn.** The fields keep the names of the Go fields. Data is a number of bytes:
`unread` is the length of the read buffer, and a STREAM frame has an offset and a
length. A forgotten stream is kept in the record with `done` set, where the code
removes it from its map; a stream exists when its index is below `next`. Each
signal is a Boolean, "some goroutine waits on it", cleared by a broadcast; each
operator that waits sets it. An error of `handleFrameLocked` is kept in `fault`
for the read loop. `handleFrame` is the whole dispatch, with `Parse`'s bound on
stream counts; frames this endpoint only validates (the BLOCKED ones) change nothing.
`StreamLimit` holds the three initial_max_stream_data parameters of each endpoint. A
peer of `Endpoint` may declare any three; `Mux`, where both sides run this code,
assumes what `newConn` declares, the stream window for each. Setting a deadline is a
broadcast.

**Endpoint.** One action per handler, call, and write-loop step. A record holds one
frame: `handleRecord` holds the mutex for a whole record, so a longer one is among
the interleavings of its frames. The application holds a stream once it has been
opened or accepted. `ReadFails` is the read loop's other way to end the connection,
an error of the transport or a record over the limit. `want` is a history variable: how
much a sleeping reader waits for.

**Mux.** Adds to two `Conn` records the wire (at most `WireCap` records in each
direction, so that writes block), the lock with the records its holder has still to
write, the write loop's position, and each stream's `Write` and `Peek` in progress.
`TrySend` (credit seen), `WriteChunk` (lock taken, credit reserved) and
`WriteRecord` are three steps, and everything that needs only `Conn.mu` may happen
between them. A write with a deadline may find it passed wherever the code looks: in
`TrySend`, which then fails even with credit at hand, and in the wait for credit
(`WriteTimeout`). A chunk whose lock or record it waits for is not given up, as in the
code. `SetWriteDeadline` wakes the writer. Deadlines of readers are in `Endpoint` only.

`Mux` takes the write lock to be a mutex. That is justified by `ImplementsMutex`.
Its read loop stops at the first fault, which `NoFault` shows not to happen between
two endpoints that both run this code; the close that would follow is in `Lifecycle`.
`ControlQueueBounded` rests on that too: a peer that keeps to the limits it has been
told. `recvMax` and `in.max` grow when the frame that announces them is queued, so
against a peer that goes past what it has been told the queue has no such bound.

**Lifecycle.** `pc` says where each goroutine is: the four loops, `start` (Dial or
Server), application goroutines that write (`Write`, `Close` of a stream,
`SendDatagram`) and that close. What a goroutine does under `Conn.mu` is one step; taking
`writeMu`, a write, the half-close and the close of the transport are steps of their
own, so `closeGracefully` takes six: `closeGracefully` (terminate), `Expire`,
`LockClose`, `WriteClose`, `ShutDown`, `GiveUp`. Streams and credit are left out: a
record is one of a few kinds. The transport takes `WireCap` records ahead of the peer,
may shut down or break, and has what `closeWrite` and `expire` find: TCP, TLS (whose
half-close writes an alert) or a message transport. There is no clock: a timer that
runs may go off at any moment, so the results hold for every length of the timeouts.
`sent` and `told` are history variables: what is on the wire, and the reason in the
CONNECTION_CLOSE.

## What TLC checks

| Run | Instance | Shows |
|---|---|---|
| `write_lock` | the write loop, two writers of stream 0, one of stream 4, urgencies out of range on both sides, 2 numbered arrivals | exclusion, no lost lock, the documented order, control first; `Mutex` implemented; a control writer that queues is served, though streams ask for ever |
| `endpoint_receive` | streams 0 and 4 (limit 1), 2 and 6 (limit 2), windows 4 and 2 | limits enforced and reopened, credit returned, streams counted once, readers and acceptors woken, final sizes and limits kept |
| `endpoint_send` | streams 1 and 3, the peer's stream limits 3 and 2, its window 3 | credit never overspent, no limit lowered by a late update, writers and openers woken |
| `mux_stream` | streams 2 and 6, windows 4 and 2 | no endpoint accuses the other; sizes agreed; control queue bounded; `CreditWindow` implemented by every stream and by the connection |
| `mux_bidi` | stream 0, windows 2 | the same with RESET_STREAM, STOP_SENDING and FIN crossing |
| `mux_limit` | streams 2 and 6, limit 1 | the opener's and the acceptor's counts agree; ending a stream makes room for another |
| `mux_live` | streams 2 and 6 written by one side, or stream 0 by both, windows 2 and 3, writes of 3 | writes finish |
| `lifecycle` | the four loops, `start`, a writer and a closer, on TCP, TLS and a message transport | parameters first and CONNECTION_CLOSE last; the handshake completed once; the peer told the reason unless something excuses it; `Session` implemented; everything returns |

A run of `Endpoint` or `Mux` covers several uses of a connection: the variable `use`
is chosen at the start and says which frames the peer sends, which methods the
application calls and with which sizes. Checking everything at once is beyond TLC; a
use puts together the operations that share a hazard. `endpoint_receive` has four:
one stream with every frame and call that concerns reading; two streams that share
the connection's window and the accept queue; a bidirectional stream whose
directions end in any order; two bidirectional streams at a limit of one.
`mux_stream` has two: one stream with writes, deadlines, cancels and resets, and two
streams that compete for credit and are read and peeked. `mux_live` has two: two writers on one side,
and a writer on each side, so that both endpoints may be blocked on the transport and
on credit at once. The theorems hold for any uses.

The bounds. A window of 4 is the smallest with a half (2) that differs from 1 and
from the window, so reads below, at and above the half are told apart. The
connection's window of 2 is the one that binds when two streams share it. The peer's
frames reach past the stream's limit in the first use of `endpoint_receive`, and past
the connection's, with each stream within its own, in the second, so every limit
check passes and fails. Two streams are enough for everything said of streams, since
the code relates a stream only to the connection and to lower-numbered streams of its
kind. A wire of one record makes every write block at some moment. `lifecycle` starts in any
of five `Cases`, a kind of transport with what may become of it and the application
goroutines there are: a writer and a closer that race, a writer that holds up the TLS
alert, a peer that shuts down, a link that breaks, and keep-alive. The bounds are
`MaxArrivals`, `MaxBytes`, `WireCap`, and the largest offset and length in
`MCEndpoint`'s `Frames`. Deadlock is not checked, because the system may stop: the
connection is closed, the application has nothing more to do, or a bound is reached.

**Fairness.** `WriteLock`: a goroutine that can run does, and a holder unlocks (each
one writes a record and defers `Unlock`). `Mux`, `FairGoroutines`: the read loop, the
write loop and a writer run when they can; weak fairness, except for the write loop and
the writers, which compete for the write lock (`FlushControl`, `WriteChunk`) and get
strong fairness. The lock justifies it: it is handed to control writers first
(`ControlFirst`, `ControlServed`), and the runs use streams of default priority,
which is incremental, and incremental streams take turns (`ServedInOrder`). A stream
that is not incremental may starve others, as documented, and nothing is claimed for
them. `Lifecycle`: a goroutine that can run does, and the timers that bound the
handshake and the close go off; the peer may do nothing for ever. `FairReader`: the application of the receiving side goes on accepting and
reading; without it no flow control lets a writer finish. Nothing is assumed of the
calls that write, close or cancel.

## What the code does not do

Four runs end in a violation of what the repository says.

- `window_of_one`: `Config` allows a window of 1. Half of it is 0, and "less than
  0 left" is never true, so after one byte the stream's limit is never extended
  (`stream.go:216`). The connection's window has the same condition
  (`conn.go:745`).
- `peek_within_window`: `Peek` accepts any length up to the window. After a read of
  up to half a window the limit has not moved (`readLocked` waits for more than half),
  so the peer may not send as much as the `Peek` waits for, and nothing else extends
  the limit.
- `top_stream_limit`: `Config` allows the largest stream limit, 2^60. The first
  stream that ends makes the endpoint declare one more, which the peer's `Parse`
  refuses. The model puts `MaxStreamCount` for 2^60.
- `reader_lock`: `writeMu` is "never [taken] by the goroutine that reads the transport"
  (`conn.go:96`), but `readLoop` takes it to report a violation (`conn.go:487`), and
  does not read while it waits for a writer that the peer holds up. That it is not
  stuck is the write deadline's and the forced close's doing (`EverythingReturns`).

## What is proved

For any streams, windows, limits, writers, sizes and peer frames, from the named
assumptions `ConnAssumption`, `EndpointAssumption`, `WriteLockAssumption` and
`LifecycleAssumption`. These only say what kind of value each constant is, that
goroutines of different kinds differ, that the control writers are writers, and that
the model's streams include the lower-numbered ones of the same kind.

- `WriteLockProofs`: `MutualExclusion`, `HeldHasOwner`, `ControlFirst`,
  `ServedInOrder`, and the refinement of `Mutex`. The inductive invariant adds to
  the first two `RanksSound`: a queued writer's rank agrees with its kind and its
  stream, the number of an incremental one is at most `arrivals`, and it is above the
  numbers of those that were queued before it. Without it nothing ties `less` to
  the order of arrival.
- `CreditWindowProofs`: `WithinWindow`, from the chain received <= sent <= limit <=
  granted <= consumed + Window with consumed <= received. `Mux` is checked to
  implement `CreditWindow`; the theorem says what that is worth, for any window.
- `EndpointProofs`: `TypeOK`, `FlowControlEnforced`, `SendWithinLimits`,
  `ControlNotStranded`. The inductive invariant is `Sound` of `ConnProofs`: every
  stream and the connection are within their limits, nothing has been sent before
  the peer's parameters arrive (otherwise they could cut a limit below what was
  sent), and what waits to be sent has a token in `controlWake` or a write loop on
  its way. `ConnProofs` has one lemma per operation of `Conn`; `EndpointProofs` has
  one step per action.
- `LifecycleProofs`: `WireOrder`, `HandshakeOnce`, `ReasonNotLost` and the refinement
  of `Session`, for any number of writers and closers and any transports. The inductive
  invariant `IInv` says which goroutine may be at which label, who holds `writeMu`, that
  at most one goroutine is on its way to write CONNECTION_CLOSE and that it is the one
  whose reason was recorded, and that as long as the parameters are not out the write
  loop has the lock or no write succeeds any more. `TellsOK` adds, for `ReasonNotLost`,
  that until something excuses it whoever ended the connection is still on its way, on a
  transport that takes the frame.

Only model-checked: liveness (`ControlServed`, `WritesFinish`, `EndingMakesRoom`,
`EverythingReturns`);
`WindowReopened`, `CreditAccounted`, `StreamsCounted`, `NoLostWakeup` and
`HistoryKept` of `Endpoint`; and all of `Mux`.
`CreditAccounted` is about a sum over the streams and needs induction over a set,
which the prover does not do.

## Not modelled, and the plan

In order:

1. `KeepAlive`: a discrete clock, `keepAliveLoop`, `idleLoop`, `requestPing`,
   `handlePingLocked`, RTT: a live peer is not timed out, a dead one is.
2. `Deadline`: times, so that a deadline moved while a goroutine waits is the one it
   obeys.
3. `Datagram`: the bounded queue, its drops, the end of the connection.
4. `Framing`: `streamTransport`, records over the limit, the message adapter.
5. `Wire` and `Params`: the codec as operators, checked for round trips over
   boundary values; `Config.normalized`.
6. `ReadBuffer`: the reuse of the slice in `bufferLocked`.
7. Proofs: `NoLostWakeup` and `HistoryKept` for `Endpoint`; `StreamLimitsAgree` and
   the refinement of `CreditWindow` for `Mux`.

Accessors, statistics, error aliases and build scripts hold no state that matters
to the protocol and are left out.
