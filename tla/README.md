# A TLA+ model of net666

net666 is a TCP of its own over raw IP sockets, in C++: windows, Nagle
splitting, congestion window, fast retransmit, a three-way handshake, and
sockets whose state lies in shared memory so that several processes can use one.
This directory models its protocol engine, the life of its sockets and the
delivery of packets on a host in TLA+, checks the models with TLC, and proves
the safety part of what TLC checks with TLAPS. Source paths are relative to
`src/src/`.

## The system and its parts

| Part | Source | State | Operations |
|---|---|---|---|
| Window arithmetic | `tcp_proto_internal.h` | `receiver_window`, `send_window` | `contains`, `get_in_msg_off`, `set_off_from_seq`, `next_window` |
| Receive half | `tcp_proto_input.h`, `newimpl.cpp` | window, buffer, `flushed_off`, two locks, two notifications | `on_msg`, `client_flush_request`, `recv` |
| Send half | `tcp_proto_output.h`, `newimpl.cpp` | send window, in-place message buffer with `off_map`, congestion and peer window, duplicate counter, one lock, two notifications, one future per message | `send`, the send worker's loop, `output_on_ack` |
| Handshake | `tcp_proto_handshaker.h`, `newimpl.cpp` | remembered numbers, `INTERNAL_STATE` | `handshake(false)`, `handshake(true)` |
| Receive worker | `newimpl.cpp` | none of its own | takes messages from the queue and hands them to the halves |
| Queues between sockets | `newimpl.cpp`, `tcp_engine.cpp`, `transfer.cpp` | one raw socket and one bounded POSIX message queue per socket | `next_msg`, `put_msg_to_q`, `enqueue_msg`, `accept_one_client` |
| Socket life cycle | `tcp_engine.cpp`, `tcp_proto_mem.h` | named semaphore, shared memory, queue's name | `sock`, `reopen`, `accquire_shmem`, `~sock` |
| Close | `tcp_proto_handshaker.h`, `newimpl.cpp`, `tcp_engine.h` | remembered numbers, `INTERNAL_STATE`, `active` | `disconnect`, `~socket_full_impl` |
| Timeout | `tcp_proto_output.h` | `SRTT`, `RTTVAR`, `nm` | `refresh`, `get_timeout` |
| Checksum | `tcp_engine.cpp`, `newimpl.cpp` | none | `chsum`, `check_msg_corruption` |
| Front ends, chat | `tcp_internal.h`, `server_chat.cpp` | map of clients, a mutex | `connect`, chat threads |

A `send()` first does the handshake of its direction, then splits its data with
`nagles` into messages in the send buffer and waits for the future of each one.
The send worker takes the next message that is not marked as used, sends it,
and waits for it to be acknowledged or for a timeout. The receive worker takes a
packet from the socket's queue: data goes to `on_msg`, which moves the receive
window and answers; an acknowledgement goes to `output_on_ack`, which moves the
send window and completes messages. `recv()` flushes what the window holds.

The hard behaviours are the interleavings of these three threads, which let go
of their locks in the middle of an operation; memory of the send buffer reused
while a pointer into it is live; loss, repetition and reordering (repetition is
common, since every raw socket of a host sees each packet and puts it in the
queue it belongs to); messages of an earlier connection; readers that block each
other on full queues; objects that outlive their names; and sequence numbers at
the end of their 32 bits. `PROJECT.json` lists them as hazards, each at its line.

## The modules

| Module | Models |
|---|---|
| `SeqWindow` | the window operators, shared by the others |
| `WindowArith` | a send window under `send` and `on_ack`, alone |
| `Receiver`, `MCReceiver` | the receive half with the receive worker and `recv()` |
| `Sender`, `MCSender` | the send half with `send()`, the send worker and acknowledgements |
| `Handshake`, `MCHandshake` | both ends of the establishment, accept and close included |
| `Stream` | the abstract byte stream that both halves promise |
| `SockLifecycle`, `MCSockLifecycle` | users of one label: `sock`, `reopen`, the internal locks of calls and workers, `~sock` |
| `HostQueues`, `MCHostQueues` | the packets of a host on their way through raw sockets to the queues, with `accept_one_client` |
| `Close`, `MCClose` | both ends of the close handshake, the worker that answers it, the destructor |
| `Rto`, `Chsum` | the retransmission timeout and the checksum |
| `MCArith` | `WindowArith`, `Rto` and `Chsum` for TLC |
| `ConnectionProofs` | theorems and proofs about `Handshake`, `WindowArith` and `Rto` |
| `ReceiverProofs`, `CloseProofs`, `SockLifecycleProofs`, `HostQueuesProofs` | theorems and proofs about the module they are named after |
| `SenderSendProofs`, `SenderPutProofs`, `SenderProofs` | theorems and proofs about `Sender`, in three parts that extend one another |

Variables and actions carry the names of the source where there is one;
`PROJECT.json` maps each definition to its lines. Definitions marked "Mutant" are
bugs that could have been written in place of the definition that follows them;
no specification uses them.

**Atomicity.** In `Receiver` every lock, wait and post is a step of its own. In
`Sender` a step ends where a thread releases `send_worker_lock` or waits. In
`Handshake` and `Close` a step takes one message from the queue and handles it.
`mem_ctl`'s lock and its release around a callback (`ctl.call`) are where steps
are cut. In `SockLifecycle` a step is one system call on a name or a semaphore,
in `HostQueues` one system call on a raw socket or a queue.

**Data.** A byte of the stream is its position, so any loss, repetition or swap
shows. `Sender` keeps its buffer cell by cell: a message is a header cell and one
cell per byte, because the code overwrites memory behind a live pointer.
`get_msg_data_sz` reads the length of a free place from a sequence number
shifted by 8 bits; `LenShift` stands for that 256.

`SockLifecycle` numbers kernel objects in the order of their creation, since an
object outlives its name: a label names a number or none, and a user has mapped a
number. Its history variables say whether a construction has overlapped a
destruction (`overlap`), whether a memory was closed twice (`second`) and which
locks a call has kept since it last tested the memory (`kept`). A call is the
sequence of its locks, unlocks and tests (`Paths`): five of them are written down
from the code, two handshakes, `recv()` after its handshake, and a turn of each
worker, with the points where `mem_ctl::call` and `output_send_finally` let go of
a lock and take it again. `HostQueues` numbers packets in the
order of sending and keeps what came to each queue. `Close` keeps the messages
under way to an end and in its queue as one bag; the peer's data is one segment,
which may or may not fill the window. `Rto` keeps `size_t` arithmetic
modulo `SizeMod`; the doubles in between are exact for the values of a real path
and are cut off when stored. For the huge value that a clock set back leaves
behind a double rounds and the model does not, which changes the way down from it
and not where it ends.

**Environment.** Each half is closed by a peer taken from the other half: the
peer of `Sender` accepts the segment it waits for and answers every one, as
`on_msg` does (its test `contains` passes every segment that fits, and its wait
for a full window to be read is time the segment spends under way); the peer of `Receiver` sends segments that fit the window it was
told of, as `SegmentsFitPeerWindow` shows for `Sender`. Segments may be handed
over in any order and any number of times, or never.

## The runs

Passing runs:

| Run | Shows | States |
|---|---|---|
| `arithmetic` | `contains` accepts nothing outside the window and everything inside but one edge; offsets are exact; the timeout covers the last sample and settles; the checksum is exact and sees the changes it can see | 478,471 |
| `receiver` | nothing accepted is lost until a double post, reads are fresh, no wakeup is lost, no window of 0 is advertised; the receive half implements `Stream`, so delivery is in order | 468,687 |
| `receiver_one_call` | one `recv()` of the whole stream returns | 6,595 |
| `sender` | completed messages are with the peer; rounds and segments fit; nothing is stranded; a retry finds its message; no lost wakeup; the send half implements `Stream`, so the peer gets the stream; with several messages under way and a failing `sendto` | 1,340,017 |
| `sender_returns` | `send()` returns although a segment or an acknowledgement is lost, with a congestion window that starts below the window and grows | 39,544 |
| `handshake` | the ends agree on both directions and no old message opens a new socket | 4,025,006 |
| `handshake_returns` | a client that sends and a server that receives leave the handshake when nothing is lost and nobody closes | 4,077 |
| `sock_lifecycle` | a label never names a closed memory; initialisation is exclusive; a lock kept since the last test keeps the memory open; a live socket can be found by its names; constructor and destructor return if calls give their locks back | 80,005 |
| `host_queues` | the first copies of packets stay in order; the reads of `next_msg` find what `select` reported; `put_msg_to_q` returns and packets arrive unless readers wait for each other | 78,865 |
| `close` | no end closes alone; the worker that answers waits for the close; destructor and `send()` return, also while the other end waits in `recv()` | 291,254 |

Runs that violate what the code's documentation says (`findings` quotes it):

| Run | What TLC finds |
|---|---|
| `receiver_loss` | `recv()` woken by a left-over post flushes nothing, posts "completely read" a second time, and a later window is thrown away unread |
| `sender_stale` | the worker sends through `msg_` after its memory was reused |

The runs name the properties that take several steps to break. `TypeOK` of each
module holds under the same configurations when it is added as an `INVARIANT`; for
`WindowArith`, `Receiver`, `Handshake` and `HostQueues` it is proved, as part of the
inductive invariant, and for `Sender` until the first stale use. `InOrderUnlessResignalled`
and `RtoBounds` are proved and not repeated in a run.

Where a violated promise has one cause, the passing runs state it up to that
cause: `resignalled` (a second post for one window) in `Receiver`, `stale` (use of
a reused message) in `Sender`, `overlap` and `second` in `SockLifecycle`,
`late` and `Wedged` in `HostQueues`, `Faulty`, `Stuck` and the other end's closing in
`Close`. The passing `Sender` runs do not explore beyond the first stale use (the
constraint `UntilStale`): the buffer then holds arbitrary bytes. No fairness is
lost to it, since every property there is about states up to and including the
first stale one.

### The limits of the code that the models show

In the halves and the handshake:

- Past 2^32 nothing moves. `contains` rejects the acknowledgement of the last byte
  of a window across the end of the space, although its lift is there to accept it,
  so `send()` waits for ever where `stream_socket.h` says that it sends all.
  `ContainsAllButTheEdge` finds the edge, and `StallsAtTheWrap` proves that no
  window gets past it. In the
  receive half the 32-bit number of a segment never equals the 64-bit window
  start there.
- A `recv()` that begins while the worker waits for a full window to be read
  blocks for ever: it holds `recv_lock` and wants `recv_worker_lock`, the worker
  holds that one and needs the reader. (`RecvReturns` fails under `FairSpec` with
  `Roles = {"passive"}`, `WinSz = 2`, `StreamLen = 4`, `RecvSizes = {2}`.)
- `send()` and `recv()` called by two threads of one socket take each other's
  handshake messages from the queue and drop them. (`HandshakesEnd` fails under
  `FairSpec` with `SendCallers = RecvCallers = {A, B}` and nothing lost.)
- A fast retransmit on an empty buffer computes an offset from a message that is
  not there, and `off_map` is indexed out of range (`crashed` in `Sender`;
  `RetryFindsMessage` says that this is the only way).
- A failed `sendto` leaves its message marked as used and `send_worker_lock`
  released twice (`fails` in `Sender`): the message is never sent again.
- A lost SYN, SYN ACK or ACK is never sent again, and both ends wait for ever.
- Two ends that both begin with `send()` wait for each other's SYN ACK for ever.

In the life of a socket:

- Any user's destructor removes the names, there is no count of users. A
  constructor that overlaps it may initialise a memory under a semaphore that has
  lost its name while another constructor works under the new one, and a second
  destructor of the same memory removes its successor's names.
- The queue's name goes after `~sock` has released its lock, and may by then be the
  name of the next socket's queue.
- A second `sock` on a live label has a null `mq`. `accept_one_client` runs into
  this at the second packet of a connected client (`accept_live`), which is how
  `server_chat.cpp` ends.
- "socket has been already closed" leaves the locks of the call taken, and a later
  destructor waits for them for ever.
- `~sock` takes the internal locks in the order of their numbers, `recv_lock`
  before `recv_worker_lock`. The receive worker of another sock of the label takes
  them the other way round, and the two may wait for each other for ever. It also
  waits for a call that waits for its peer with a lock taken, as `handshake(true)`
  does for a SYN.
- After its wait `mem_ctl::call` takes its lock again without a new test, and the
  send worker writes its message with no lock at all: the memory may have been
  closed meanwhile. What holds is `KeptLockExcludesClose`.

In the queues of a host:

- Readers that fill each other's full queues, or one that puts a stray packet
  back into its own, wait for ever (`Wedge`).
- With two threads in `next_msg` for one socket, `recvfrom` or `mq_receive` may
  block for what `select` reported and the other thread took.
- A reader that comes into being while packets are under way may queue a later
  packet before an earlier one.

In closing:

- A lost FIN ACK or ACK is not sent again, and two ends that close at the same
  time wait for each other's answer.
- An RST that arrives while a `send()` waits stops the worker at `send_lock`. (A
  FIN while a `recv()` waits does not: `recv()` waits without a lock, and goes on
  waiting after the close.)
- The worker keeps `recv_worker_lock` and the acknowledgement of a segment that
  fills the window until the window has been read (`UnreadWindow`). If no `recv()`
  is waiting by then, the destructor joins a worker that does not end, and the
  `send()` of the other end does not return: a later `recv()` or `disconnect` blocks
  at the lock.
- `recv()` and `disconnect` take `recv_lock` before `recv_worker_lock` and the worker
  the other way round; they may wait for each other for ever (`LockCycle`).
- A copy of an old FIN or RST that comes to a new connection is answered, and the
  worker waits for an acknowledgement nobody sends.
- While `disconnect` waits it drops what the worker needs, and the other way round.
- `next_rst_ack` lets any acknowledgement with the right number pass; the number
  protects it.
- The second `disconnect` of the destructor never does anything: the first one has
  closed the one `INTERNAL_STATE` of both directions. In the default build there is
  no `disconnect` at all (`USE_SAFETY_CLOSE`).

**Deadlock** is not checked: an application that has sent or read its whole
stream, closed its socket or opened the last one may stop, and so may every
module.

### Bounds, and why they are enough

- `arithmetic`: `Modulo` 16 with every start, so that a window of 5 bytes lies at
  every distance from the end of the space. `Gkof` 28 (300 in the code) is the
  smallest floor of the margin that `RtoAssumption` admits: what the proof of
  `TimeoutCoversSample` needs for the rounding of the divisions.
  `SizeMod` 4096 stands for 2^64: above every value computed without a wrap.
  `MaxBack` 1 lets the clock step back once (the sample is then a wrapped one),
  `MaxChanges` 3 lets the round trip change three times before it stays.
- Receive half: windows of 2 bytes, streams of 6 (3 in `receiver_one_call`), so
  every window edge is met and the buffer is reused. `RecvSizes` holds sizes below
  and above a window. `StartSeqs` 12 places the third window across the end of
  the space, and `receiver` covers the stall there.
- Send half: in `sender` a window of 4 bytes and `Mtu` 2, so that both branches of
  Nagle's rule and two messages in flight occur, and `MaxFails` 1 lets a `sendto`
  fail. In `sender_returns` and `sender_stale` `Mtu` is above the window, as on a
  real interface (the window is 1000 bytes), and the congestion window grows from
  1 byte. `DupBound` is 2 or 3 where the code has 4: the counter works alike and
  the space is far smaller. `MaxDups` bounds acknowledgements that do not move
  the window; it reaches `DupBound` in `sender` and `sender_stale`, so that a fast
  retransmit happens there.
- `MaxLosses` in `Sender` bounds losses for good and matters to liveness alone: in
  the safety runs any segment may be delayed for ever.
- In `Handshake` a number is drawn once, so `Modulo` also bounds the draws of a
  behaviour. In the liveness run there are never more. In `handshake` the 4 are
  enough for a direction to be opened, both sockets to be closed, and the
  direction to be opened again, which is where old messages could do harm;
  behaviours with more exchanges than that are cut short.
- `sock_lifecycle`: two users, three constructions and the four internal locks of the
  code, so that an old destructor and a constructor that overlaps it run at once,
  the label is used again, and every path meets the destructor at each of its locks.
  A third user multiplies the time of the liveness check by twenty; the safety
  properties are proved for any number.
- `host_queues`: a client's socket and an accepted one beside the listener, six
  packets (the first a SYN, the last corrupt, number 1 put back as a stray). The
  capacity is 1, where a queue is full at once; a reader then blocks after a
  single packet, and a larger one only delays that. One socket closes.
- `close`: one end closes with the handshake and one without, one `send()` and one
  `recv()` are running, two connections follow each other, one message may be
  lost and one duplicated, `FinCopies` is 2 where the code sends 10. `MaxRand` 5
  cuts nothing off (with 7 the reachable states are the same).

### Fairness

A thread that stays runnable runs (weak fairness); a thread that finds a
semaphore free again and again gets it (strong fairness: POSIX semaphores are
not strictly fair, but no thread here spins on one). When to call, to destroy or
to open again is the application's choice: `SockLifecycle` and `Close` assume
nothing of it. `SockLifecycle` assumes no fairness of calls either, since they may
wait for a peer under a lock; `ConstructorAndDestructorReturn` states as its premise
that each user is without internal locks again and again.

In `Receiver` and `Sender` the network is fair in one point: the segment the
window waits for, sent again and again, is delivered in the end, and so is the
newest acknowledgement. The code justifies it by retransmitting for ever. In
`Handshake`, where nothing is retransmitted, delivery of what `Lose` does not take
is assumed instead, and applications make the calls they are named for. In
`Close` an answer in the queue of a thread that waits for it is taken in the end,
because the queue is first in, first out. In `HostQueues` a sender blocked at a
queue that has room again and again gets in (the kernel wakes senders in turn).
`arithmetic` assumes that samples go on being taken.

## What is proved

Every safety property of a passing run is proved, but for those of the checksum.
Each proof has the same shape: an inductive invariant, shown to hold initially and
to be kept by each action, then each property from it. Those of the receive and the
send half go on to a refinement. The results hold for all values of the
constants that satisfy the named assumptions (`ModuloAssumption`,
`WindowAssumption`, `ReceiverAssumption`, `SenderAssumption`, `NoWrapAssumption`,
`HandshakeAssumption`, `CloseAssumption`, `RtoAssumption`, `SockAssumption`,
`HostAssumption`).

`WindowArith` in `ConnectionProofs`: `ContainsSound`, `ContainsComplete`, `OffsetExact`,
and as a limit of the code `StallsAtTheWrap`. The invariant is
`WindowTypeOK /\ NeverPastTheWrap`. All positions lie below `2 * Modulo`, so the reduction to 32 bits subtracts `Modulo` at most
once; the acknowledgement of the last byte of a window that ends past `Modulo` is
rejected, so such a window never turns, which keeps positions below that bound.

`ReceiverProofs`: `TypeCorrect`, `InOrder`, `NothingAcceptedIsLost`,
`ReadsAreFresh`, `NeverAdvertisesZero`, `DataWakeup`, `FlushWakeup`. None of the
properties is inductive alone. The invariant adds who holds which lock at which
point (`Locks`), that a closed socket is untouched (`Closed`), where window and
`flushed_off` stand (`Window`, `FullWindow`), what was posted for the current
window (`FlushPosted`, `Tokens`), and what the reader has (`Delivered`). The key
is the count of tokens: as long as `recv()` never posted twice for one window,
there is at most one post, and only when the full window has been read; so the
worker turns a window only after it was read.

`ReceiverImplementsStream` in the same module: the receive half implements `Stream`
with a window as its capacity, until a window is signalled twice. Under that
invariant `OnMsg` maps to `Take`, `FlushBuffer` to `Give`, a second signal to
`Break`, and every other step, the turn of the window included, to a stutter.

`SenderProofs`: `RoundAlwaysFits`, `CompletedMeansReceived`, `SegmentsAlwaysFit`,
`NothingIsStranded`, `RetryAlwaysFinds`, `EmptyWakeupIsKept`, and
`SenderImplementsStream`. All speak of the time before the worker uses a reused
message (`stale`); the invariant `IInv` says that `Good` holds until then. The
buffer is a heap of cells that keeps messages of earlier windows behind `end_off`,
and the wire keeps old segments, so `Good` cannot speak of the current messages
alone. Its centre is that all of them, old and new, are pieces of one division of
the stream (`SpansOK`); what the peer has, and every number it acknowledged, then
ends where a message ends (`Places`), and an acknowledgement moves the window from
one message to another. The rest says how the live messages lie in the buffer
(`Layout`, `Written`), that unacknowledged data is intact (`Data`), who has a
message that is marked as used (`Used`), which messages are signalled
(`Signalled`), and what a round of `send()` still has to do (`Round`). Data needs
one exception: after a wrong offset `next_msg` may mark a cell of data as a
message in use, and the worker's next step is then stale. In the refinement
`PutMsg` maps to `Take`, the peer's step to `Give`, the first stale use to `Break`.
`NoWrapAssumption` keeps the stream below the end of the sequence space: beyond it
a window stalls (`StallsAtTheWrap`), and the arithmetic there is what `WindowArith`
is about. `SenderSendProofs` states `Good` and shows that the send worker, the
retransmissions and the steps of `send()` that put nothing into the buffer keep it,
`SenderPutProofs` the steps that put a message there, `SenderProofs` the
acknowledgements, the peer and the handshake.

`Handshake` in `ConnectionProofs`: `ReceiverFollows`, `SenderFollows`. Both properties relate a
socket to the past of the other end. What carries the past is the messages, so
the invariant `HInv` says of every message under way (`InNet`) or queued
(`Queued`) which exchange it belongs to, and of an established direction where
its threads stand (`Placed`). `WindowsAgree` and `DirectionsAlwaysAgree` are about
the present of both ends and rest on a second invariant, `Agreed`: a number is
drawn once, so what is answered or placed for it comes later (`Numbers`); once the
sender has placed its window for the number that the other socket drew, a later
socket of the sender asks with a number this one has never answered (`Met`).

`CloseProofs`: `NoEndClosesAlone`, and `WorkerWaitsForTheClose`, an action property.
An end closes when it takes the answer to its FIN or RST, so an answer under way
must mean that the worker that sent it still waits (`Answered`); a worker goes on
when it takes the last acknowledgement, so that must mean that its sender has
closed (`Confirmed`). Both hold because no message of an earlier exchange carries
a number of this one (`Drawn`).

`Rto` in `ConnectionProofs`: `TimeoutIsBounded`, `TimeoutCovers`. While the clock is not set back
the averages stay within the samples, so no product leaves `size_t`; that the
timeout is no smaller than the last sample follows from one step of the
averages, with the rounding of each division written out.

`SockLifecycleProofs`: `NameIsOpen`, a label never names a memory that is marked
`UNLINKED`, for any number of users and with every overlap. The invariant adds
that a destructor about to mark its memory has taken the name from it
(`MarkedIsNameless`): `shm_unlink` comes first, and a name is only ever given to
a new memory. The other results build on each other. `SemaphoreExcludes` counts the
posts of each named semaphore against its holder. Without an overlap constructors
look up the same semaphore, so they exclude each other (`ConstructorsExclude`), so
a memory is filled once and its internal locks have one holder each. Calls are
arbitrary paths there: all that is needed of them is that they keep only locks they
have and end with none (`CallsReturnLocks`). `~sock` holds every internal lock when
it marks the memory, so a lock that was kept since the last test excludes it
(`CallsExcludeClose`). Without a second
closing either, only the destructor of a memory removes its names
(`UsedSocketIsReachable`).

`HostQueuesProofs`: `QueuesAreBounded`, `CopiesComeInOrder`,
`SelectKeepsItsPromise`. A reader may queue a packet because no earlier one can
still be missing: whatever has not come to a queue is in front of every reader, in
its raw socket or in its hand (`AllSeen`), raw sockets are in order (`Rising`), and
what a reader has in hand comes before what it has still to read (`Ahead`); so what
has come leaves no gap (`NoGap`). `SelectedIsThere` holds because a thread alone at
its socket is the only one that takes from it (`There`).

The provers are Z3 (through `SMT`) and Zenon, and LS4 for the temporal steps. A step
that needs no arithmetic names `Zenon`: it is as quick there, and the time `tlapm`
spends on a step for `SMT` grows with the number of such steps before it in the
module.

Only model-checked: the checksum (a fold over a sequence: induction over data is
outside the prover's reach) and all liveness (so are fairness and `ENABLED`):
`RtoSettles`, `RecvReturns`, `SendReturnsUnlessStale`, `HandshakesEnd`,
`ConstructorAndDestructorReturn`, `PutReturns`, `Delivered`, `DestructorReturns`,
`SendReturns`.

## What is abstracted or left out

- The handshake is one step in `Receiver` and `Sender`; `Handshake` models it, and
  no data segments travel in it (the code drops them there and their sender
  sends them again).
- `rand32` returns no number twice in `Handshake` and `Close`: with repeated draws
  an old acknowledgement could match by chance.
- In `Sender` a timeout may strike at any time; `Rto` models its length. There and
  in `Receiver` a corrupt segment counts as a lost one; `Chsum` and `HostQueues`
  model the check.
- After a failed `sendto` the lock count is 2 and steps of `Sender` might overlap
  inside; they are still taken one at a time.
- `sendto` reads the message in one step; a copy torn by a concurrent
  `put_msg_inplace` is not modelled.
- In `Close` the messages on their way to an end are a bag, so they overtake each
  other; both locks of the send half are taken in one step, in the order all their
  users share; the send worker, which `~sock` only joins, is left out. A further
  connection opens both ends in one step: one is open before the other in the code,
  which is `Handshake`'s matter and not a half-closed state.
- In `SockLifecycle` one thread of a user is in a call at a time, and a path that
  goes on in a loop is walked once per call; a loop is a sequence of calls.
- System calls that fail for want of resources: none does in any module, save
  `sendto` in the send worker (`fails` in `Sender`).
- The chat programs. `accept_one_client` of a client that is already connected
  runs into the null `mq` at its second packet, which ends the server; its map of
  clients and its mutex have no longer behaviour to check.
- `output_control_flow_persist_timer` is used nowhere; logging is output; the
  layout of the shared memory is not visible to any property.

## Plan

All parts but the chat programs have a module. What would add most from here:

1. `Connection`: `Sender`, a network and `Receiver` composed. Both halves are proved
   to implement `Stream` on their own; the composition has not been built, and the
   state space of `Sender` alone suggests that it needs a coarser model of that half.
2. The send half at the end of the sequence space, which `NoWrapAssumption` leaves
   out.
