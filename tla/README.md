# Verification of file-transfer-over-udp

TLA+ models of the TFTP server and client of this repository, the TLC runs that
check them on small instances, and TLAPS proofs about the server session, a get and a put
with their clients and their network, the server's threads, the option negotiation and the
command line client. The models are translated from the C code under `tftp/src` and `examples`;
`PROJECT.json` names, for every definition, the lines it stands for.

## The system

| Part | State | Operations | Interacts with |
|---|---|---|---|
| Main thread (`server.c`) | `should_stop`, statistics interval, the slot in hand | take a slot, receive a request, start a session, run the statistics callback, shut down | worker pool (slots, semaphores), the rings of the workers, signals |
| Worker pool, workers (`worker_pool.c`, `worker.c`, `worker_job.c`) | semaphore `available_jobs` and `is_active` slots per worker, `shutdown` | least busy worker, take and give back a slot, event loop, join | main thread (shared slots), dispatcher |
| Dispatcher (`dispatcher.c`) | an io_uring, `pending_requests` (`uint8_t`) | submit nop, timeout, timeout removal, read, recvmsg, cancel; wait for a completion | kernel; called by the main thread and by the worker |
| Session (`session.c` and helpers) | Go-Back-N window, packet buffers, retry counter, `pending_jobs` (`uint8_t`), timer flag, file offset | one handler per completion: start, timeout, timeout removed, packet, receive removed, data available | client over UDP, file, dispatcher |
| Adaptive timeout (`adaptive_timeout.c`) | the block that is being measured, the estimate | start, cancel and end a measurement | session |
| Client get and list (`client.c`) | expected block, last packet sent, retries, options | send the request; receive OACK, DATA, ERROR; time out | session over UDP, destination file |
| Client put (`client.c`) | window of the sender, retries, options | repeat the request until answered; send blocks, receive ACKs, time out | session over UDP, which stores the file |
| Option negotiation (`tftp.c`, `session_options.c`, `client.c`) | block size, window, timeout of each side | format, parse, acknowledge, take over | both ends |
| Command line client (`examples/client.c`, `client_cli.cpp`) | output and temporary file, retry flag, exit status | get, put, list; a second attempt without options | client library, local files |
| Netascii, packet layout, statistics, logger, listener, command line of the server | little or none | conversion, arithmetic, output | |

What is hard here:

- *Concurrency.* Completions of a session's timers, reads and receives arrive in
  any order; a timer may fire while its removal is under way. The main thread and
  the workers share slots, semaphores and an unsynchronised counter.
- *Failure.* Packets are lost, duplicated and reordered; files do not open or fail to
  be read; system calls fail.
- *Bounds.* Block numbers are 16 bits and wrap; job counters are 8 bits; slots,
  buffers and ring entries are limited.
- *Progress.* Lockstep over a lossy network works only if somebody has a timer.

What makes each part correct:

- session: every DATA packet carries the bytes its number stands for, at most a
  window is unacknowledged, something always drives the session on, and it is
  reported closed only when nothing of it is left in the ring;
- get: the client's file is always a prefix of the server's and complete on success,
  and both sides end;
- put: success means that the whole file is stored at the server, and the client ends;
- adaptive timeout: no packet that was sent twice is measured;
- options: both ends transfer on the same terms, whatever was asked for and ignored;
- command line client: the exit status and the output file tell the truth, and a second
  attempt repeats nothing;
- server: a slot is never in use twice, a free slot is found when the semaphore says
  so, no slot is lost, the main thread keeps listening, shutdown waits for sessions.

## Modules

| Module | Models | State and actions |
|---|---|---|
| `BlockNumbers` | `is_in_range` and 16-bit arithmetic on block numbers | operators, modulus `BlockMod` for 65536 |
| `Packets` | packets and the file | operators; a byte is its position in the file |
| `ServerSession` | `session.c` | variables named as the fields of `struct tftp_session`; one action per event, each ending in the tail of `tftp_session_handle_event` (`Epilogue`) |
| `SessionJob` | abstract: what the worker may rely on | two variables: state of the slot, operations in the ring |
| `AdaptiveSession` | the measurements of `adaptive_timeout.c` | adds four variables to `ServerSession`; each of its steps is a step of the session with what it measures |
| `ClientGet` | `tftp_client_read`, `receive_file`, `receive_packet` | one action per kind of packet and one for the timeout |
| `ClientPut` | `tftp_client_write`, `handle_put_request`, `send_file` | one action per kind of packet and one timeout for each of the two loops |
| `Network` | UDP (external) | operators on channels: transmit, deliver, duplicate, lose |
| `GetTransfer`, `PutTransfer` | a session, a client and the network | compose: `sent` of one goes into the channel to the other |
| `ReliableTransfer` | abstract: what a transfer promises | both compositions implement it |
| `Server` | main thread, pool, workers, `pending_requests` | program counters for the threads; every shared read and write is a step |
| `Options` | option negotiation of both ends | operators from lists of options to the terms of each end |
| `ClientProgram` | `main`, `get` and `put` of the command line client | one action per phase: files, request, answer, transfer, copy, decision of `main` |
| `MCServerSession`, `MCAdaptiveSession`, `MCGetTransfer`, `MCPutTransfer`, `MCServer`, `MCClientProgram` | | the requests, options, servers and command lines of the runs |
| `ServerSessionProofs`, `SessionTransferProofs` | | theorems about `ServerSession`: that it goes on and ends; what it transfers; and about `AdaptiveSession` |
| `SessionJobProofs` | | `ServerSession` implements `SessionJob` |
| `GetTransferProofs`, `PutTransferProofs` | | theorems about `GetTransfer` and `PutTransfer`, and that they implement `ReliableTransfer` |
| `ServerProofs` | | theorems about `Server` |
| `OptionsProofs`, `ClientProgramProofs` | | theorems about the negotiation, and about `ClientProgram` |

### ServerSession

The ring is represented by the number of operations of each kind the session has in
it (`timers_armed`, `timers_fired`, `timers_canceled`, `timeout_removes`, `recv`,
`recv_removes`, `reads`). A timeout removal takes effect when it is submitted and
removes one armed timer, if there is one; the completions of both come later. A
receive completes after the completions that were queued before it was posted, which
is why `PacketReceived` requires that the removals caused by the previous packet have
been handled. Everything else may complete in any order, a timer at any time.

`start` keeps the requests that cannot be served: not a request (`valid`), unknown
mode, file that does not open (`fd = "none"`, descriptor -1), descriptor still 0
(`fd = "zero"`). In the code these are not refused, and the model follows what
happens next. `status = "hung"` marks a call that never returns: the loop of
`on_timeout` over an empty window.

The clients of the session alone (`ClientPackets`) acknowledge only what was sent
and send only blocks of the file, plus ERROR, malformed and foreign packets; with
`Fifo = FALSE` an ACK may be up to `MaxAge` blocks old.

Left out: the statistics counters, the value of the timeout (a timer fires at any
time), the netascii conversion itself (positions are those of the encoded stream),
reads that return less than the file has when it is seekable.

### AdaptiveSession

Every step of the session is classified by what `session.c` calls at that place:
`send_oack` and `on_data_available` start a measurement, `on_timeout` cancels it, an ACK at
or after the measured block ends it. The estimate itself is floating point and only
chooses when a timer fires, which `ServerSession` leaves open; sessions with options are
taken to have asked for the adaptive timeout. `resent` is history: it holds what Karn's
rule speaks of.

### ClientGet and GetTransfer

A turn of the loop of `receive_file` is one action. The session in `GetTransfer` is
the one whose packet the client receives first; sessions started by retransmitted
requests are strangers. Channels hold `ChanCap` packets and lose what exceeds it;
`Reorder` and `Duplicate` choose the network. The request is the well-formed RRQ the client
sends; the file may be missing and the mode unknown. The runs ask for a file that is there:
without one the session waits for another packet (see `session_file_error`), which never
comes once the client is gone, and TLC would report a deadlock. The theorems include these
requests.

`c_options` says what `tftp_client_read` is given. `timed` is false for a null pointer, which
the command line client passes in a second attempt to get a file: `timeout_s` stays 0,
`SO_RCVTIMEO` is set to that, and `recvfrom` waits without a limit, also after the first DATA
has put the default into `timeout_s`. So `ClientTimeout` requires `timed`. A list, and a first
attempt, always pass options, which may ask for nothing.

### ClientPut and PutTransfer

A put never asks for a window, so the window is one block and one buffer. `p_options` keeps
the three ways in which `tftp_client_write` is called: with an option to ask for, with
options that ask for nothing, and without options, which leaves the structure zero: no
timeout on the socket, and a remainder by zero once the server answers (`crashed`). The mode
of its WRQ is one the server knows; the file may fail to open.
`next_sequence_number - 1` is an `int` in `send_file` and is not reduced, which the model
keeps in `Completed` and `ResentSize`: when the last block has number 65535 the client does
not see it acknowledged and ends in a loop (`hung`). `LastNumberIsMaximal` names that case,
and `PutNeverHangs` says that it is the only one.

A repeated WRQ that reaches the listening socket starts a second session. Its packets are
a stranger's, but it opens the same file with `O_TRUNC`. `disk` is that file, `clobbered`
records that something was lost. `Timely` and `MaxLosses` restrict the timers to
silent moments and count losses; only `put_loss` uses them, to show that it takes no early
timeout and only one lost packet.

### ReliableTransfer and SessionJob

`ReliableTransfer` has a sender and a receiver: the receiver stores blocks in order and
nothing else, the sender takes a block for delivered only after the receiver stored it,
success of either side means that the file is complete. In a get the session is the
sender and the client the receiver; in a put they change places. `GetIsReliable` and
`PutIsReliable` are the refinements, with what the sender has had acknowledged as
`confirmed`. In a get the session counts as successful from the ACK of its last block on
(`SessionOutcome`), and as failed when it closes or ends without that ACK; in a put it counts
as successful once it has stored the last block.

`SessionJob` is the view the worker has of a session and on which `Server` is built: a
handler returns "closed" exactly when nothing of the session is left in the ring.
`SessionIsJob` shows that `ServerSession` implements it.

### Options and ClientProgram

`Options` keeps the real ranges of the numbers (8 to 65464, 1 to 255, 1 to 65535). A value is
the number it denotes, since both sides print and parse decimal numbers; "adaptive" and
"directory" are values of their own. `ValidValues` gives each option the values that
`tftp_parse_options` accepts, through the named ranges `BlockSizes`, `Timeouts` and
`WindowSizes`. What a server ignores (a switched-off extension, a size
it has not) is absent from its OACK.

In `ClientProgram` the transfer is one step that ends in the ways `GetTransfer` and
`PutTransfer` allow; what is followed in detail is what surrounds it. A server is one of this
repository in any configuration, one that knows no options, one that refuses requests with
options, or none. `rcvtimeo` is the timeout the socket really has.

### Server

A session is what the worker sees (`SessionJob`): operations in the ring, at most
`setup.events` more submitted by its handlers, terminated when none is left.
`pending_requests` is a plain `uint8_t` updated by two threads, so a load and a store are
separate steps. A `setup` is the configuration of a server and of its surroundings;
one run checks several.

## Runs

| Run | Instance | Shows |
|---|---|---|
| `session_safety` | 4 block numbers, block size 2, file of 9 bytes (5 blocks, so that numbers wrap and the last block is short), windows 1, 2 and 3, seekable or not, netascii, writes, unservable requests, 2 retries, failing reads and calls | `TypeOK`, `ClosedMeansQuiet`, `NeverHung`, `SessionInv`, `EmptyWindowProgresses`, `WindowBound`, `SentDataFaithful`, `WrittenIsPrefix`, `SessionIsJob` |
| `session_live` | 8 block numbers, 5 blocks, served requests, ACKs up to 3 blocks old in any order, the adaptive timeout, fairness | `WaitingIsTimed`, `CleanCloseIsComplete`, `NoResentSample`, `ClosingTerminates`, `SessionTerminates` |
| `get_safety` | 3 blocks, loss and duplication, listing options, options that ask for nothing, null options, strangers, failing writes | `GetTypeOK`, `FileIsPrefix`, `SuccessIsComplete`, `NeverAhead`, `CleanCloseMeansDelivered`, `UnsupportedMeansUntouched`, `GetIsReliable` |
| `get_live` | 2 blocks, with options, with options that ask for nothing and with null options, loss, the server may die, fairness | `TransferEnds` |
| `put` | 4 block numbers, files of 0, 3, 6 and 7 bytes (1 to 4 blocks, an empty last one, a wrap), with, without and with null options, loss and duplication, a second session, failing calls, the server may die, fairness | `PutTypeOK`, `PutSuccessIsStored`, `DiskIsPrefix`, `PutNeverHangs`, `PutIsReliable`, `PutEnds` |
| `server` | one worker with 2 slots and 3 requests; two workers with 1 slot each, statistics, refused requests, failures; signals, fairness | `ServerTypeOK`, `SlotIsFree`, `SearchSucceeds`, `SemaphoreCountsJobs`, `NoOverbooking`, `KeepsListening` |
| `program` | every combination of options, with the ends of their ranges, against servers in every configuration, a file of 100000 bytes, a listing of 20, fairness | `ProgramTypeOK`, `TermsAgree`, `ExitIsHonest`, `NoDebris`, `RetryRepeatsNothing`, `ProgramEnds` |

The runs of `Server` turn deadlock checking off: a server without requests waits. In the
other runs every state has a successor, and the end is an explicit step.

### Disagreements found

Each of these runs checks one statement of the repository and TLC finds a behaviour
of the code that violates it; the quotations are in `PROJECT.json` under `findings`.

- `session_file_error`: a session whose file does not open "sends error and closes"
  according to the comment in `start`. It returns without either. A read then fails,
  the ERROR goes out, but the posted receive is not cancelled and `pending_jobs` stays
  1 until the client sends something more.
- `get_reorder`: an ACK that is overtaken and arrives while the window is empty is
  accepted and moves the window back; the client ends with a wrong file.
- `put_loss`: one lost first DATA packet ends a put. The session repeats its OACK, and
  `send_file` treats every packet but an ACK as a failure.
- `server_callback`: once the interval is over before `recvmsg` is called, the callback
  never runs again and the main loop uses up the slots.
- `server_shutdown`: a worker may end with a session in its ring.

What the passing runs claim is bounded by these, and by more cases the properties name:

- `FileIsPrefix` and the refinements are checked for a network that keeps the order. A put is
  proved for one that reorders as well, unless the block numbers wrap (below).
- `SentDataFaithful` has `NumberingIsSafe` as its premise: when the window does not divide
  65536, two blocks of one window share a buffer at the wrap, and a
  retransmission sends wrong bytes.
- `ClosingTerminates` is about sessions that close for any reason but a failed read.
- `SemaphoreCountsJobs` is about a server without a statistics callback that receives only
  well-formed requests: otherwise every statistics timeout and every refused request
  loses the slot taken for it.
- `PutNeverHangs` excludes a last block with number 65535.
- `TransferEnds`, `PutEnds` and `ProgramEnds` exclude a client without options, as in a second
  attempt. Its socket has no timeout: a get waits for ever when the request, the last block
  or the server is lost, a put when nobody answers, and if somebody does it divides by zero.
  Of such a get `TransferEnds` still says that the session ends.

### Bounds

`BlockMod` (65536 in the code) is 4 or 8, so that numbers wrap within a file of a few
blocks, and larger than the window, as in the code. `JobMod` (256) is 16,
more than a session can have in the ring. `MaxTimers` bounds the timeout operations
of a session: a packet is received only when there is room for the two it may add.
Five allow a stale fired timer together with a removal, a cancelled timer and a new
one, which is the race that matters. `MaxAge` bounds how late an ACK or a block may
be. `RetryMod` (256) exceeds the retries, as it does in the code for all but 255.
`Reopens` bounds the sessions that repeated requests start: one is enough to truncate the
file. `setup.requests`, `setup.events` and `PendMod` bound `Server`. `ChanCap = 2` allows a
window and an ACK in flight each way. `ClientProgram` needs no bound but its finite sets of
arguments.

### Fairness

Weak fairness of the worker's handlers, of reads and of timers (`RingFairness`, also in
`FairAdaptiveSpec`), of the clients' loops and their receive timeouts (`GetFairness`,
`PutFairness`), of the threads (`ServerFairness`) and of the phases of the client program
(`ProgramFairness`). All of them are threads that have something to do, or kernel
operations that complete. A client waiting in `recvfrom` has something to do when a packet is
there, or when time is up on a socket with a timeout; `ClientTimesOut` is never enabled for one
without, so that its fairness gives it nothing. Nothing is assumed of the network or of the other side: an
answer may never come. `DataAvailable` has a fairness condition of its own because the
kernel ends a read however often other events occur.

## Proofs

Each theorem holds for every value of the constants that satisfies the named assumptions of
the modules; the runs show the same properties on an instance. The proofs of a module's
invariant all have the same form: an initial-state lemma, one lemma per action or per kind
of action, and a theorem that combines them.

### The session goes on and ends (`ServerSessionProofs`, `SessionJobProofs`)

`TypeCorrect` (`TypeOK`), `ClosingIsSafe` (`ClosedMeansQuiet`: the slot of a closed session
can be reused), `RetransmissionEnds` (`NeverHung`) and `WaitingHasTimer` (`WaitingIsTimed`).

None of the last three is inductive. They follow from `SessionInv` (`SessionInvariant`):
`pending_jobs` equals the number of operations in the ring (`JobsMatchRing`); there is at
most one read, and it is there exactly when `is_fetching_data` (`RingShape`); timers stay
within their bound with room for one more when the window is empty; a set
`is_timer_active` of a read session means that something is unacknowledged
(`TimerWindow`), which is what makes a stale timeout harmless; no block is sent before
the options are settled (`OptionsFirst`), otherwise an ACK of block 0 could empty the
window under an armed timer; and a block is fetched only if sending it cannot make a
full window look empty (`FetchRoom`), which needs a window smaller than the number of
block numbers.

The argument has two layers. Each event's body is shown to establish `BodyTyped`,
`BodyRing` and `BodyWindow`, and `EpiloguePreserves` shows once that the tail of
`tftp_session_handle_event` turns these into `SessionInv`. The lemmas on `Plus`, `Minus`,
`Dist` and `is_in_range` carry the modular arithmetic.

`SessionImplementsJob` is the refinement: `SessionSpec` implies `SessionIsJob`. Every call
takes at most its own operation out of the ring; it returns "closed" with an empty ring by
`ClosedMeansQuiet`, and "idle" only with something left: the posted receive
(`WaitingIsTimed`) if the session goes on, a pending job (`JobsMatchRing`) if it closes.
This is what `Server` assumes of a session.

### What a session transfers (`SessionTransferProofs`)

`StepKinds` sorts the steps by what they do to the transfer: nothing, the start, an event
that leaves the buffers to the tail, a read that does not complete a block, a block that is
complete, an ACK, a block received. Every invariant below is proved for these, with one lemma
of its own about the tail.

- `EmptyWindowIsRefilled` (`EmptyWindowProgresses`) and `CleanCloseIsWhole`
  (`CleanCloseIsComplete`) follow from `ReadFacts`: the last packet is the newest block,
  nothing is fetched after it, the file has been read to its end, and only its ACK
  empties the window, which closes the session (`LastPacketSent`, `ClosedCleanly`). That a
  short block is at the end of the file depends on where it was read: for netascii it has to
  be remembered from the encoder to the completion of the nop (`FetchingShort`). ACKs may come
  in any order.
- `StoredIsPrefix` (`WrittenIsPrefix`) follows from `WriteFacts`: an open session has stored
  exactly `blocks * BlockSize` bytes, a closed one the whole file, and `NextBlockTaken`: of
  the blocks a client may have under way only the next one has the expected number, since
  `MaxAge` and the window are smaller than the number of block numbers.
- `WindowIsBounded` (`WindowBound`) and `SentIsTheFile` (`SentDataFaithful`) assume `Fifo`.
  This is needed: an old ACK accepted on an empty window moves the window back over blocks whose
  buffers are gone, which is the finding of `get_reorder`. The invariant is `TransferFacts`:
  at most a window is unacknowledged, and one less while a block is being fetched
  (`WindowFits`); numbers count the blocks (`Numbered`); the file offset is where the blocks sent
  and the part read of the next one end (`OffsetsMatch`); that part is in its buffer
  (`NextBlockHeld`); and the unacknowledged blocks are in theirs (`WindowHeld`). The last one
  is where reuse of buffers could go wrong: `BuffersApart` shows that blocks less than a window
  apart have different buffers, if the window divides the number of block numbers or the
  numbers have not wrapped. The lemmas before it (`NextMod`, `BackMod`, `ModMod`, `ModApart`)
  relate wrapped numbers to the blocks they stand for.
- `KarnsRule` (`NoResentSample`) follows from `MeasuredOnce`: what is being measured was not
  sent twice, and a session that has not started has sent nothing. `AdaptiveImplementsSession`:
  the measurements do not disturb the session, so all these theorems hold of
  `AdaptiveSession`.

### A get (`GetTransferProofs`)

The theorems hold under `InOrder`:

- the network keeps the order of the packets that it does not lose (`~Reorder`); it may
  still lose and duplicate them. With reordering the properties are false, as `get_reorder`
  shows.
- the window divides the number of block numbers, or the file ends before the numbers wrap.
  In the code this is a window that is a power of two, or a file of at most 65535 blocks. It
  is the premise `NumberingIsSafe` of `SentDataFaithful`, false where the code really
  confuses two buffers.
- `Fifo`, and `1 <= MaxAge` with no window above `MaxAge`. These choose the model of the
  clients in `ServerSession` of which the get is shown to be an instance; no step of
  `GetTransfer` depends on them. Together with `MaxAge + 1 < BlockMod` they exclude a window
  of 65535.

The invariant `GetInv` says what is under way. Towards the client, packets of the blocks
sent (`DataUnderWay`), none of them a window or more behind one that arrives before it or
behind what the client has accepted (`InWindow`); so the wrapped number the client expects
names one block (`BlockIsNext`). Towards the session, ACKs of blocks between what it takes
for acknowledged and what the client has accepted (`AcksUnderWay`) that never fall back
(`AcksRise`); so the wrapped number of an ACK names one block as well, and the window moves
forward (`AckIsKnown`). Besides, `ClientFacts`: an open client has stored exactly the blocks
it counts, a successful one all of them, and what it would send again is its request or the
ACK of its last block; and `SessionFacts`, which are the invariants of the two sections
above. Each step is shown to keep it by what it does to a channel: `ChannelGrows` and
`ChannelShrinks`, then `WindowSent`, `WindowTaken` and `WindowThinned`, `AckSent`,
`OldestAckTaken` and `AcksThinned`.

- `SessionOfAGet`: `GetSpec` implies `SessionSpec`. Nothing reaches the session that
  `ClientPackets` leaves out, so what is proved of every session holds of this one, and the
  model of the clients that the runs of `ServerSession` use is as wide as the client of this
  repository needs.
- `GetTypesHold`, `ClientFileIsPrefix` (`FileIsPrefix`), `ClientSuccessIsComplete`
  (`SuccessIsComplete`), `SessionNeverAhead` (`NeverAhead`), `CleanCloseDelivers`
  (`CleanCloseMeansDelivered`), `SuspicionIsUntouched` (`UnsupportedMeansUntouched`). The
  second and the third would fail if a block of an earlier round of numbers could be taken
  for the expected one. The fifth adds to `ClosedCleanly` that the ACK which closed the session
  was sent for the last block and for no earlier one of its number.
- `GetImplementsTransfer` (`GetIsReliable`). `SessionProgress` and `ClientProgress` say what
  one step shows of the transfer: an ACK moves `confirmed` up to what the client has stored,
  and closes the session only if it is the last; a turn of the client stores the next block
  or, on its way to fail, a part of it. `CanFetch` is needed for the first: an ACK does not
  end the session with an error, because a session without a buffer or a file to fetch from
  is never open.

### A put (`PutTransferProofs`)

The invariant has two layers. `SidesInv` (`SidesInvariant`) is what each side knows of itself,
and holds on every network: `SessionInv`; `PutReads`, that the client has read `p_blocks`
blocks and holds the last of them in its buffer; `PutWaits`, that a client which sends waits
for the ACK of exactly that block. `PutTypesHold` (`PutTypeOK`) and `ResendingEnds`
(`PutNeverHangs`) follow from it, with no assumption about the network, also where packets
overtake each other and numbers wrap. `PutWaits` is false for a file whose last block has the
greatest number, and is stated with that exception, which is where the loop of `send_file`
does not end.

What the client may conclude about the file of the server rests on what is under way
(`PutInv`). The session is between what is acknowledged and what is read, and these are at
most one block apart (`OneBlockAhead`, `AckedKnown`); it has stored exactly the blocks it
counts (`PutStores`), and they are in the file unless another session truncated it (`DiskInv`);
under way to the client are ACKs of no block older than the last one acknowledged, and to the
session blocks not older than the last one stored, both in order (`UnderWay`). So the number of
a packet names one block (`SameNumber`, `AcksApart`, `BlocksApart`): the block that the session
accepts is the next (`StoredIsNext`), and the ACK that the client accepts is that of the block
it sent last (`AckIsOfBlock`). If packets may overtake each other, old ones of any age may
arrive (`Oldest`), and the same conclusions hold as long as no number occurs twice. A get has
no such theorem, since its window can be empty and accept an old ACK.

The lemmas on `UnderWay` are stated once for both directions: `SentUnderWay`, `TakenUnderWay`,
`RemainsUnderWay`. The steps are reduced to few kinds before the invariant is proved: the
client stays, starts or advances (`ClientTurn`, `TurnProgresses`); the session starts
(`StartOfPut`), handles a completion without a packet (`RingOfPut`) or a block (`DataOfPut`),
or rests (`SessionRests`).

- `DiskPrefixHolds` (`DiskIsPrefix`), `SuccessStored` (`PutSuccessIsStored`) and
  `PutImplementsTransfer` (`PutIsReliable`) assume `InSequence`, that packets stay in order or
  every file ends before the numbers wrap, and `LastNumbersFit`, that no last block has the
  greatest number. `ServerProgress` and `ClientProgress` are what a step shows of the
  transfer: a block stored, by a session that has not failed; or an ACK that moves
  `confirmed` to what the session has stored.

### The server's threads (`ServerProofs`)

`SlotIsFreeAlways`, `SearchSucceedsAlways`, `NoOverbookingAlways`,
`SemaphoreCountsJobsAlways`, `ServerTypesAlways`, for any number of workers, slots, requests
and operations. The invariant `ServerInv` adds to the types and to the two properties of the
semaphores: a slot that the ring or the worker refers to is active (`UsedIsActive`), and the
slot in the hands of the main thread is inactive until just before its session starts, and
then not yet in the ring (`HeldIsFresh`). `SearchSucceeds` needs the count: a thread behind
`sem_wait` has taken one of as many permits as there are free slots, so the set of free
slots is not empty, and `MinIsElement` gives the slot the search returns. The lemmas on the
cardinality of `FreeSlots` carry that count from step to step. Nothing is assumed of the
interleaving, nor of `pending_requests`, whose lost updates the model includes. Assumption:
`ServerAssumption`.

### The negotiation and the command line client (`OptionsProofs`, `ClientProgramProofs`)

`OackAgrees`: whatever the command line asks for and whatever the server supports, after its
OACK both ends work with the same block size and, in a get or a list, with the same window
and kind of timeout. It is proved option by option, from what `tftp_parse_options` accepts
to what each side takes over, over the real ranges of the numbers.

`ProgramInvAlways` and from it `TermsAgreeAlways`, `ExitIsHonestAlways`, `NoDebrisAlways`,
`RetryRepeatsNothingAlways`, `ProgramTypesAlways`, for every set of command lines and
servers and every size of the file. `ProgramInv` says what was asked for before the request
goes out (`RequestIsAsGiven`), that a retry, which has no options to suspect, is the last
attempt (`RetryIsLast`), that only the transfer delivers (`DeliveredInTransfer`), where the
output file is at each phase (`OutputFollowsCall`) and what the exit status rests on
(`OutcomeIsKnown`). Assumption: `ProgramAssumption`.

### Assumptions

`BlockModAssumption`, `PacketAssumption`, `SessionAssumption`, `ClientAssumption`,
`NetworkAssumption`, `StrangersAssumption`, `PutAssumption`, `PutNetworkAssumption`,
`ServerAssumption`, `ProgramAssumption`; and the premises `InOrder` of the theorems about a get
and `InSequence` and `LastNumbersFit` of three about a put, which the runs `get_safety` and
`put` satisfy. `SessionAssumption` keeps `MaxTimers + 4 < JobMod`: that `pending_jobs` does not wrap is
proved for sessions that never have more than `MaxTimers` timeout operations in the ring.
The code has no such limit of its own. It also keeps `MaxAge +
1 < BlockMod`: a packet that is late by a whole round of the block numbers cannot be told
from a new one.

### Only model-checked

Every invariant and every refinement that a run checks is proved as well. What stays with TLC:

- All liveness (`ClosingTerminates`, `SessionTerminates`, `TransferEnds`, `PutEnds`,
  `KeepsListening`, `ProgramEnds`), which needs fairness and is out of the prover's reach.

## Plan

Done: the session, both clients, both compositions, the server, the negotiation, the client
program, and the proofs about all of them. Left, in this order:

1. Netascii conversion and the size it announces as functions, checked against a
   reference definition.
2. Servers other than this one that acknowledge only some options.

## Not modelled

The listener, statistics, logger, server command line, packet-loss simulation and benchmark
have no state whose order of change matters. The estimate of the adaptive timeout is
floating point. The bytes of a packet and of a directory listing are below the level of the
models. The submission queue of a ring, which two threads fill without a lock, is below it
too. What happens to descriptor 0 when an unservable session reads, writes or closes it is
outside them.
