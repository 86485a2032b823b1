---------------------------- MODULE ServerSession ---------------------------
(***************************************************************************)
(* One transfer session of the TFTP server: the state machine that         *)
(* tftp_session_handle_event runs, one completion of the io_uring ring at  *)
(* a time.  Each action is one call of that function: the body of the      *)
(* event's case, then the tail that starts the next read of the file and   *)
(* closes the session once nothing is pending.                             *)
(*                                                                         *)
(* The ring is external: it is described by how many operations of each    *)
(* kind the session has in flight.  The kernel may fire a timer at any     *)
(* time; it executes a timeout removal when it is submitted.               *)
(*                                                                         *)
(* A byte of the file is represented by its position 1 .. FileLen, so that *)
(* a packet shows which bytes it carries; 0 is a byte never written.  In   *)
(* netascii mode the positions are those of the encoded stream.            *)
(***************************************************************************)
EXTENDS Packets, FiniteSets

CONSTANTS
  JobMod,      \* modulus of the uint8_t counter pending_jobs (256)
  Retries,     \* retransmissions before the session gives up
  Requests,    \* the requests a session may be started with
  MaxTimers,   \* bound on the timeout operations the ring holds for the session
  MaxAge,      \* how many blocks back the packets still in the network reach
  Fifo,        \* TRUE: ACKs arrive in the order in which they were sent
  IOFaults,    \* TRUE: reads of the file may fail
  Crashes      \* TRUE: other system calls may fail, which ends the server

ServerRequest == [valid: BOOLEAN, type: {"read", "write"},
                  mode: {"octet", "netascii", "invalid"},
                  file: BOOLEAN, seekable: BOOLEAN,
                  options: BOOLEAN, window: 1 .. BlockMod - 1]

ASSUME SessionAssumption ==
  /\ JobMod \in Nat
  /\ Retries \in Nat
  /\ MaxTimers \in Nat /\ MaxTimers >= 3 /\ MaxTimers + 4 < JobMod
  /\ MaxAge \in Nat /\ MaxAge + 1 < BlockMod
  /\ Requests \subseteq ServerRequest
  /\ Fifo \in BOOLEAN /\ IOFaults \in BOOLEAN /\ Crashes \in BOOLEAN

VARIABLES
  request,                   \* request_args: what the client asked for
  status,                    \* what the last call returned; "new" before EVENT_START,
                             \* "hung" when the call never returns
  fd,                        \* file_descriptor: "zero" before the file is opened,
                             \* "none" for -1
  should_close, options_acknowledged, is_timer_active, is_fetching_data,
  window_begin, next_data_packet_to_send, expected_sequence_number,
  last_packet, last_block_size, incomplete_read,
  current_retransmission, pending_jobs,
  data_packets,              \* the window_size packet buffers
  file_offset,               \* how much of the file has been read
  written,                   \* what has been written to the file
  error_occurred,            \* stats.error.error_occurred
  sent,                      \* packets the last call sent to the client, in order
  blocks                     \* DATA blocks sent or accepted so far, not wrapped

\* The ring, by the operations of this session it holds.
VARIABLES
  timers_armed, timers_fired, timers_canceled, timeout_removes,
  recv,                      \* the recvmsg: "none", "posted" or "canceled"
  recv_removes,
  reads                      \* reads of the file (or nops of the netascii encoder)

controlVars == <<status, should_close, options_acknowledged, is_timer_active,
                 current_retransmission, error_occurred>>
windowVars == <<window_begin, next_data_packet_to_send, last_packet, blocks>>
fetchVars == <<is_fetching_data, last_block_size, incomplete_read, data_packets,
               file_offset, reads>>
writeVars == <<expected_sequence_number, written>>
timerVars == <<timers_armed, timers_fired, timers_canceled, timeout_removes>>
recvVars == <<recv, recv_removes>>
sessionVars == <<request, fd, pending_jobs, sent, controlVars, windowVars,
                 fetchVars, writeVars, timerVars, recvVars>>

-----------------------------------------------------------------------------
(* Derived from the request. *)

\* options.valid_options_required: parse_options is reached only with the file open.
valid_options_required == fd = "file" /\ request.options
window_size == IF fd = "file" /\ request.options THEN request.window ELSE 1

OptionsPending == valid_options_required /\ ~options_acknowledged

SlotOf(n) == Pred(n) % window_size

\* Mutant: the last packet is taken for a full one.
data_packet_full(n) ==
  LET slot == data_packets[SlotOf(n)]
  IN  Packet("DATA", slot.block, [i \in 1 .. BlockSize |-> slot.data[i]])

\* DATA packet n as get_data_packet_info finds it: the bytes of its slot, full
\* size unless n is the last packet.
data_packet_info(n) ==
  LET slot == data_packets[SlotOf(n)]
      size == IF n = last_packet THEN last_block_size ELSE BlockSize
  IN  Packet("DATA", slot.block, [i \in 1 .. size |-> slot.data[i]])

b2n(b) == IF b THEN 1 ELSE 0

\* Operations of the session that the ring still holds.
InFlight == timers_armed + timers_fired + timers_canceled + timeout_removes
            + b2n(recv # "none") + recv_removes + reads

\* pending_jobs is a uint8_t.
WrapJobs(n) == IF n < 0 THEN n + JobMod ELSE IF n >= JobMod THEN n - JobMod ELSE n
JobsPlus(k) == WrapJobs(pending_jobs + k)

-----------------------------------------------------------------------------
EmptySlot == [block |-> 0, data |-> [i \in 1 .. BlockSize |-> 0]]

\* tftp_session_init, for a request the main thread has stored in the job.
SessionInit ==
  /\ request \in Requests
  /\ status = "new" /\ fd = "zero"
  /\ should_close = FALSE /\ options_acknowledged = FALSE
  /\ is_timer_active = FALSE /\ is_fetching_data = FALSE
  /\ window_begin = 1 /\ next_data_packet_to_send = 1
  /\ expected_sequence_number = 1
  /\ last_packet = -1 /\ last_block_size = 0 /\ incomplete_read = FALSE
  /\ current_retransmission = 0 /\ pending_jobs = 0
  /\ data_packets = [s \in 0 .. request.window - 1 |-> EmptySlot]
  /\ file_offset = 0 /\ written = <<>> /\ error_occurred = FALSE
  /\ sent = <<>> /\ blocks = 0
  /\ timers_armed = 0 /\ timers_fired = 0 /\ timers_canceled = 0
  /\ timeout_removes = 0
  /\ recv = "none" /\ recv_removes = 0 /\ reads = 0

-----------------------------------------------------------------------------
(* The tail of tftp_session_handle_event.  The body of the event's case has *)
(* determined the primed control, window and timer variables; jobs is the  *)
(* pending_jobs it leaves, and f the values of fetchVars.                   *)

FetchState == [fetching |-> is_fetching_data, size |-> last_block_size,
               incomplete |-> incomplete_read, slots |-> data_packets,
               offset |-> file_offset, reads |-> reads]

\* Mutant: a block more than there are buffers.
ShouldFetchWide(f) ==
  /\ request.type = "read"
  /\ ~f.fetching /\ ~should_close'
  /\ ~(fd' = "file" /\ request.options) \/ options_acknowledged'
  /\ last_packet' = -1
  /\ is_in_range(next_data_packet_to_send', window_begin',
                 Plus(window_begin', window_size'))

\* Mutant: nothing is fetched for an empty window once a block was sent.
ShouldFetchStalls(f) ==
  /\ request.type = "read"
  /\ ~f.fetching /\ ~should_close'
  /\ ~(fd' = "file" /\ request.options) \/ options_acknowledged'
  /\ last_packet' = -1
  /\ blocks' > 0 => window_begin' # next_data_packet_to_send'
  /\ is_in_range(next_data_packet_to_send', window_begin',
                 Plus(window_begin', window_size' - 1))

ShouldFetch(f) ==
  /\ request.type = "read"
  /\ ~f.fetching /\ ~should_close'
  /\ ~(fd' = "file" /\ request.options) \/ options_acknowledged'
  /\ last_packet' = -1
  /\ is_in_range(next_data_packet_to_send', window_begin',
                 Plus(window_begin', window_size' - 1))

\* Submits a read of what is missing of the next packet.
fetch_data_octet_async(f) ==
  /\ request.mode = "octet"
  /\ last_block_size' = (IF f.incomplete THEN f.size ELSE 0)
  /\ incomplete_read' = FALSE
  /\ data_packets' = f.slots
  /\ file_offset' = f.offset

\* The netascii encoder fills the next packet synchronously and submits a nop.
fetch_data_netascii_async(f) ==
  LET n == next_data_packet_to_send'
      size == Least(BlockSize, FileLen - f.offset)
      fill == [i \in 1 .. BlockSize |->
                 IF i <= size THEN f.offset + i
                              ELSE f.slots[Pred(n) % window_size'].data[i]]
  IN  /\ request.mode = "netascii" /\ fd' = "file"
      /\ data_packets' = [f.slots EXCEPT ![Pred(n) % window_size'] =
                                           [block |-> n, data |-> fill]]
      /\ last_block_size' = size
      /\ file_offset' = f.offset + size
      /\ incomplete_read' = f.incomplete

\* Reading from no descriptor, or into no buffer, ends the server.
FetchFails(f) ==
  /\ ShouldFetch(f)
  /\ request.mode # "octet" /\ ~(request.mode = "netascii" /\ fd' = "file")
  /\ status' = "error"

\* Mutant: closed without waiting for the pending jobs.
NoFetchEager(jobs, f) ==
  /\ ~ShouldFetch(f)
  /\ status' = IF should_close' THEN "closed" ELSE "idle"

\* Mutant: the slot is kept though nothing is left in the ring.
NoFetchLate(jobs, f) ==
  /\ ~ShouldFetch(f)
  /\ status' = "idle"

NoFetch(jobs, f) ==
  /\ ~ShouldFetch(f)
  /\ status' = IF should_close' /\ jobs = 0 THEN "closed" ELSE "idle"

Epilogue(jobs, f) ==
  \/ /\ ShouldFetch(f)
     /\ fetch_data_octet_async(f) \/ fetch_data_netascii_async(f)
     /\ is_fetching_data' = TRUE
     /\ reads' = f.reads + 1
     /\ pending_jobs' = WrapJobs(jobs + 1)
     /\ status' = "idle"
  \/ /\ FetchFails(f) \/ NoFetch(jobs, f)
     /\ is_fetching_data' = (f.fetching \/ ShouldFetch(f))
     /\ last_block_size' = f.size
     /\ incomplete_read' = f.incomplete
     /\ data_packets' = f.slots
     /\ file_offset' = f.offset
     /\ reads' = f.reads
     /\ pending_jobs' = jobs

-----------------------------------------------------------------------------
(* EVENT_START *)

\* An RRQ, or a WRQ where writing is enabled, with well-formed strings.
is_request_valid == request.valid

\* parse_mode and session_file_init succeed.
FileOpens == is_request_valid /\ request.mode # "invalid" /\ request.file

\* parse_options found an option it recognises.
SendsOack == FileOpens /\ request.options

\* A request that cannot be served is noted in error_occurred and nothing else.
start ==
  /\ should_close' = ~is_request_valid
  /\ fd' = CASE FileOpens -> "file"
             [] is_request_valid /\ request.mode # "invalid" /\ ~request.file -> "none"
             [] OTHER -> "zero"
  /\ error_occurred' = (is_request_valid /\ ~FileOpens)

\* start, then the OACK or the ACK of block 0, and the first recvmsg.
Start ==
  /\ status = "new"
  /\ start
  /\ sent' = CASE SendsOack -> <<Oack>>
               [] is_request_valid /\ ~SendsOack /\ request.type = "write" -> <<Ack(0)>>
               [] OTHER -> <<>>
  /\ timers_armed' = b2n(SendsOack)
  /\ is_timer_active' = SendsOack
  /\ recv' = IF is_request_valid THEN "posted" ELSE "none"
  /\ UNCHANGED <<request, options_acknowledged, current_retransmission,
                 windowVars, writeVars, timers_fired, timers_canceled, timeout_removes,
                 recv_removes>>
  /\ Epilogue(JobsPlus(b2n(SendsOack) + b2n(is_request_valid)), FetchState)

-----------------------------------------------------------------------------
(* EVENT_TIMEOUT and EVENT_TIMEOUT_REMOVED *)

\* Mutant: one retransmission too many.
RetriesLeftOffByOne == current_retransmission <= Retries

RetriesLeft == current_retransmission < Retries

\* Mutant: retransmissions are not counted.
NextRetryForgotten == current_retransmission

NextRetry == current_retransmission + 1

\* Mutant: the receive is left in the ring.
GiveUpListening ==
  /\ ~RetriesLeft
  /\ should_close' = TRUE
  /\ error_occurred' = TRUE
  /\ sent' = <<Error>>
  /\ UNCHANGED <<current_retransmission, timers_armed, is_timer_active, recvVars>>

\* Retries are exhausted: cancel the receive, tell the client, close.
GiveUp ==
  /\ ~RetriesLeft
  /\ should_close' = TRUE
  /\ error_occurred' = TRUE
  /\ recv' = IF recv = "posted" THEN "canceled" ELSE recv
  /\ recv_removes' = recv_removes + 1
  /\ sent' = <<Error>>
  /\ UNCHANGED <<current_retransmission, timers_armed, is_timer_active>>

\* The packets [window_begin, next_data_packet_to_send - 1].  The loop that sends
\* them never ends when the window is empty: see NeverHung.
Window == [i \in 1 .. Dist(window_begin, next_data_packet_to_send)
             |-> data_packet_info(Plus(window_begin, i - 1))]

Retransmit ==
  /\ RetriesLeft
  /\ current_retransmission' = NextRetry
  /\ timers_armed' = timers_armed + 1
  /\ is_timer_active' = TRUE
  /\ sent' = CASE OptionsPending -> <<Oack>>
               [] ~OptionsPending /\ request.type = "write" ->
                    <<Ack(Pred(expected_sequence_number))>>
               [] OTHER -> Window
  /\ UNCHANGED <<should_close, error_occurred, recvVars>>

EmptyRetransmission ==
  /\ RetriesLeft
  /\ ~OptionsPending /\ request.type = "read"
  /\ window_begin = next_data_packet_to_send

\* A timer that ran out while it still matters: on_timeout.  One job ends and one
\* is submitted.  With nothing to retransmit the for loop does not end.
TimeoutHandled ==
  /\ status = "idle" /\ timers_fired > 0
  /\ ~should_close /\ is_timer_active
  /\ GiveUp \/ Retransmit
  /\ timers_fired' = timers_fired - 1
  /\ UNCHANGED <<request, fd, options_acknowledged, windowVars, writeVars,
                 timers_canceled, timeout_removes>>
  /\ IF EmptyRetransmission
     THEN status' = "hung" /\ UNCHANGED <<fetchVars, pending_jobs>>
     ELSE Epilogue(JobsPlus(0), FetchState)

\* What an event that only gives its job back leaves alone.
OnlyEpilogue ==
  /\ sent' = <<>>
  /\ UNCHANGED <<request, fd, should_close, options_acknowledged,
                 is_timer_active, current_retransmission, error_occurred,
                 windowVars, writeVars>>
  /\ Epilogue(JobsPlus(-1), FetchState)

\* A timer that ran out when the session closes or no longer waits for it.
TimeoutIgnored ==
  /\ status = "idle" /\ timers_fired > 0
  /\ should_close \/ ~is_timer_active
  /\ timers_fired' = timers_fired - 1
  /\ UNCHANGED <<timers_armed, timers_canceled, timeout_removes, recvVars>>
  /\ OnlyEpilogue

\* The completion of a timer that was removed (ECANCELED).
TimeoutCanceled ==
  /\ status = "idle" /\ timers_canceled > 0
  /\ timers_canceled' = timers_canceled - 1
  /\ UNCHANGED <<timers_armed, timers_fired, timeout_removes, recvVars>>
  /\ OnlyEpilogue

TimeoutRemoved ==
  /\ status = "idle" /\ timeout_removes > 0
  /\ timeout_removes' = timeout_removes - 1
  /\ UNCHANGED <<timers_armed, timers_fired, timers_canceled, recvVars>>
  /\ OnlyEpilogue

-----------------------------------------------------------------------------
(* EVENT_PACKET_RECEIVED and EVENT_PACKET_RECEIVED_REMOVED *)

\* The packet changes nothing: wait for the next one.
Ignore ==
  /\ recv' = "posted"
  /\ sent' = <<>>
  /\ UNCHANGED <<should_close, options_acknowledged, is_timer_active,
                 current_retransmission, error_occurred, windowVars, writeVars,
                 timerVars>>
  /\ Epilogue(JobsPlus(0), FetchState)

\* An unknown peer is sent an ERROR of its own; the session is not affected.
UnexpectedPeer(p) ==
  /\ p.op = "STRANGER"
  /\ recv' = "posted"
  /\ sent' = <<>>
  /\ error_occurred' = FALSE
  /\ UNCHANGED <<should_close, options_acknowledged, is_timer_active,
                 current_retransmission, windowVars, writeVars, timerVars>>
  /\ Epilogue(JobsPlus(0), FetchState)

\* The client reported an error.
report_client_error(p) == p.op = "ERROR" /\ sent' = <<>>

\* A packet that has no place in this session is answered with an error.
IllegalOperation(p) ==
  /\ \/ p.op = "OTHER"
     \/ p.op = "DATA" /\ request.type = "read"
     \/ p.op = "ACK" /\ request.type = "write"
  /\ sent' = <<Error>>

\* Either ends the session.
Abort(p) ==
  /\ report_client_error(p) \/ IllegalOperation(p)
  /\ should_close' = TRUE
  /\ error_occurred' = TRUE
  /\ recv' = "none"
  /\ UNCHANGED <<options_acknowledged, is_timer_active, current_retransmission,
                 windowVars, writeVars, timerVars>>
  /\ Epilogue(JobsPlus(-1), FetchState)

AckExpected(n) ==
  \/ OptionsPending /\ n = 0
  \/ is_in_range(n, window_begin, Pred(next_data_packet_to_send))

\* Mutant: a block that was stored before is taken for the next one.
DataExpectedAgain(n) ==
  \/ OptionsPending /\ n = 1
  \/ n = expected_sequence_number \/ n = Pred(expected_sequence_number)

DataExpected(n) ==
  \/ OptionsPending /\ n = 1
  \/ n = expected_sequence_number

\* Mutants: the timer is always restarted, or never.
RearmAlways(begin) == TRUE
RearmNever(begin) == FALSE

\* The timer restarts if blocks remain unacknowledged.
ShouldRearm(begin) == begin # next_data_packet_to_send

\* Mutant: any ACK ends the session once the last block was sent.
AnyAckIsLast(n) == last_packet # -1

IsLastAck(n) == last_packet # -1 /\ n = last_packet

\* An ACK in the window: slide it, remove the timer, restart it if blocks remain.
AckReceived(p) ==
  LET n == p.block
      removed == b2n(timers_armed > 0)
      rearm == ShouldRearm(window_begin')
  IN  /\ p.op = "ACK" /\ request.type = "read" /\ AckExpected(n)
      /\ options_acknowledged' = (options_acknowledged \/ (OptionsPending /\ n = 0))
      /\ window_begin' = Succ(n)
      /\ is_timer_active' = rearm
      /\ timers_armed' = timers_armed - removed + b2n(rearm)
      /\ timers_canceled' = timers_canceled + removed
      /\ timeout_removes' = timeout_removes + 1
      /\ current_retransmission' = 0
      /\ should_close' = IsLastAck(n)
      /\ recv' = IF should_close' THEN "none" ELSE "posted"
      /\ sent' = <<>>
      /\ UNCHANGED <<next_data_packet_to_send, last_packet, blocks, writeVars,
                     timers_fired, error_occurred>>
      /\ Epilogue(JobsPlus(b2n(rearm) + b2n(~should_close')), FetchState)

\* The expected block of a write: store it, acknowledge it.  With a bad mode the
\* descriptor is still 0 and the block goes to whatever that is.
DataReceived(p) ==
  LET n == p.block
  IN  /\ p.op = "DATA" /\ request.type = "write" /\ DataExpected(n)
      /\ fd # "none"
      /\ options_acknowledged' = (options_acknowledged \/ (OptionsPending /\ n = 1))
      /\ written' = IF fd = "file" THEN written \o p.data ELSE written
      /\ sent' = <<Ack(n)>>
      /\ expected_sequence_number' = Succ(expected_sequence_number)
      /\ blocks' = blocks + 1
      /\ current_retransmission' = 0
      /\ should_close' = (Len(p.data) < BlockSize)
      /\ recv' = IF should_close' THEN "none" ELSE "posted"
      /\ UNCHANGED <<window_begin, next_data_packet_to_send, last_packet,
                     timerVars, is_timer_active, error_occurred>>
      /\ Epilogue(JobsPlus(-1 + b2n(~should_close')), FetchState)

\* write to descriptor -1, which the failed open left, ends the server.
WriteFails(p) ==
  /\ p.op = "DATA" /\ request.type = "write" /\ DataExpected(p.block)
  /\ fd = "none"
  /\ status' = "error"
  /\ recv' = "none"
  /\ sent' = <<>>
  /\ error_occurred' = TRUE
  /\ UNCHANGED <<should_close, options_acknowledged, is_timer_active,
                 current_retransmission, windowVars, fetchVars, writeVars,
                 timerVars, pending_jobs>>

on_packet_received(p) ==
  \/ /\ \/ p.op = "SHORT"
        \/ p.op = "ACK" /\ request.type = "read" /\ ~AckExpected(p.block)
        \/ p.op = "DATA" /\ request.type = "write" /\ ~DataExpected(p.block)
     /\ Ignore
  \/ UnexpectedPeer(p)
  \/ Abort(p)
  \/ AckReceived(p)
  \/ DataReceived(p)
  \/ WriteFails(p)

\* The recvmsg completes with packet p.  Its completion was queued after those of
\* the removals the previous packet caused, which are therefore handled already.
PacketReceived(p) ==
  /\ status = "idle" /\ recv = "posted" /\ ~should_close
  /\ timers_canceled = 0 /\ timeout_removes = 0
  /\ timers_armed + timers_fired + 2 <= MaxTimers
  /\ UNCHANGED <<request, fd, recv_removes>>
  /\ on_packet_received(p)

\* The recvmsg completes, with a packet or canceled, when the session closes.
RecvDropped ==
  /\ status = "idle" /\ should_close
  /\ recv' = "none"
  /\ UNCHANGED <<timerVars, recv_removes>>
  /\ OnlyEpilogue

PacketDropped == recv = "posted" /\ RecvDropped
RecvCanceled == recv = "canceled" /\ RecvDropped

RecvRemoved ==
  /\ status = "idle" /\ recv_removes > 0
  /\ recv_removes' = recv_removes - 1
  /\ UNCHANGED <<timerVars, recv>>
  /\ OnlyEpilogue

-----------------------------------------------------------------------------
(* EVENT_DATA_AVAILABLE *)

\* What a read of the missing part of a block may return: a regular file gives
\* all there is, a pipe or a terminal any part of it.
ReadSizes ==
  LET most == Least(BlockSize - last_block_size, FileLen - file_offset)
  IN  IF most = 0 \/ request.seekable THEN {most} ELSE 1 .. most

\* n is what the last read returned and off the offset after it.
end_of_file(n, off) == IF request.seekable THEN off = FileLen ELSE n = 0

\* The packet buffers after n more bytes have been read into the next packet.
ReadInto(n) ==
  [data_packets EXCEPT ![SlotOf(next_data_packet_to_send)].data =
     [i \in 1 .. BlockSize |->
        IF i \in last_block_size + 1 .. last_block_size + n
        THEN file_offset + i - last_block_size ELSE @[i]]]

\* fetchVars once the read in flight has completed.
Fetched(size, incomplete, slots, offset) ==
  [fetching |-> FALSE, size |-> size, incomplete |-> incomplete, slots |-> slots,
   offset |-> offset, reads |-> reads - 1]

ReadFailed ==
  /\ request.mode = "octet"
  /\ fd # "file" \/ IOFaults
  /\ should_close' = TRUE
  /\ error_occurred' = TRUE
  /\ sent' = <<Error>>
  /\ UNCHANGED <<windowVars, timers_armed, is_timer_active>>
  /\ Epilogue(JobsPlus(-1), Fetched(last_block_size, incomplete_read, data_packets, file_offset))

\* create_data_packets: the block is not complete, read on.
ReadIncomplete(n) ==
  /\ request.mode = "octet" /\ fd = "file"
  /\ n < BlockSize /\ ~end_of_file(n, file_offset + n)
  /\ sent' = <<>>
  /\ UNCHANGED <<windowVars, should_close, error_occurred, timers_armed,
                 is_timer_active>>
  /\ Epilogue(JobsPlus(-1), Fetched(last_block_size + n, TRUE, ReadInto(n), file_offset + n))

\* The block in f is complete: send it, start the timer if it is the only one.
SendBlock(f) ==
  LET n == next_data_packet_to_send
      slot == f.slots[SlotOf(n)]
      alone == window_begin = n
  IN  /\ sent' = <<Packet("DATA", slot.block, [i \in 1 .. f.size |-> slot.data[i]])>>
      /\ last_packet' = IF f.size < BlockSize THEN n ELSE last_packet
      /\ timers_armed' = timers_armed + b2n(alone)
      /\ is_timer_active' = (is_timer_active \/ alone)
      /\ next_data_packet_to_send' = Succ(n)
      /\ blocks' = blocks + 1
      /\ UNCHANGED <<window_begin, should_close, error_occurred>>
      /\ Epilogue(JobsPlus(-1 + b2n(alone)), f)

ReadComplete(n) ==
  /\ request.mode = "octet" /\ fd = "file"
  /\ n = BlockSize \/ end_of_file(n, file_offset + n)
  /\ SendBlock(Fetched(last_block_size + n, incomplete_read,
                       [ReadInto(n) EXCEPT ![SlotOf(next_data_packet_to_send)].block =
                                             next_data_packet_to_send],
                       file_offset + n))

NetasciiBlockReady ==
  /\ request.mode # "octet"
  /\ SendBlock(Fetched(last_block_size, incomplete_read, data_packets, file_offset))

DataAvailable ==
  /\ status = "idle" /\ reads > 0
  /\ UNCHANGED <<request, fd, options_acknowledged, current_retransmission,
                 writeVars, timers_fired, timers_canceled, timeout_removes,
                 recvVars>>
  /\ \/ ReadFailed
     \/ NetasciiBlockReady
     \/ \E n \in ReadSizes : ReadIncomplete(n) \/ ReadComplete(n)

-----------------------------------------------------------------------------
(* The kernel and the system calls. *)

TimerFires ==
  /\ status = "idle" /\ timers_armed > 0
  /\ timers_armed' = timers_armed - 1
  /\ timers_fired' = timers_fired + 1
  /\ UNCHANGED <<request, fd, pending_jobs, sent, controlVars, windowVars,
                 fetchVars, writeVars, timers_canceled, timeout_removes, recvVars>>

\* Any handler may find that a system call failed; the server then exits.
SyscallFailure ==
  /\ Crashes
  /\ status = "new" \/ (status = "idle" /\ InFlight > 0)
  /\ status' = "error"
  /\ UNCHANGED <<request, fd, pending_jobs, sent, should_close,
                 options_acknowledged, is_timer_active, current_retransmission,
                 error_occurred, windowVars, fetchVars, writeVars, timerVars,
                 recvVars>>

\* Every completion the ring delivers without the help of a peer.
RingEvent ==
  \/ TimeoutHandled \/ TimeoutIgnored \/ TimeoutCanceled
  \/ TimeoutRemoved \/ RecvCanceled \/ RecvRemoved \/ DataAvailable

Terminal == status \in {"closed", "error", "hung"}

-----------------------------------------------------------------------------
(* The clients.  They acknowledge only what they were sent and send only    *)
(* blocks of the file; what they sent may be lost, duplicated and, unless   *)
(* Fifo, reordered within the last MaxAge blocks.                           *)

\* An ACK is named by its age: how many blocks have been sent since.
AckAges ==
  { age \in 0 .. MaxAge :
      /\ age <= blocks - b2n(~valid_options_required)
      /\ Fifo => age <= Dist(window_begin, next_data_packet_to_send) }

ClientAcks == { Ack(Minus(Pred(next_data_packet_to_send), age)) : age \in AckAges }

\* The DATA packets a client that is at most a window ahead may have under way.
ClientData ==
  { Packet("DATA",
           IF k <= blocks THEN Minus(expected_sequence_number, blocks + 1 - k)
                          ELSE Plus(expected_sequence_number, k - blocks - 1),
           FileBlock(k)) :
      k \in { j \in 1 .. LastBlock : /\ j + MaxAge > blocks
                                     /\ j <= blocks + request.window } }

ClientPackets ==
  (IF request.type = "read" THEN ClientAcks ELSE ClientData)
  \cup { Packet(op, 0, <<>>) : op \in {"ERROR", "OTHER", "SHORT", "STRANGER"} }

PacketArrives == \E p \in ClientPackets : PacketReceived(p)

Done == Terminal /\ UNCHANGED sessionVars

SessionNext == Start \/ RingEvent \/ PacketArrives \/ PacketDropped \/ TimerFires
               \/ SyscallFailure \/ Done

SessionSpec == SessionInit /\ [][SessionNext]_sessionVars

\* The worker keeps waiting for completions, the kernel fires its timers and ends
\* its reads; nothing obliges a peer to send.
RingFairness == WF_sessionVars(Start) /\ WF_sessionVars(RingEvent)
                /\ WF_sessionVars(DataAvailable)
                /\ WF_sessionVars(TimerFires)

FairSessionSpec == SessionSpec /\ RingFairness

-----------------------------------------------------------------------------
(* Properties. *)

Slot == [block: Block, data: [1 .. BlockSize -> 0 .. FileLen]]

\* Every variable of tftp_session keeps its type, the retry counter its limit and
\* the file offset the file.
TypeOK ==
  /\ request \in Requests
  /\ status \in {"new", "idle", "closed", "error", "hung"}
  /\ fd \in {"zero", "file", "none"}
  /\ should_close \in BOOLEAN /\ options_acknowledged \in BOOLEAN
  /\ is_timer_active \in BOOLEAN /\ is_fetching_data \in BOOLEAN
  /\ window_begin \in Block /\ next_data_packet_to_send \in Block
  /\ expected_sequence_number \in Block
  /\ last_packet \in Block \cup {-1}
  /\ last_block_size \in 0 .. BlockSize /\ incomplete_read \in BOOLEAN
  /\ current_retransmission \in 0 .. Retries
  /\ pending_jobs \in 0 .. JobMod - 1
  /\ data_packets \in [0 .. request.window - 1 -> Slot]
  /\ file_offset \in 0 .. FileLen
  /\ error_occurred \in BOOLEAN
  /\ blocks \in Nat
  /\ timers_armed \in Nat /\ timers_fired \in Nat
  /\ timers_canceled \in Nat /\ timeout_removes \in Nat
  /\ recv \in {"none", "posted", "canceled"}
  /\ recv_removes \in Nat /\ reads \in Nat

\* A session is declared closed, so that its slot may be given to another
\* request, only when the ring holds no operation that could still complete into
\* its buffers or be taken for an event of the next session.
ClosedMeansQuiet == status = "closed" => InFlight = 0

\* The loop in on_timeout that resends the window always ends: a timer is handled
\* only while there is something to resend.
NeverHung == status # "hung"

\* While the client owes an acknowledgement the session has a timer that will
\* fire or has fired, and it listens: it cannot wait for ever.
WaitingIsTimed ==
  status = "idle" /\ ~should_close =>
    /\ recv = "posted"
    /\ OptionsPending \/ window_begin # next_data_packet_to_send =>
         is_timer_active /\ timers_armed + timers_fired > 0

\* A session whose client has acknowledged everything sent is reading more of the
\* file, has sent the last block and closes, or failed.
EmptyWindowProgresses ==
  /\ status = "idle" /\ ~should_close /\ request.type = "read"
  /\ ~OptionsPending /\ window_begin = next_data_packet_to_send
  => reads = 1

\* Never more unacknowledged blocks than buffers.
WindowBound == Dist(window_begin, next_data_packet_to_send) <= window_size

\* Buffers are indexed by the wrapped block number: the index is continuous at the
\* wrap only if the window divides the number of block numbers.
NumberingIsSafe == BlockMod % window_size = 0 \/ blocks < BlockMod

\* Every DATA packet carries the bytes of the file that its number stands for, no
\* matter how often its buffer was reused: packet i of a call that sent m packets
\* is block number blocks - m + i of the file.  A window that does not divide the
\* number of block numbers keeps this only until the numbers wrap.
SentDataFaithful ==
  NumberingIsSafe =>
  \A i \in 1 .. Len(sent) :
    sent[i].op = "DATA" =>
      LET k == blocks - Len(sent) + i
      IN  sent[i].block = k % BlockMod /\ sent[i].data = FileBlock(k)

\* What a write session stored is a prefix of the client's file, whatever was
\* duplicated, lost or late; and it is all of it when the session ends well.
WrittenIsPrefix ==
  /\ written = FilePrefix(Len(written))
  /\ status = "closed" /\ request.type = "write" /\ fd = "file" /\ ~error_occurred
       => Len(written) = FileLen

\* A read session that ends without an error has had its last block acknowledged.
CleanCloseIsComplete ==
  status = "closed" /\ request.valid /\ request.type = "read" /\ ~error_occurred =>
    last_packet # -1 /\ window_begin = next_data_packet_to_send
    /\ file_offset = FileLen

\* The inductive invariant behind ClosedMeansQuiet, NeverHung and WaitingIsTimed.
Running == status \in {"new", "idle", "closed"}

\* pending_jobs counts what the ring holds and never wraps.
JobsMatchRing == Running => pending_jobs = InFlight

\* At most one read and one removed receive; the timeout operations stay within
\* their bound, with room for the timer of the next block when none is unacknowledged.
RingShape ==
  Running =>
    /\ reads = b2n(is_fetching_data)
    /\ recv_removes + b2n(~should_close) <= 1
    /\ timers_armed + timers_fired + timers_canceled + timeout_removes
         + b2n(window_begin = next_data_packet_to_send) <= MaxTimers

\* Before EVENT_START nothing is in flight and nothing was sent.
NewIsFresh ==
  status = "new" =>
    /\ fd = "zero" /\ ~should_close /\ ~is_timer_active /\ ~is_fetching_data
    /\ ~options_acknowledged
    /\ window_begin = 1 /\ next_data_packet_to_send = 1
    /\ InFlight = 0

\* A block is fetched only when sending it cannot make a full window look empty.
FetchRoom ==
  Running /\ is_fetching_data =>
    Dist(window_begin, next_data_packet_to_send) + 1 < BlockMod

\* A timer of a read session means that something is unacknowledged.
TimerWindow ==
  status = "idle" /\ is_timer_active /\ request.type = "read" =>
    OptionsPending \/ window_begin # next_data_packet_to_send

\* No block is sent before the options are settled.
OptionsFirst ==
  Running /\ request.type = "read" /\ (status = "new" \/ OptionsPending) =>
    blocks = 0 /\ next_data_packet_to_send = 1 /\ ~is_fetching_data

\* Only read sessions send blocks.
WriteWindow ==
  Running /\ request.type = "write" =>
    window_begin = next_data_packet_to_send /\ ~is_fetching_data

SessionInv ==
  /\ TypeOK /\ JobsMatchRing /\ RingShape /\ NewIsFresh /\ FetchRoom
  /\ TimerWindow /\ OptionsFirst /\ WriteWindow
  /\ ClosedMeansQuiet /\ NeverHung /\ WaitingIsTimed

\* To the worker a session is a job: the call that leaves nothing in the ring, and no
\* other, gives the slot back.  A session left idle without an operation would never
\* run again and keep its slot.
Job == INSTANCE SessionJob WITH
  state <- CASE status = "new" -> "new" [] status = "idle" -> "open"
             [] status = "closed" -> "closed" [] OTHER -> "failed",
  inring <- InFlight

SessionIsJob == Job!Spec

\* A session that decided to close, because of an ACK, a DATA packet, an error of
\* the client or its retries, is closed without waiting for another packet: whatever
\* it left in the ring completes by itself.
ClosingTerminates == should_close ~> Terminal

\* A session that reads, or negotiated options, ends even if the client vanishes.
SessionTerminates ==
  (status = "idle" /\ (request.type = "read" \/ valid_options_required)) ~> Terminal

\* A session whose file could not be opened ends, as the comment in start says.
FileErrorEndsSession == fd = "none" ~> Terminal
=============================================================================
