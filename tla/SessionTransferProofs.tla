------------------------ MODULE SessionTransferProofs -----------------------
(***************************************************************************)
(* What a server session transfers, for every request, window, file and    *)
(* modulus: an empty window is being filled, a session that closes without *)
(* an error has moved the whole file, what it stores is a prefix of the    *)
(* client's file, and what it sends is the file; its adaptive timeout      *)
(* measures nothing that was sent twice.                                   *)
(*                                                                         *)
(* Each invariant is proved of the steps that StepKinds distinguishes;     *)
(* each of them is the body of an event's case followed by the tail of the *)
(* handler, about which every invariant has one lemma of its own.          *)
(***************************************************************************)
EXTENDS AdaptiveSession, ServerSessionProofs, SequenceTheorems

-----------------------------------------------------------------------------
(* The steps of a session, by what they do to the transfer. *)

\* The transfer stays as it is, and so does the session unless a call failed.
Untouched ==
  /\ status' \in {status, "error"}
  /\ UNCHANGED <<request, fd, options_acknowledged, should_close, windowVars,
                 fetchVars, writeVars>>
  /\ error_occurred' = error_occurred \/ error_occurred' = TRUE
  /\ sent' = sent \/ sent' = <<>>

\* A body that moves no block and fails, closes for a reason that was there before, or
\* goes on.
Quiet ==
  /\ status = "idle"
  /\ UNCHANGED <<request, fd, windowVars, writeVars, options_acknowledged>>
  /\ should_close => should_close'
  /\ should_close' /\ ~error_occurred' => should_close /\ ~error_occurred

\* None of the packets sent is a block.
NoBlockSent == \A i \in 1 .. Len(sent') : sent'[i].op # "DATA"

\* An event that leaves the buffers to the tail.
KeepsBuffers ==
  /\ Quiet
  /\ sent' = Window \/ NoBlockSent
  /\ \E jobs \in Jobs : Epilogue(jobs, FetchState)

\* A read that failed or did not fill the block.
ReadsOn ==
  /\ Quiet /\ Reading /\ NoBlockSent
  /\ ReadFailed \/ \E n \in ReadSizes : ReadIncomplete(n)

\* A block is complete.
BlockReady ==
  /\ Reading /\ UNCHANGED writeVars
  /\ NetasciiBlockReady \/ \E n \in ReadSizes : ReadComplete(n)

\* One packet that is not a block.
LEMMA OnePacket ==
  ASSUME NEW p, p.op # "DATA"
  PROVE  \A i \in 1 .. Len(<<p>>) : <<p>>[i].op # "DATA"
  OBVIOUS

\* The packets other than DATA are no blocks.
LEMMA ControlPackets ==
  /\ Oack.op # "DATA" /\ Error.op # "DATA" /\ \A n : Ack(n).op # "DATA"
  BY DEF Oack, Error, Ack, Packet

\* JobsPlus stays within a byte.
LEMMA JobsWrap ==
  ASSUME TypeOK, NEW k \in {-1, 0, 1, 2}
  PROVE  JobsPlus(k) \in Jobs
  BY SessionAssumption DEF TypeOK, JobsPlus, WrapJobs, Jobs

\* The body of OnlyEpilogue is quiet.
LEMMA OnlyEpilogueKeeps ==
  ASSUME SessionInv, status = "idle", OnlyEpilogue
  PROVE  KeepsBuffers
  <1>1. Quiet
    BY DEF OnlyEpilogue, Quiet
  <1>2. NoBlockSent
    <2>1. sent' = <<>>
      BY DEF OnlyEpilogue
    <2> QED BY <2>1 DEF NoBlockSent
  <1>3. \E jobs \in Jobs : Epilogue(jobs, FetchState)
    BY JobsWrap DEF OnlyEpilogue, SessionInv
  <1> QED BY <1>1, <1>2, <1>3 DEF KeepsBuffers

\* The timer's event either gives up or resends, and never hangs.
LEMMA TimeoutKeeps ==
  ASSUME SessionInv, SessionInv', TimeoutHandled
  PROVE  KeepsBuffers
  <1>0. status = "idle" /\ ~should_close
    BY DEF TimeoutHandled
  <1>1. UNCHANGED <<request, fd, windowVars, writeVars, options_acknowledged>>
    BY DEF TimeoutHandled
  <1>2. ~EmptyRetransmission
    BY Zenon DEF TimeoutHandled, SessionInv, NeverHung
  <1>3. Epilogue(JobsPlus(0), FetchState)
    BY <1>2, Zenon DEF TimeoutHandled
  <1>4. JobsPlus(0) \in Jobs
    BY JobsWrap DEF SessionInv
  <1>5. CASE GiveUp
    <2>1. Quiet
      BY <1>0, <1>1, <1>5 DEF GiveUp, Quiet
    <2>2. NoBlockSent
      <3>1. sent' = <<Error>>
        BY <1>5 DEF GiveUp
      <3> QED BY <3>1, OnePacket, ControlPackets DEF NoBlockSent
    <2> QED BY <1>3, <1>4, <2>1, <2>2 DEF KeepsBuffers
  <1>6. CASE Retransmit
    <2>1. Quiet
      BY <1>0, <1>1, <1>6 DEF Retransmit, Quiet
    <2>2. sent' = Window \/ NoBlockSent
      <3>1. sent' = Window \/ sent' = <<Oack>> \/ sent' = <<Ack(Pred(expected_sequence_number))>>
        <4>1. sent' = CASE OptionsPending -> <<Oack>>
                        [] ~OptionsPending /\ request.type = "write" ->
                             <<Ack(Pred(expected_sequence_number))>>
                        [] OTHER -> Window
          BY <1>6 DEF Retransmit
        <4> QED BY <4>1, Zenon
      <3> QED BY <3>1, OnePacket, ControlPackets DEF NoBlockSent
    <2> QED BY <1>3, <1>4, <2>1, <2>2 DEF KeepsBuffers
  <1> QED BY <1>5, <1>6 DEF TimeoutHandled

\* A packet is taken for an ACK or a block, or moves nothing.
LEMMA PacketKinds ==
  ASSUME SessionInv, NEW p \in ClientPackets, PacketReceived(p)
  PROVE  Untouched \/ KeepsBuffers \/ (Receiving /\ (AckReceived(p) \/ DataReceived(p)))
  <1>0. Receiving
    BY DEF PacketReceived, Receiving
  <1>1. status = "idle" /\ ~should_close /\ UNCHANGED <<request, fd>>
    BY <1>0 DEF Receiving
  <1>2. JobsPlus(0) \in Jobs /\ JobsPlus(-1) \in Jobs
    BY JobsWrap DEF SessionInv
  <1>3. CASE Ignore
    <2>1. Quiet
      BY <1>1, <1>3 DEF Ignore, Quiet
    <2>2. NoBlockSent
      <3>1. sent' = <<>>
        BY <1>3 DEF Ignore
      <3> QED BY <3>1 DEF NoBlockSent
    <2> QED BY <1>2, <1>3, <2>1, <2>2 DEF Ignore, KeepsBuffers
  <1>4. CASE UnexpectedPeer(p)
    <2>1. Quiet
      BY <1>1, <1>4 DEF UnexpectedPeer, Quiet
    <2>2. NoBlockSent
      <3>1. sent' = <<>>
        BY <1>4 DEF UnexpectedPeer
      <3> QED BY <3>1 DEF NoBlockSent
    <2> QED BY <1>2, <1>4, <2>1, <2>2 DEF UnexpectedPeer, KeepsBuffers
  <1>5. CASE Abort(p)
    <2>1. Quiet
      BY <1>1, <1>5 DEF Abort, Quiet
    <2>2. NoBlockSent
      <3>1. sent' = <<>> \/ sent' = <<Error>>
        BY <1>5 DEF Abort, report_client_error, IllegalOperation
      <3> QED BY <3>1, OnePacket, ControlPackets DEF NoBlockSent
    <2> QED BY <1>2, <1>5, <2>1, <2>2 DEF Abort, KeepsBuffers
  <1>6. CASE WriteFails(p)
    BY <1>1, <1>6 DEF WriteFails, Untouched
  <1> QED
    BY <1>0, <1>3, <1>4, <1>5, <1>6 DEF PacketReceived, on_packet_received

\* What the ring completes without a packet is of one of these kinds.
LEMMA RingKinds ==
  ASSUME SessionInv, SessionInv', RingEvent \/ PacketDropped
  PROVE  KeepsBuffers \/ ReadsOn \/ BlockReady
  <1>1. CASE TimeoutHandled
    BY <1>1, TimeoutKeeps
  <1>2. CASE TimeoutIgnored \/ TimeoutCanceled \/ TimeoutRemoved \/ RecvRemoved
             \/ RecvCanceled \/ PacketDropped
    <2>1. status = "idle" /\ OnlyEpilogue
      BY <1>2 DEF TimeoutIgnored, TimeoutCanceled, TimeoutRemoved, RecvRemoved,
         RecvCanceled, PacketDropped, RecvDropped
    <2> QED BY <2>1, OnlyEpilogueKeeps
  <1>3. CASE DataAvailable
    <2>1. Reading
      BY <1>3 DEF DataAvailable, Reading, writeVars, recvVars
    <2>2. status = "idle"
      BY <2>1 DEF Reading
    <2>3. UNCHANGED <<request, fd, writeVars, options_acknowledged>>
      BY <1>3 DEF DataAvailable
    <2>4. CASE ReadFailed
      <3>1. Quiet
        BY <2>2, <2>3, <2>4 DEF ReadFailed, Quiet
      <3>2. sent' = <<Error>>
        BY <2>4 DEF ReadFailed
      <3> QED
        BY <2>1, <2>4, <3>1, <3>2, OnePacket, ControlPackets DEF ReadsOn, NoBlockSent
    <2>5. CASE \E n \in ReadSizes : ReadIncomplete(n)
      <3>1. Quiet
        BY <2>2, <2>3, <2>5 DEF ReadIncomplete, Quiet
      <3>2. sent' = <<>>
        BY <2>5 DEF ReadIncomplete
      <3>3. NoBlockSent
        BY <3>2 DEF NoBlockSent
      <3> QED BY <2>1, <2>5, <3>1, <3>3 DEF ReadsOn
    <2> QED
      BY <1>3, <2>1, <2>4, <2>5 DEF DataAvailable, BlockReady
  <1> QED
    BY <1>1, <1>2, <1>3 DEF RingEvent

\* Every step is of one of these kinds.
LEMMA StepKinds ==
  ASSUME SessionInv, SessionInv', [SessionNext]_sessionVars
  PROVE  \/ Untouched
         \/ Start
         \/ KeepsBuffers
         \/ ReadsOn
         \/ BlockReady
         \/ \E p \in ClientPackets : Receiving /\ (AckReceived(p) \/ DataReceived(p))
  <1>1. CASE RingEvent \/ PacketDropped
    BY <1>1, RingKinds
  <1>2. CASE PacketArrives
    BY <1>2, PacketKinds DEF PacketArrives
  <1>3. CASE TimerFires
    BY <1>3 DEF TimerFires, controlVars, Untouched
  <1>4. CASE SyscallFailure
    BY <1>4 DEF SyscallFailure, Untouched
  <1>5. CASE UNCHANGED sessionVars
    BY <1>5 DEF sessionVars, controlVars, Untouched
  <1> QED
    BY <1>1, <1>2, <1>3, <1>4, <1>5 DEF SessionNext, Done

-----------------------------------------------------------------------------
(* How a read session ends. *)

\* The last packet is the newest one, no block follows it, and its ACK, which empties
\* the window, closes the session.
LastPacketSent ==
  last_packet # -1 =>
    /\ request.type = "read" /\ last_packet = Pred(next_data_packet_to_send)
    /\ ~is_fetching_data
    /\ window_begin = next_data_packet_to_send => should_close
    /\ file_offset = FileLen

\* A read session that decided to close without an error has had that ACK.
ClosedCleanly ==
  /\ status # "new" /\ request.type = "read" /\ request.valid
  /\ should_close /\ ~error_occurred
  => last_packet # -1 /\ window_begin = next_data_packet_to_send

\* Only a session that decided to is closed.
ClosedIsClosing == status = "closed" => should_close

\* The netascii encoder leaves a block short only at the end of the file.
ShortIsLast(mode, file, size, offset) ==
  \/ mode = "octet"
  \/ mode = "netascii" /\ file = "file" /\ (size < BlockSize => offset = FileLen)

FetchingShort ==
  status = "idle" /\ is_fetching_data =>
    ShortIsLast(request.mode, fd, last_block_size, file_offset)

ReadFacts ==
  /\ LastPacketSent /\ ClosedCleanly /\ ClosedIsClosing /\ FetchingShort
  /\ EmptyWindowProgresses

\* What the body of an event's case must leave for the tail.
BodyRead(f) ==
  /\ request' = request
  /\ last_packet' # -1 =>
       /\ request.type = "read" /\ last_packet' = Pred(next_data_packet_to_send')
       /\ ~f.fetching
       /\ window_begin' = next_data_packet_to_send' => should_close'
       /\ f.offset = FileLen
  /\ request.type = "read" /\ request.valid /\ should_close' /\ ~error_occurred' =>
       last_packet' # -1 /\ window_begin' = next_data_packet_to_send'
  /\ f.fetching => ShortIsLast(request.mode, fd', f.size, f.offset)

\* The tail does one of three things.
FetchesOctet(jobs, f) ==
  /\ ShouldFetch(f) /\ fetch_data_octet_async(f)
  /\ is_fetching_data' = TRUE /\ status' = "idle"

FetchesNetascii(jobs, f) ==
  /\ ShouldFetch(f) /\ fetch_data_netascii_async(f)
  /\ is_fetching_data' = TRUE /\ status' = "idle"

FetchesNothing(jobs, f) ==
  /\ FetchFails(f) \/ NoFetch(jobs, f)
  /\ is_fetching_data' = (f.fetching \/ ShouldFetch(f))
  /\ last_block_size' = f.size /\ incomplete_read' = f.incomplete
  /\ data_packets' = f.slots /\ file_offset' = f.offset

\* Whatever the body left, the tail does one of these.
LEMMA EpilogueKinds ==
  ASSUME NEW jobs, NEW f, Epilogue(jobs, f)
  PROVE  FetchesOctet(jobs, f) \/ FetchesNetascii(jobs, f) \/ FetchesNothing(jobs, f)
  BY Zenon DEF Epilogue, FetchesOctet, FetchesNetascii, FetchesNothing

\* An empty window is in range of itself.
LEMMA EmptyInRange ==
  ASSUME NEW n \in Block, NEW k \in 0 .. BlockMod - 1
  PROVE  is_in_range(n, n, Plus(n, k))
  BY BlockModAssumption DEF is_in_range, Plus, Block

\* The tail keeps the read invariant whatever the body of the case was.
LEMMA EpilogueReads ==
  ASSUME SessionInv', NEW jobs \in Jobs, NEW f \in FetchRecord, BodyRead(f),
         Epilogue(jobs, f)
  PROVE  ReadFacts'
  <1>0. /\ f.fetching \in BOOLEAN /\ f.size \in 0 .. BlockSize /\ f.offset \in 0 .. FileLen
        /\ request' = request
    BY DEF FetchRecord, BodyRead
  <1>1. /\ window_begin' \in Block /\ next_data_packet_to_send' \in Block
        /\ should_close' \in BOOLEAN /\ error_occurred' \in BOOLEAN
        /\ is_fetching_data' \in BOOLEAN /\ request \in ServerRequest
    BY <1>0, SessionAssumption DEF SessionInv, TypeOK
  <1>2. status' = "idle" => reads' = b2n(is_fetching_data')
    BY DEF SessionInv, RingShape, Running
  <1>3. CASE FetchesOctet(jobs, f)
    <2>1. last_packet' = -1 /\ ~should_close' /\ request.mode = "octet"
          /\ is_fetching_data' /\ status' = "idle"
      BY <1>3, Zenon DEF FetchesOctet, ShouldFetch, fetch_data_octet_async
    <2>2. reads' = 1
      BY <1>2, <2>1 DEF b2n
    <2>3. LastPacketSent' /\ ClosedCleanly' /\ ClosedIsClosing' /\ EmptyWindowProgresses'
      BY <2>1, <2>2, Zenon DEF LastPacketSent, ClosedCleanly, ClosedIsClosing,
         EmptyWindowProgresses
    <2>4. FetchingShort'
      BY <1>0, <2>1, Zenon DEF FetchingShort, ShortIsLast
    <2> QED BY <2>3, <2>4 DEF ReadFacts
  <1>4. CASE FetchesNetascii(jobs, f)
    <2>1. last_packet' = -1 /\ ~should_close' /\ is_fetching_data' /\ status' = "idle"
      BY <1>4, Zenon DEF FetchesNetascii, ShouldFetch
    <2>2. /\ request.mode = "netascii" /\ fd' = "file"
          /\ last_block_size' = Least(BlockSize, FileLen - f.offset)
          /\ file_offset' = f.offset + Least(BlockSize, FileLen - f.offset)
      BY <1>4, Zenon DEF FetchesNetascii, fetch_data_netascii_async
    <2>3. last_block_size' < BlockSize => file_offset' = FileLen
      BY <1>0, <2>2, PacketAssumption DEF Least
    <2>4. reads' = 1
      BY <1>2, <2>1 DEF b2n
    <2> QED
      BY <1>0, <2>1, <2>2, <2>3, <2>4 DEF ReadFacts, LastPacketSent, ClosedCleanly,
         ClosedIsClosing, FetchingShort, ShortIsLast, EmptyWindowProgresses
  <1>5. CASE FetchesNothing(jobs, f)
    <2>1. /\ is_fetching_data' = (f.fetching \/ ShouldFetch(f))
          /\ last_block_size' = f.size /\ file_offset' = f.offset
      BY <1>5, Zenon DEF FetchesNothing
    <2>2. ShouldFetch(f) => status' = "error" /\ last_packet' = -1
      BY <1>5, Zenon DEF FetchesNothing, FetchFails, NoFetch, ShouldFetch
    <2>3. ~ShouldFetch(f) => is_fetching_data' = f.fetching
      BY <1>0, <2>1, Zenon
    <2>4. LastPacketSent'
      BY <1>0, <2>1, <2>2, <2>3, Zenon DEF LastPacketSent, BodyRead
    <2>5. ClosedCleanly'
      BY <1>0, Zenon DEF ClosedCleanly, BodyRead
    <2>6. ClosedIsClosing'
      BY <1>5 DEF FetchesNothing, FetchFails, NoFetch, ClosedIsClosing
    <2>7. FetchingShort'
      BY <1>0, <2>1, <2>2, <2>3 DEF FetchingShort, BodyRead
    <2>8. EmptyWindowProgresses'
      <3> SUFFICES ASSUME status' = "idle", ~should_close', request.type = "read",
                          ~OptionsPending', window_begin' = next_data_packet_to_send'
                   PROVE  reads' = 1
        BY <1>0 DEF EmptyWindowProgresses
      <3>1. ~ShouldFetch(f)
        BY <2>2
      <3>2. last_packet' = -1
        BY Zenon DEF BodyRead
      <3>3. window_size' \in 1 .. BlockMod - 1
        BY <1>0, <1>1, SlotExists DEF window_size
      <3>4. is_in_range(next_data_packet_to_send', window_begin',
                        Plus(window_begin', window_size' - 1))
        <4>0. \A w \in 1 .. BlockMod - 1 : w - 1 \in 0 .. BlockMod - 1
          BY BlockModAssumption
        <4>1. window_size' - 1 \in 0 .. BlockMod - 1
          BY <3>3, <4>0, Zenon
        <4>2. is_in_range(next_data_packet_to_send', next_data_packet_to_send',
                          Plus(next_data_packet_to_send', window_size' - 1))
          BY <1>1, <4>1, EmptyInRange
        <4> QED BY <4>2, Zenon
      <3>5. ~(fd' = "file" /\ request.options) \/ options_acknowledged'
        BY <1>0, Zenon DEF OptionsPending, valid_options_required
      <3>6. f.fetching
        BY <1>0, <3>1, <3>2, <3>4, <3>5, Zenon DEF ShouldFetch
      <3>7. is_fetching_data'
        BY <2>3, <3>1, <3>6, Zenon
      <3> QED BY <1>2, <3>7 DEF b2n
    <2> QED BY <2>4, <2>5, <2>6, <2>7, <2>8 DEF ReadFacts
  <1> QED BY <1>3, <1>4, <1>5, EpilogueKinds

\* A quiet body leaves for the tail what it found.
LEMMA QuietBodyReads ==
  ASSUME SessionInv, ReadFacts, Quiet, NEW f \in FetchRecord,
         f.fetching => is_fetching_data /\ f.size = last_block_size
                       /\ f.offset = file_offset,
         ~is_fetching_data => f.offset = file_offset
  PROVE  BodyRead(f)
  <1>1. /\ status = "idle" /\ request' = request /\ fd' = fd
        /\ window_begin' = window_begin /\ last_packet' = last_packet
        /\ next_data_packet_to_send' = next_data_packet_to_send
        /\ should_close => should_close'
        /\ should_close' /\ ~error_occurred' => should_close /\ ~error_occurred
    BY DEF Quiet, windowVars
  <1>2. last_packet' # -1 =>
          /\ request.type = "read" /\ last_packet' = Pred(next_data_packet_to_send')
          /\ ~f.fetching
          /\ window_begin' = next_data_packet_to_send' => should_close'
          /\ f.offset = FileLen
    <2>1. SUFFICES ASSUME last_packet # -1
                   PROVE  /\ request.type = "read"
                          /\ last_packet = Pred(next_data_packet_to_send)
                          /\ ~f.fetching
                          /\ window_begin = next_data_packet_to_send => should_close'
                          /\ f.offset = FileLen
      BY <1>1, Zenon
    <2>2. /\ request.type = "read" /\ last_packet = Pred(next_data_packet_to_send)
          /\ ~is_fetching_data /\ file_offset = FileLen
          /\ window_begin = next_data_packet_to_send => should_close
      BY <2>1, Zenon DEF ReadFacts, LastPacketSent
    <2> QED BY <1>1, <2>2, Zenon
  <1>3. request.type = "read" /\ request.valid /\ should_close' /\ ~error_occurred' =>
          last_packet' # -1 /\ window_begin' = next_data_packet_to_send'
    <2>1. status # "new"
      BY <1>1
    <2> QED BY <1>1, <2>1, Zenon DEF ReadFacts, ClosedCleanly
  <1>4. f.fetching => ShortIsLast(request.mode, fd', f.size, f.offset)
    BY <1>1, Zenon DEF ReadFacts, FetchingShort
  <1> QED BY <1>1, <1>2, <1>3, <1>4 DEF BodyRead

\* EVENT_TIMEOUT, the removals and most packets.
LEMMA KeepsBuffersReads ==
  ASSUME SessionInv, SessionInv', ReadFacts, KeepsBuffers
  PROVE  ReadFacts'
  <1>1. /\ FetchState \in FetchRecord /\ FetchState.fetching = is_fetching_data
        /\ FetchState.size = last_block_size /\ FetchState.offset = file_offset
    <2>1. FetchState \in FetchRecord
      BY FetchStateTyped DEF SessionInv
    <2> QED BY <2>1 DEF FetchState
  <1>2. BodyRead(FetchState)
    BY <1>1, QuietBodyReads DEF KeepsBuffers
  <1>3. PICK jobs \in Jobs : Epilogue(jobs, FetchState)
    BY DEF KeepsBuffers
  <1> QED BY <1>1, <1>2, <1>3, EpilogueReads

\* A read in flight is the only one, and it is that of the next packet.
LEMMA ReadInFlight ==
  ASSUME SessionInv, Reading
  PROVE  /\ status = "idle" /\ reads = 1 /\ is_fetching_data /\ request.type = "read"
         /\ JobsPlus(-1) \in Jobs /\ JobsPlus(0) \in Jobs
  BY FetchingFacts, JobsWrap DEF Reading, SessionInv

\* A read that failed or did not fill the block.
LEMMA ReadsOnReads ==
  ASSUME SessionInv, SessionInv', ReadFacts, ReadsOn
  PROVE  ReadFacts'
  <1>1. Quiet /\ Reading /\ reads = 1 /\ is_fetching_data /\ JobsPlus(-1) \in Jobs
    BY ReadInFlight DEF ReadsOn
  <1>2. /\ last_block_size \in 0 .. BlockSize /\ incomplete_read \in BOOLEAN
        /\ data_packets \in [0 .. request.window - 1 -> Slot]
        /\ file_offset \in 0 .. FileLen
    BY Zenon DEF SessionInv, TypeOK
  <1>3. CASE ReadFailed
    <2> DEFINE f == Fetched(last_block_size, incomplete_read, data_packets, file_offset)
    <2>1. f \in FetchRecord /\ f.fetching = FALSE
      BY <1>1, <1>2, FetchedTyped, Zenon
    <2>2. Epilogue(JobsPlus(-1), f)
      BY <1>3 DEF ReadFailed
    <2> HIDE DEF f
    <2>3. BodyRead(f)
      BY <1>1, <2>1, QuietBodyReads
    <2> QED BY <1>1, <2>1, <2>2, <2>3, EpilogueReads
  <1>4. ASSUME NEW n \in ReadSizes, ReadIncomplete(n)
        PROVE  ReadFacts'
    <2>1. last_block_size + n \in 0 .. BlockSize /\ file_offset + n \in 0 .. FileLen
          /\ ReadInto(n) \in [0 .. request.window - 1 -> Slot]
      BY ReadTyped DEF SessionInv
    <2> DEFINE f == Fetched(last_block_size + n, TRUE, ReadInto(n), file_offset + n)
    <2>2. f \in FetchRecord /\ f.fetching = FALSE
      BY <1>1, <2>1, FetchedTyped
    <2>3. Epilogue(JobsPlus(-1), f)
      BY <1>4 DEF ReadIncomplete
    <2> HIDE DEF f
    <2>4. BodyRead(f)
      BY <1>1, <2>2, QuietBodyReads
    <2> QED BY <1>1, <2>2, <2>3, <2>4, EpilogueReads
  <1> QED BY <1>3, <1>4 DEF ReadsOn

\* The block that has been sent is the last one exactly if it is short, and then the
\* file has been read to its end.
LEMMA SendReads ==
  ASSUME SessionInv, SessionInv', ReadFacts, Reading, NEW f \in FetchRecord,
         f.fetching = FALSE, f.size < BlockSize => f.offset = FileLen, SendBlock(f)
  PROVE  ReadFacts'
  <1>1. /\ request' = request /\ fd' = fd /\ window_begin' = window_begin
        /\ next_data_packet_to_send' = Succ(next_data_packet_to_send)
        /\ should_close' = should_close /\ error_occurred' = error_occurred
        /\ last_packet' = (IF f.size < BlockSize THEN next_data_packet_to_send
                                                 ELSE last_packet)
    BY DEF Reading, SendBlock
  <1>2. status = "idle" /\ is_fetching_data /\ request.type = "read"
    BY ReadInFlight
  <1>3. last_packet = -1
    BY <1>2, Zenon DEF ReadFacts, LastPacketSent
  <1>4. window_begin \in Block /\ next_data_packet_to_send \in Block
    BY Zenon DEF SessionInv, TypeOK
  <1>5. Dist(window_begin, next_data_packet_to_send) + 1 < BlockMod
    BY <1>2, WindowFacts
  <1>6. window_begin # Succ(next_data_packet_to_send)
    BY <1>4, <1>5, SendingLengthens
  <1>7. Pred(Succ(next_data_packet_to_send)) = next_data_packet_to_send
    BY <1>4, BlockModAssumption DEF Pred, Succ, Plus, Minus, Block
  <1>8. BodyRead(f)
    <2>1. last_packet' # -1 => last_packet' = next_data_packet_to_send /\ f.offset = FileLen
      BY <1>1, <1>3
    <2>2. should_close /\ ~error_occurred /\ request.valid => FALSE
      BY <1>2, <1>3, Zenon DEF ReadFacts, ClosedCleanly
    <2> QED BY <1>1, <1>2, <1>6, <1>7, <2>1, <2>2, Zenon DEF BodyRead
  <1>9. Epilogue(JobsPlus(-1 + b2n(window_begin = next_data_packet_to_send)), f)
    BY DEF SendBlock
  <1>10. JobsPlus(-1 + b2n(window_begin = next_data_packet_to_send)) \in Jobs
    <2>1. CASE window_begin = next_data_packet_to_send
      <3>1. -1 + b2n(window_begin = next_data_packet_to_send) = 0
        BY <2>1 DEF b2n
      <3> QED BY <3>1, ReadInFlight
    <2>2. CASE window_begin # next_data_packet_to_send
      <3>1. -1 + b2n(window_begin = next_data_packet_to_send) = -1
        BY <2>2 DEF b2n
      <3> QED BY <3>1, ReadInFlight
    <2> QED BY <2>1, <2>2
  <1> DEFINE jobs == JobsPlus(-1 + b2n(window_begin = next_data_packet_to_send))
  <1> HIDE DEF jobs
  <1>11. jobs \in Jobs /\ Epilogue(jobs, f)
    BY <1>9, <1>10 DEF jobs
  <1> QED BY <1>8, <1>11, EpilogueReads

\* A read that ends a block short of BlockSize has reached the end of the file.
LEMMA ShortReadIsLast ==
  ASSUME TypeOK, NEW n \in ReadSizes, n = BlockSize \/ end_of_file(n, file_offset + n),
         last_block_size + n < BlockSize
  PROVE  file_offset + n = FileLen
  <1>1. last_block_size \in 0 .. BlockSize /\ file_offset \in 0 .. FileLen
    BY DEF TypeOK
  <1>2. n \in Nat /\ (n = 0 => Least(BlockSize - last_block_size, FileLen - file_offset) = 0)
    <2> DEFINE most == Least(BlockSize - last_block_size, FileLen - file_offset)
    <2>1. most \in Nat
      BY <1>1, PacketAssumption DEF Least
    <2>2. n \in (IF most = 0 \/ request.seekable THEN {most} ELSE 1 .. most)
      BY DEF ReadSizes
    <2> HIDE DEF most
    <2>3. n = most \/ n \in 1 .. most
      BY <2>2, Zenon
    <2>4. n \in Nat /\ (n = 0 => most = 0)
      BY <2>1, <2>3
    <2> QED BY <2>4 DEF most
  <1>3. n # BlockSize
    BY <1>1, <1>2, PacketAssumption
  <1>4. CASE n = 0
    BY <1>1, <1>2, <1>4, PacketAssumption DEF Least
  <1>5. CASE file_offset + n = FileLen
    BY <1>5
  <1> QED BY <1>3, <1>4, <1>5, Zenon DEF end_of_file

\* A complete block is sent.
LEMMA BlockReadyReads ==
  ASSUME SessionInv, SessionInv', ReadFacts, BlockReady
  PROVE  ReadFacts'
  <1>1. Reading /\ status = "idle" /\ reads = 1 /\ is_fetching_data
    BY ReadInFlight DEF BlockReady
  <1>2. /\ last_block_size \in 0 .. BlockSize /\ incomplete_read \in BOOLEAN
        /\ data_packets \in [0 .. request.window - 1 -> Slot]
        /\ file_offset \in 0 .. FileLen
    BY Zenon DEF SessionInv, TypeOK
  <1>3. CASE NetasciiBlockReady
    <2> DEFINE f == Fetched(last_block_size, incomplete_read, data_packets, file_offset)
    <2>1. f \in FetchRecord /\ f.fetching = FALSE
      BY <1>1, <1>2, FetchedTyped, Zenon
    <2>2. f.size = last_block_size /\ f.offset = file_offset
      BY DEF Fetched
    <2>3. SendBlock(f)
      BY <1>3 DEF NetasciiBlockReady
    <2>4. last_block_size < BlockSize => file_offset = FileLen
      BY <1>1, <1>3, Zenon DEF NetasciiBlockReady, ReadFacts, FetchingShort, ShortIsLast
    <2> HIDE DEF f
    <2> QED BY <1>1, <2>1, <2>2, <2>3, <2>4, SendReads
  <1>4. ASSUME NEW n \in ReadSizes, ReadComplete(n)
        PROVE  ReadFacts'
    <2> DEFINE slots == [ReadInto(n) EXCEPT ![SlotOf(next_data_packet_to_send)].block =
                                              next_data_packet_to_send]
               size == last_block_size + n
               offset == file_offset + n
               f == Fetched(size, incomplete_read, slots, offset)
    <2>1. /\ size \in 0 .. BlockSize /\ offset \in 0 .. FileLen
          /\ slots \in [0 .. request.window - 1 -> Slot]
      BY ReadTyped DEF SessionInv
    <2>2. SendBlock(f)
      BY <1>4 DEF ReadComplete
    <2>3. size < BlockSize => offset = FileLen
      BY <1>4, ShortReadIsLast DEF ReadComplete, SessionInv
    <2> HIDE DEF slots, size, offset
    <2>4. f \in FetchRecord /\ f.fetching = FALSE
      BY <1>1, <1>2, <2>1, FetchedTyped
    <2>5. f.size = size /\ f.offset = offset
      BY DEF Fetched
    <2> HIDE DEF f
    <2> QED BY <1>1, <2>2, <2>3, <2>4, <2>5, SendReads
  <1> QED BY <1>3, <1>4 DEF BlockReady

\* EVENT_START reads nothing before the tail.
LEMMA StartReads ==
  ASSUME SessionInv, SessionInv', ReadFacts, Start
  PROVE  ReadFacts'
  <1>1. /\ status = "new" /\ request' = request /\ last_packet' = last_packet
        /\ window_begin' = window_begin
        /\ next_data_packet_to_send' = next_data_packet_to_send
        /\ should_close' = ~request.valid
    BY DEF Start, start, is_request_valid, windowVars
  <1>2. ~is_fetching_data /\ window_begin = next_data_packet_to_send /\ ~should_close
    BY <1>1, Zenon DEF SessionInv, NewIsFresh
  <1>3. last_packet = -1
    BY <1>2, Zenon DEF ReadFacts, LastPacketSent
  <1>4. FetchState \in FetchRecord /\ FetchState.fetching = is_fetching_data
    BY FetchStateTyped DEF SessionInv
  <1>5. request.valid \in BOOLEAN
    BY SessionAssumption DEF SessionInv, TypeOK, ServerRequest
  <1>6. BodyRead(FetchState)
    BY <1>1, <1>2, <1>3, <1>4, <1>5, Zenon DEF BodyRead
  <1>7. PICK jobs \in Jobs : Epilogue(jobs, FetchState)
    <2>1. Epilogue(JobsPlus(b2n(SendsOack) + b2n(is_request_valid)), FetchState)
      BY DEF Start
    <2>2. SendsOack \in BOOLEAN /\ is_request_valid \in BOOLEAN
      BY <1>5, SessionAssumption
      DEF SessionInv, TypeOK, ServerRequest, is_request_valid, FileOpens, SendsOack
    <2>3. b2n(SendsOack) + b2n(is_request_valid) \in {-1, 0, 1, 2}
      <3>1. b2n(SendsOack) \in 0 .. 1 /\ b2n(is_request_valid) \in 0 .. 1
        BY <2>2, CountOne
      <3> QED BY <3>1
    <2>4. JobsPlus(b2n(SendsOack) + b2n(is_request_valid)) \in Jobs
      BY <2>3, JobsWrap DEF SessionInv
    <2> QED BY <2>1, <2>4
  <1> QED BY <1>4, <1>6, <1>7, EpilogueReads

\* An ACK in the window: it closes the session exactly if it is that of the last
\* packet, which is the one that empties the window.
LEMMA AckReads ==
  ASSUME SessionInv, SessionInv', ReadFacts, Receiving, NEW p \in ClientPackets,
         AckReceived(p)
  PROVE  ReadFacts'
  <1>0. status = "idle" /\ request' = request /\ fd' = fd
    BY DEF Receiving
  <1>1. /\ p.op = "ACK" /\ request.type = "read" /\ window_begin' = Succ(p.block)
        /\ next_data_packet_to_send' = next_data_packet_to_send
        /\ last_packet' = last_packet /\ should_close' = IsLastAck(p.block)
    BY DEF AckReceived
  <1>2. p.block \in Block /\ next_data_packet_to_send \in Block
    BY <1>0, <1>1, ClientAckFacts, Zenon DEF SessionInv, TypeOK
  <1>3. Succ(p.block) = next_data_packet_to_send <=>
          p.block = Pred(next_data_packet_to_send)
    BY <1>2, BlockModAssumption DEF Succ, Pred, Plus, Minus, Block
  <1>4. should_close' <=> last_packet # -1 /\ p.block = last_packet
    BY <1>1 DEF IsLastAck
  <1>5. /\ FetchState \in FetchRecord /\ FetchState.fetching = is_fetching_data
        /\ FetchState.size = last_block_size /\ FetchState.offset = file_offset
    <2>1. FetchState \in FetchRecord
      BY FetchStateTyped DEF SessionInv
    <2> QED BY <2>1 DEF FetchState
  <1>6. last_packet # -1 =>
          /\ last_packet = Pred(next_data_packet_to_send) /\ ~is_fetching_data
          /\ file_offset = FileLen
    BY Zenon DEF ReadFacts, LastPacketSent
  <1>7. is_fetching_data => ShortIsLast(request.mode, fd, last_block_size, file_offset)
    BY <1>0, Zenon DEF ReadFacts, FetchingShort
  <1>8. BodyRead(FetchState)
    <2>1. last_packet # -1 /\ Succ(p.block) = next_data_packet_to_send => should_close'
      BY <1>3, <1>4, <1>6, Zenon
    <2>2. should_close' => last_packet # -1 /\ Succ(p.block) = next_data_packet_to_send
      BY <1>3, <1>4, <1>6, Zenon
    <2> QED
      BY <1>0, <1>1, <1>5, <1>6, <1>7, <2>1, <2>2, Zenon DEF BodyRead
  <1>9. PICK jobs \in Jobs : Epilogue(jobs, FetchState)
    <2> DEFINE k == b2n(ShouldRearm(window_begin')) + b2n(~should_close')
    <2>1. Epilogue(JobsPlus(k), FetchState)
      BY DEF AckReceived
    <2>2. k \in {-1, 0, 1, 2}
      <3>1. ShouldRearm(window_begin') \in BOOLEAN /\ (~should_close') \in BOOLEAN
        BY DEF ShouldRearm
      <3>2. b2n(ShouldRearm(window_begin')) \in 0 .. 1 /\ b2n(~should_close') \in 0 .. 1
        BY <3>1, CountOne
      <3> QED BY <3>2
    <2>3. JobsPlus(k) \in Jobs
      BY <2>2, JobsWrap DEF SessionInv
    <2> QED BY <2>1, <2>3
  <1> QED BY <1>5, <1>8, <1>9, EpilogueReads

\* A block of a write session concerns no read session.
LEMMA DataReads ==
  ASSUME SessionInv, SessionInv', ReadFacts, Receiving, NEW p, DataReceived(p)
  PROVE  ReadFacts'
  <1>1. /\ request.type = "write" /\ request' = request /\ status = "idle"
        /\ last_packet' = last_packet
    BY DEF DataReceived, Receiving
  <1>2. last_packet = -1 /\ ~is_fetching_data
    BY <1>1, Zenon DEF ReadFacts, LastPacketSent, SessionInv, WriteWindow, Running
  <1>3. FetchState \in FetchRecord /\ FetchState.fetching = is_fetching_data
    BY FetchStateTyped DEF SessionInv
  <1>4. BodyRead(FetchState)
    <2>1. request.type # "read"
      BY <1>1
    <2> QED BY <1>1, <1>2, <1>3, <2>1, Zenon DEF BodyRead
  <1>5. PICK jobs \in Jobs : Epilogue(jobs, FetchState)
    <2> DEFINE k == -1 + b2n(~should_close')
    <2>1. Epilogue(JobsPlus(k), FetchState)
      BY DEF DataReceived
    <2>2. k \in {-1, 0, 1, 2}
      <3>1. (~should_close') \in BOOLEAN
        OBVIOUS
      <3>2. b2n(~should_close') \in 0 .. 1
        BY <3>1, CountOne
      <3> QED BY <3>2
    <2>3. JobsPlus(k) \in Jobs
      BY <2>2, JobsWrap DEF SessionInv
    <2> QED BY <2>1, <2>3
  <1> QED BY <1>3, <1>4, <1>5, EpilogueReads

\* A step that leaves the transfer alone.
LEMMA UntouchedReads ==
  ASSUME SessionInv, SessionInv', ReadFacts, Untouched
  PROVE  ReadFacts'
  <1>1. /\ status' \in {status, "error"} /\ request' = request /\ fd' = fd
        /\ options_acknowledged' = options_acknowledged
        /\ should_close' = should_close /\ window_begin' = window_begin
        /\ next_data_packet_to_send' = next_data_packet_to_send
        /\ last_packet' = last_packet /\ is_fetching_data' = is_fetching_data
        /\ last_block_size' = last_block_size /\ file_offset' = file_offset
        /\ reads' = reads
        /\ ~error_occurred' => ~error_occurred
    BY DEF Untouched, windowVars, fetchVars
  <1>2. LastPacketSent' /\ ClosedIsClosing'
    BY <1>1 DEF ReadFacts, LastPacketSent, ClosedIsClosing
  <1>3. FetchingShort' /\ EmptyWindowProgresses'
    BY <1>1 DEF ReadFacts, FetchingShort, EmptyWindowProgresses, OptionsPending,
       valid_options_required
  <1>4. ClosedCleanly'
    <2>1. should_close => status # "new"
      BY Zenon DEF SessionInv, NewIsFresh
    <2> QED BY <1>1, <2>1, Zenon DEF ReadFacts, ClosedCleanly
  <1> QED BY <1>2, <1>3, <1>4 DEF ReadFacts

-----------------------------------------------------------------------------
(* Arithmetic of block numbers that do not wrap. *)

\* Division with remainder.
LEMMA DivMod ==
  ASSUME NEW a \in Nat, NEW m \in Nat \ {0}
  PROVE  \E q \in Nat, r \in 0 .. m - 1 : q = a \div m /\ r = a % m /\ a = m * q + r
  <1>1. a \div m \in Nat
    OBVIOUS
  <1>2. a % m \in 0 .. m - 1
    OBVIOUS
  <1>3. a % m = a - m * (a \div m)
    BY Z3
  <1> DEFINE q == a \div m
             r == a % m
  <1>4. r = a - m * q /\ q \in Nat /\ r \in 0 .. m - 1
    BY <1>1, <1>2, <1>3
  <1>5. q = a \div m /\ r = a % m
    OBVIOUS
  <1> HIDE DEF q, r
  <1>6. a = m * q + r
    BY <1>4
  <1> QED BY <1>4, <1>5, <1>6

\* The remainder is unique.
LEMMA RemainderUnique ==
  ASSUME NEW a \in Nat, NEW m \in Nat \ {0}, NEW q \in Nat, NEW r \in 0 .. m - 1, a = m * q + r
  PROVE  a % m = r
  OBVIOUS

\* Wrapped block numbers count modulo the number of block numbers, up ...
LEMMA NextMod ==
  ASSUME NEW a \in Nat, NEW k \in 0 .. BlockMod - 1
  PROVE  Plus(a % BlockMod, k) = (a + k) % BlockMod
  <1>1. BlockMod \in Nat \ {0}
    BY BlockModAssumption
  <1>2. PICK q \in Nat, x \in 0 .. BlockMod - 1 : x = a % BlockMod /\ a = BlockMod * q + x
    BY <1>1, DivMod
  <1>3. CASE x + k < BlockMod
    <2> DEFINE r == x + k
    <2>1. a + k = BlockMod * q + r /\ r \in 0 .. BlockMod - 1 /\ a + k \in Nat
      BY <1>1, <1>2, <1>3
    <2> HIDE DEF r
    <2>2. (a + k) % BlockMod = r
      BY <1>1, <2>1, RemainderUnique
    <2> QED BY <1>2, <1>3, <2>2 DEF Plus, r
  <1>4. CASE x + k >= BlockMod
    <2> DEFINE r == x + k - BlockMod
               p == q + 1
    <2>1. a + k = BlockMod * p + r /\ r \in 0 .. BlockMod - 1 /\ a + k \in Nat /\ p \in Nat
      BY <1>1, <1>2, <1>4
    <2> HIDE DEF r, p
    <2>2. (a + k) % BlockMod = r
      BY <1>1, <2>1, RemainderUnique
    <2> QED BY <1>1, <1>2, <1>4, <2>2 DEF Plus, r
  <1> QED BY <1>1, <1>2, <1>3, <1>4

\* ... and down.
LEMMA BackMod ==
  ASSUME NEW a \in Nat, NEW k \in 0 .. BlockMod - 1, k <= a
  PROVE  Minus(a % BlockMod, k) = (a - k) % BlockMod
  <1> DEFINE d == a - k
             x == d % BlockMod
  <1>1. d \in Nat /\ d + k = a
    OBVIOUS
  <1>2. x \in 0 .. BlockMod - 1
    BY <1>1, BlockModAssumption, DivMod
  <1>3. Plus(x, k) = a % BlockMod
    BY <1>1, NextMod
  <1> HIDE DEF x
  <1>4. Minus(Plus(x, k), k) = x
    BY <1>2, BlockModAssumption DEF Plus, Minus
  <1>5. Minus(a % BlockMod, k) = x
    BY <1>3, <1>4, Zenon
  <1> QED BY <1>5 DEF x

\* A window that divides the number of block numbers sees the unwrapped numbers.
LEMMA ModMod ==
  ASSUME NEW a \in Nat, NEW m \in Nat \ {0}, NEW w \in Nat \ {0}, m % w = 0
  PROVE  (a % m) % w = a % w
  <1>1. PICK q \in Nat, x \in 0 .. m - 1 : x = a % m /\ a = m * q + x
    BY DivMod
  <1>2. PICK t \in Nat : m = w * t
    <2>1. PICK t \in Nat, z \in 0 .. w - 1 : z = m % w /\ m = w * t + z
      BY DivMod
    <2>2. z = 0
      BY <2>1
    <2>3. m = w * t
      BY <2>1, <2>2
    <2> QED BY <2>3
  <1>3. PICK u \in Nat, y \in 0 .. w - 1 : y = x % w /\ x = w * u + y
    BY DivMod
  <1> DEFINE p == t * q + u
  <1>4. a = w * p + y /\ p \in Nat
    BY <1>1, <1>2, <1>3
  <1> HIDE DEF p
  <1>5. a % w = y
    BY <1>3, <1>4, RemainderUnique
  <1> QED BY <1>1, <1>3, <1>5

\* Numbers less than w apart differ modulo w.
LEMMA ModApart ==
  ASSUME NEW a \in Nat, NEW b \in Nat, NEW w \in Nat \ {0}, a < b, b - a < w
  PROVE  a % w # b % w
  <1> SUFFICES ASSUME a % w = b % w PROVE FALSE
    OBVIOUS
  <1>1. PICK q \in Nat, x \in 0 .. w - 1 : x = a % w /\ a = w * q + x
    BY DivMod
  <1>2. PICK p \in Nat, y \in 0 .. w - 1 : y = b % w /\ b = w * p + y
    BY DivMod
  <1>3. b - a = w * (p - q) /\ b - a > 0
    BY <1>1, <1>2
  <1>4. CASE p <= q
    BY <1>3, <1>4
  <1>5. CASE p >= q + 1
    <2>1. w * (p - q) >= w
      BY <1>5
    <2> QED BY <1>3, <2>1
  <1> QED BY <1>4, <1>5

\* As many whole blocks as fit do not exceed the length.
LEMMA DivBound ==
  ASSUME NEW a \in Nat, NEW m \in Nat \ {0}, NEW k \in Nat, k <= a \div m
  PROVE  k * m <= a /\ k * m \in Nat
  OBVIOUS

\* Every step keeps the read invariant.
LEMMA NextReads ==
  ASSUME SessionInv, SessionInv', ReadFacts, [SessionNext]_sessionVars
  PROVE  ReadFacts'
  BY StepKinds, UntouchedReads, StartReads, KeepsBuffersReads, ReadsOnReads,
     BlockReadyReads, AckReads, DataReads

\* A session of which nothing has happened yet.
LEMMA InitReads == SessionInit => ReadFacts
  BY DEF SessionInit, ReadFacts, LastPacketSent, ClosedCleanly, ClosedIsClosing,
     FetchingShort, EmptyWindowProgresses

\* The facts about the end of a read session always hold.
LEMMA ReadsInvariant == SessionSpec => []ReadFacts
  <1>1. SessionInit => SessionInv /\ ReadFacts
    BY InitInv, InitReads
  <1>2. (SessionInv /\ ReadFacts) /\ [SessionNext]_sessionVars => (SessionInv /\ ReadFacts)'
    BY NextInv, NextReads
  <1> QED
    BY <1>1, <1>2, PTL DEF SessionSpec

\* A read session whose client has acknowledged everything sent is reading on: no order
\* of ACKs, timers and reads leaves it open with an empty window and nothing to do.
THEOREM EmptyWindowIsRefilled == SessionSpec => []EmptyWindowProgresses
  <1>1. ReadFacts => EmptyWindowProgresses
    BY DEF ReadFacts
  <1> QED
    BY <1>1, ReadsInvariant, PTL

\* A read session that ends without an error has read the file to its end, and the ACK
\* of its last block has come, whatever was lost, repeated or reordered.
THEOREM CleanCloseIsWhole == SessionSpec => []CleanCloseIsComplete
  <1>1. ReadFacts => CleanCloseIsComplete
    BY DEF ReadFacts, LastPacketSent, ClosedCleanly, ClosedIsClosing, CleanCloseIsComplete
  <1> QED
    BY <1>1, ReadsInvariant, PTL

-----------------------------------------------------------------------------
(* What a write session stores. *)

\* The first bytes of the file are a sequence of as many bytes.
LEMMA PrefixIsSequence ==
  ASSUME NEW n \in Nat
  PROVE  /\ FilePrefix(n) \in Seq(Nat) /\ Len(FilePrefix(n)) = n
         /\ \A i \in 1 .. n : FilePrefix(n)[i] = i
  BY DEF FilePrefix

\* The next bytes of the file make the prefix longer.
LEMMA PrefixGrows ==
  ASSUME NEW n \in Nat, NEW d \in Seq(Nat), \A i \in 1 .. Len(d) : d[i] = n + i
  PROVE  FilePrefix(n) \o d = FilePrefix(n + Len(d))
  <1> DEFINE s == FilePrefix(n)
             t == FilePrefix(n + Len(d))
  <1>1. Len(d) \in Nat
    OBVIOUS
  <1>2. s \in Seq(Nat) /\ Len(s) = n /\ \A i \in 1 .. n : s[i] = i
    BY PrefixIsSequence
  <1>3. t \in Seq(Nat) /\ Len(t) = n + Len(d) /\ \A i \in 1 .. n + Len(d) : t[i] = i
    <2>1. n + Len(d) \in Nat
      BY <1>1
    <2> QED BY <2>1, PrefixIsSequence
  <1> HIDE DEF s, t
  <1> DEFINE u == s \o d
  <1>4. /\ u \in Seq(Nat) /\ Len(u) = n + Len(d)
        /\ \A i \in 1 .. n + Len(d) : u[i] = i
    <2>1. /\ u \in Seq(Nat) /\ Len(u) = n + Len(d)
          /\ \A i \in 1 .. n + Len(d) : u[i] = IF i <= n THEN s[i] ELSE d[i - n]
      BY <1>2, ConcatProperties
    <2> HIDE DEF u
    <2>2. ASSUME NEW i \in 1 .. n + Len(d) PROVE u[i] = i
      <3>1. CASE i <= n
        BY <1>1, <1>2, <2>1, <3>1
      <3>2. CASE i > n
        <4>1. i - n \in 1 .. Len(d) /\ n + (i - n) = i
          BY <1>1, <3>2
        <4>2. d[i - n] = n + (i - n)
          BY <4>1
        <4> QED BY <2>1, <3>2, <4>1, <4>2
      <3> QED BY <1>1, <3>1, <3>2
    <2> QED BY <2>1, <2>2
  <1> HIDE DEF u
  <1>5. u = t
    BY <1>1, <1>3, <1>4, SeqEqual
  <1> QED BY <1>5 DEF s, t, u

\* The blocks of the file are its bytes, full up to the last one.
LEMMA BlockBytes ==
  ASSUME NEW k \in 1 .. LastBlock
  PROVE  /\ k \in Nat /\ (k - 1) * BlockSize \in 0 .. FileLen
         /\ FileBlock(k) \in Seq(Nat)
         /\ Len(FileBlock(k)) = Least(BlockSize, FileLen - (k - 1) * BlockSize)
         /\ \A i \in 1 .. Len(FileBlock(k)) : FileBlock(k)[i] = (k - 1) * BlockSize + i
  <1>1. FileLen \div BlockSize \in Nat
    BY PacketAssumption, DivMod
  <1>2. k - 1 \in Nat /\ k - 1 <= FileLen \div BlockSize
    BY <1>1 DEF LastBlock
  <1>3. (k - 1) * BlockSize <= FileLen /\ (k - 1) * BlockSize \in Nat
    BY <1>2, PacketAssumption, DivBound
  <1> DEFINE b == (k - 1) * BlockSize
             len == Least(BlockSize, FileLen - b)
  <1>4. b \in 0 .. FileLen
    BY <1>3, PacketAssumption
  <1>5. len \in Nat
    BY <1>4, PacketAssumption DEF Least
  <1> HIDE DEF b
  <1>6. FileBlock(k) = [i \in 1 .. len |-> b + i]
    BY DEF FileBlock, b
  <1> HIDE DEF len
  <1>7. FileBlock(k) \in Seq(Nat) /\ Len(FileBlock(k)) = len
        /\ \A i \in 1 .. len : FileBlock(k)[i] = b + i
    BY <1>4, <1>5, <1>6
  <1> QED BY <1>2, <1>4, <1>7 DEF b, len

\* What has been stored is all of the blocks taken, and all of the file once the
\* session closes without an error.
StoredSoFar ==
  request.type = "write" /\ fd = "file" =>
    /\ ~should_close => Len(written) = blocks * BlockSize
    /\ should_close /\ ~error_occurred => Len(written) = FileLen

\* Only a write session that opened its file stores anything.
NothingStored ==
  status = "new" \/ request.type = "read" \/ fd # "file" => written = <<>>

\* Before the options are settled the block that is expected is the first.
FirstBlock ==
  request.type = "write" /\ (status = "new" \/ OptionsPending) =>
    blocks = 0 /\ expected_sequence_number = 1

WriteFacts ==
  /\ \E n \in Nat : written = FilePrefix(n)
  /\ StoredSoFar /\ NothingStored /\ FirstBlock

\* The empty file.
LEMMA EmptyPrefix == FilePrefix(0) = <<>> /\ Len(<<>>) = 0
  BY DEF FilePrefix

\* The tail never makes a session new.
LEMMA EpilogueRuns ==
  ASSUME NEW jobs, NEW f, Epilogue(jobs, f)
  PROVE  status' # "new"
  BY DEF Epilogue, FetchFails, NoFetch

\* A step that takes no block keeps the write invariant.
LEMMA NoBlockTaken ==
  ASSUME WriteFacts, UNCHANGED <<request, fd, written>>,
         status' = "new" => status = "new",
         request.type = "read" \/
           /\ UNCHANGED <<blocks, expected_sequence_number, options_acknowledged>>
           /\ should_close => should_close'
           /\ should_close' /\ ~error_occurred' => should_close /\ ~error_occurred
  PROVE  WriteFacts'
  <1>1. \E n \in Nat : written' = FilePrefix(n)
    BY DEF WriteFacts
  <1>2. NothingStored'
    BY Zenon DEF WriteFacts, NothingStored
  <1>3. CASE request.type = "read"
    <2>1. request'.type # "write"
      BY <1>3
    <2>2. StoredSoFar' /\ FirstBlock'
      BY <2>1, Zenon DEF StoredSoFar, FirstBlock
    <2> QED BY <1>1, <1>2, <2>2 DEF WriteFacts
  <1>4. CASE request.type # "read"
    <2>1. StoredSoFar'
      BY <1>4, Zenon DEF WriteFacts, StoredSoFar
    <2>2. FirstBlock'
      BY <1>4, Zenon DEF WriteFacts, FirstBlock, OptionsPending, valid_options_required
    <2> QED BY <1>1, <1>2, <2>1, <2>2 DEF WriteFacts
  <1> QED BY <1>3, <1>4

\* EVENT_START stores nothing.
LEMMA StartWrites ==
  ASSUME SessionInv, WriteFacts, Start
  PROVE  WriteFacts'
  <1>1. /\ status = "new" /\ request' = request /\ written' = written /\ blocks' = blocks
        /\ expected_sequence_number' = expected_sequence_number
        /\ should_close' = ~request.valid
    BY DEF Start, start, is_request_valid, windowVars, writeVars
  <1>2. fd' = "file" => request.valid
    BY DEF Start, start, FileOpens, is_request_valid
  <1>3. written = <<>> /\ (request.type = "write" => blocks = 0 /\ expected_sequence_number = 1)
    BY <1>1, Zenon DEF WriteFacts, NothingStored, FirstBlock
  <1>4. \E n \in Nat : written' = FilePrefix(n)
    BY <1>1 DEF WriteFacts
  <1>5. request.type = "write" => Len(written') = blocks' * BlockSize
    BY <1>1, <1>3, EmptyPrefix, PacketAssumption
  <1>6. StoredSoFar'
    BY <1>1, <1>2, <1>5, Zenon DEF StoredSoFar
  <1>7. NothingStored' /\ FirstBlock'
    BY <1>1, <1>3, Zenon DEF NothingStored, FirstBlock
  <1> QED BY <1>4, <1>6, <1>7 DEF WriteFacts

\* A distance that leads from a block number to itself is zero.
LEMMA OnlyZeroStays ==
  ASSUME NEW e \in Block, NEW x \in 0 .. BlockMod - 1, Plus(e, x) = e \/ Minus(e, x) = e
  PROVE  x = 0
  BY BlockModAssumption DEF Plus, Minus, Block

\* Of the blocks a client may have under way the expected number names the next one.
LEMMA NextBlockTaken ==
  ASSUME SessionInv, WriteFacts, status = "idle", NEW p \in ClientPackets,
         p.op = "DATA", request.type = "write", DataExpected(p.block)
  PROVE  /\ blocks + 1 \in 1 .. LastBlock /\ p.data = FileBlock(blocks + 1)
         /\ p.block = expected_sequence_number
  <1>1. p \in ClientData
    BY DEF ClientPackets, Packet
  <1> DEFINE K == { j \in 1 .. LastBlock : j + MaxAge > blocks /\ j <= blocks + request.window }
             Number(k) == IF k <= blocks
                          THEN Minus(expected_sequence_number, blocks + 1 - k)
                          ELSE Plus(expected_sequence_number, k - blocks - 1)
  <1>2. PICK k \in K : p = Packet("DATA", Number(k), FileBlock(k))
    BY <1>1 DEF ClientData
  <1>3. /\ k \in 1 .. LastBlock /\ k + MaxAge > blocks /\ k <= blocks + request.window
        /\ p.block = Number(k) /\ p.data = FileBlock(k)
    BY <1>2 DEF Packet
  <1>4. p.block = expected_sequence_number
    BY Zenon DEF DataExpected, WriteFacts, FirstBlock
  <1>5. /\ blocks \in Nat /\ expected_sequence_number \in Block
        /\ request.window \in 1 .. BlockMod - 1
    BY SessionAssumption DEF SessionInv, TypeOK, ServerRequest
  <1>6. LastBlock \in Nat
    <2>1. FileLen \div BlockSize \in Nat
      BY PacketAssumption, DivMod
    <2> QED BY <2>1 DEF LastBlock
  <1>7. MaxAge \in Nat /\ MaxAge + 1 < BlockMod
    BY SessionAssumption
  <1> DEFINE w == request.window
             e == expected_sequence_number
  <1>8. w \in 1 .. BlockMod - 1 /\ e \in Block /\ k <= blocks + w
    BY <1>3, <1>5
  <1>9. Number(k) = e
    BY <1>3, <1>4
  <1> HIDE DEF w, e
  <1>10. CASE k <= blocks
    <2>1. Minus(e, blocks + 1 - k) = e
      BY <1>9, <1>10 DEF e
    <2>2. blocks + 1 - k \in 1 .. BlockMod - 1
      BY <1>3, <1>5, <1>6, <1>7, <1>10, BlockModAssumption
    <2>3. blocks + 1 - k = 0
      BY <1>8, <2>1, <2>2, OnlyZeroStays
    <2> QED BY <2>2, <2>3
  <1>11. CASE k > blocks
    <2>1. Plus(e, k - blocks - 1) = e
      BY <1>3, <1>5, <1>6, <1>9, <1>11 DEF e
    <2>2. k - blocks - 1 \in 0 .. BlockMod - 1
      BY <1>3, <1>5, <1>6, <1>8, <1>11, BlockModAssumption
    <2>3. k - blocks - 1 = 0
      BY <1>8, <2>1, <2>2, OnlyZeroStays
    <2>4. k = blocks + 1
      BY <1>3, <1>5, <1>6, <2>3
    <2> QED BY <1>3, <1>4, <2>4
  <1> QED BY <1>3, <1>5, <1>6, <1>10, <1>11

\* The expected block is appended where the file goes on.
LEMMA DataWrites ==
  ASSUME SessionInv, WriteFacts, Receiving, NEW p \in ClientPackets, DataReceived(p)
  PROVE  WriteFacts'
  <1>1. /\ status = "idle" /\ ~should_close /\ request' = request /\ fd' = fd
        /\ p.op = "DATA" /\ request.type = "write" /\ DataExpected(p.block)
        /\ options_acknowledged' = (options_acknowledged \/ (OptionsPending /\ p.block = 1))
        /\ written' = (IF fd = "file" THEN written \o p.data ELSE written)
        /\ blocks' = blocks + 1 /\ should_close' = (Len(p.data) < BlockSize)
    BY DEF DataReceived, Receiving
  <1>2. \E jobs, f : Epilogue(jobs, f)
    BY DEF DataReceived
  <1>3. status' # "new"
    BY <1>2, EpilogueRuns
  <1>4. /\ blocks + 1 \in 1 .. LastBlock /\ p.data = FileBlock(blocks + 1)
        /\ p.block = expected_sequence_number
    BY <1>1, NextBlockTaken
  <1>5. blocks \in Nat
    BY Zenon DEF SessionInv, TypeOK
  <1>6. OptionsPending => p.block = 1
    BY <1>1, <1>4, Zenon DEF WriteFacts, FirstBlock
  <1>7. FirstBlock'
    <2>1. ~OptionsPending'
      BY <1>1, <1>6, Zenon DEF OptionsPending, valid_options_required
    <2> QED BY <1>3, <2>1, Zenon DEF FirstBlock
  <1>8. CASE fd # "file"
    <2>1. written' = written /\ fd' # "file"
      BY <1>1, <1>8
    <2>2. written = <<>>
      BY <1>8, Zenon DEF WriteFacts, NothingStored
    <2>3. NothingStored' /\ StoredSoFar'
      BY <2>1, <2>2, Zenon DEF NothingStored, StoredSoFar
    <2> QED BY <1>7, <2>1, <2>3 DEF WriteFacts
  <1>9. CASE fd = "file"
    <2> DEFINE d == p.data
               n == blocks * BlockSize
    <2>1. Len(written) = n
      BY <1>1, <1>9, Zenon DEF WriteFacts, StoredSoFar
    <2>2. PICK m \in Nat : written = FilePrefix(m)
      BY DEF WriteFacts
    <2>3. n \in Nat /\ written = FilePrefix(n)
      BY <2>1, <2>2, PrefixIsSequence
    <2>4. /\ d \in Seq(Nat) /\ Len(d) = Least(BlockSize, FileLen - n) /\ n \in 0 .. FileLen
          /\ \A i \in 1 .. Len(d) : d[i] = n + i
      <3>1. \A b \in Nat : (b + 1) - 1 = b
        OBVIOUS
      <3>2. (blocks + 1) - 1 = blocks
        BY <1>5, <3>1
      <3>3. /\ ((blocks + 1) - 1) * BlockSize \in 0 .. FileLen
            /\ FileBlock(blocks + 1) \in Seq(Nat)
            /\ Len(FileBlock(blocks + 1))
                 = Least(BlockSize, FileLen - ((blocks + 1) - 1) * BlockSize)
            /\ \A i \in 1 .. Len(FileBlock(blocks + 1)) :
                 FileBlock(blocks + 1)[i] = ((blocks + 1) - 1) * BlockSize + i
        BY <1>4, BlockBytes
      <3> QED BY <1>4, <3>2, <3>3, Zenon
    <2>5. (blocks + 1) * BlockSize = n + BlockSize
      BY <1>5, PacketAssumption
    <2>6. written' = written \o d
      BY <1>1, <1>9
    <2> HIDE DEF d, n
    <2>7. written' = FilePrefix(n + Len(d)) /\ n + Len(d) \in Nat
      <3>1. FilePrefix(n) \o d = FilePrefix(n + Len(d))
        BY <2>3, <2>4, PrefixGrows
      <3>2. Len(d) \in Nat
        BY <2>4
      <3> QED BY <2>3, <2>6, <3>1, <3>2
    <2>8. Len(written') = n + Len(d)
      BY <2>7, PrefixIsSequence
    <2>9. StoredSoFar'
      <3>1. should_close' <=> Len(d) < BlockSize
        BY <1>1 DEF d
      <3>2. ~(Len(d) < BlockSize) => n + Len(d) = (blocks + 1) * BlockSize
        BY <2>3, <2>4, <2>5, PacketAssumption DEF Least
      <3>3. Len(d) < BlockSize => n + Len(d) = FileLen
        BY <2>3, <2>4, PacketAssumption DEF Least
      <3> QED BY <1>1, <2>8, <3>1, <3>2, <3>3, Zenon DEF StoredSoFar
    <2>10. NothingStored'
      BY <1>1, <1>3, <1>9 DEF NothingStored
    <2> QED BY <1>7, <2>7, <2>9, <2>10 DEF WriteFacts
  <1> QED BY <1>8, <1>9

\* Every step keeps the write invariant.
LEMMA NextWrites ==
  ASSUME SessionInv, SessionInv', WriteFacts, [SessionNext]_sessionVars
  PROVE  WriteFacts'
  <1>1. CASE Untouched
    BY <1>1, NoBlockTaken DEF Untouched, writeVars, windowVars
  <1>2. CASE Start
    BY <1>2, StartWrites
  <1>3. CASE KeepsBuffers
    <2>1. Quiet /\ status' # "new"
      BY <1>3, EpilogueRuns DEF KeepsBuffers
    <2> QED BY <2>1, NoBlockTaken DEF Quiet, writeVars, windowVars
  <1>4. CASE ReadsOn
    <2>1. Quiet /\ status' # "new"
      BY <1>4, EpilogueRuns DEF ReadsOn, ReadFailed, ReadIncomplete
    <2> QED BY <2>1, NoBlockTaken DEF Quiet, writeVars, windowVars
  <1>5. CASE BlockReady
    <2>1. request.type = "read" /\ UNCHANGED <<request, fd, written>>
      BY <1>5, ReadInFlight DEF BlockReady, Reading, writeVars
    <2>2. status' # "new"
      BY <1>5, EpilogueRuns DEF BlockReady, NetasciiBlockReady, ReadComplete, SendBlock
    <2> QED BY <2>1, <2>2, NoBlockTaken
  <1>6. ASSUME NEW p \in ClientPackets, Receiving, AckReceived(p)
        PROVE  WriteFacts'
    <2>1. request.type = "read" /\ UNCHANGED <<request, fd, written>>
      BY <1>6 DEF AckReceived, Receiving, writeVars
    <2>2. status' # "new"
      BY <1>6, EpilogueRuns DEF AckReceived
    <2> QED BY <2>1, <2>2, NoBlockTaken
  <1>7. ASSUME NEW p \in ClientPackets, Receiving, DataReceived(p)
        PROVE  WriteFacts'
    BY <1>7, DataWrites
  <1> QED
    BY <1>1, <1>2, <1>3, <1>4, <1>5, <1>6, <1>7, StepKinds

\* Nothing has been stored yet.
LEMMA InitWrites == SessionInit => WriteFacts
  <1> SUFFICES ASSUME SessionInit PROVE WriteFacts
    OBVIOUS
  <1>1. written = <<>> /\ blocks = 0 /\ expected_sequence_number = 1 /\ fd = "zero"
    BY DEF SessionInit
  <1>2. \E n \in Nat : written = FilePrefix(n)
    BY <1>1, EmptyPrefix
  <1> QED BY <1>1, <1>2 DEF WriteFacts, StoredSoFar, NothingStored, FirstBlock

\* The facts about what has been stored always hold.
LEMMA WritesInvariant == SessionSpec => [](ReadFacts /\ WriteFacts)
  <1>1. SessionInit => SessionInv /\ ReadFacts /\ WriteFacts
    BY InitInv, InitReads, InitWrites
  <1>2. (SessionInv /\ ReadFacts /\ WriteFacts) /\ [SessionNext]_sessionVars
          => (SessionInv /\ ReadFacts /\ WriteFacts)'
    BY NextInv, NextReads, NextWrites
  <1> QED
    BY <1>1, <1>2, PTL DEF SessionSpec

\* What a write session stored is always a prefix of the client's file, although blocks
\* arrive twice, late or out of order and their numbers wrap, and the whole file once it
\* closes without an error.
THEOREM StoredIsPrefix == SessionSpec => []WrittenIsPrefix
  <1>1. ReadFacts /\ WriteFacts => WrittenIsPrefix
    <2> SUFFICES ASSUME ReadFacts, WriteFacts PROVE WrittenIsPrefix
      OBVIOUS
    <2>1. PICK n \in Nat : written = FilePrefix(n)
      BY DEF WriteFacts
    <2>2. written = FilePrefix(Len(written))
      BY <2>1, PrefixIsSequence
    <2>3. status = "closed" /\ request.type = "write" /\ fd = "file" /\ ~error_occurred
            => Len(written) = FileLen
      BY Zenon DEF ReadFacts, ClosedIsClosing, WriteFacts, StoredSoFar
    <2> QED BY <2>2, <2>3 DEF WrittenIsPrefix
  <1> QED
    BY <1>1, WritesInvariant, PTL

-----------------------------------------------------------------------------
(* What a read session sends.  ACKs arrive in the order in which they were sent: *)
(* an old ACK accepted by an empty window would move the window back over blocks *)
(* whose buffers are gone.                                                       *)

Unacknowledged == Dist(window_begin, next_data_packet_to_send)

\* The bytes of block k, and the buffer its number selects in a window of w.
BlockLength(k) == Least(BlockSize, FileLen - (k - 1) * BlockSize)
BufferOf(k, w) == Pred(k % BlockMod) % w

\* The buffers hold the first size bytes of block k ...
HoldBytes(slots, w, k, size) ==
  \A i \in 1 .. size : slots[BufferOf(k, w)].data[i] = (k - 1) * BlockSize + i

\* ... and the last u of b blocks, each under its number.
HoldBlocks(slots, w, b, u) ==
  \A k \in b - u + 1 .. b :
    /\ slots[BufferOf(k, w)].block = k % BlockMod
    /\ HoldBytes(slots, w, k, BlockLength(k))

\* b blocks have been sent; the offset is where they end, or the bytes of the next one.
OffsetFits(fetching, size, incomplete, offset, last, b, closing) ==
  /\ last # -1 => b >= 1 /\ size < BlockSize /\ (b - 1) * BlockSize + size = FileLen
  /\ last = -1 =>
       /\ b * BlockSize <= FileLen
       /\ fetching \/ incomplete => offset = b * BlockSize + size
       /\ ~fetching /\ ~incomplete /\ ~closing => offset = b * BlockSize
       /\ fetching => ~incomplete
       /\ request.mode # "octet" =>
            ~incomplete /\ (fetching => size = BlockLength(b + 1))

\* The window never holds more blocks than there are buffers, and none is fetched into
\* a full one.
WindowFits ==
  /\ Unacknowledged <= window_size
  /\ is_fetching_data => Unacknowledged + 1 <= window_size

\* Block numbers count the blocks; only an open file has any.
Numbered ==
  /\ request.type = "read" =>
       /\ next_data_packet_to_send = (blocks + 1) % BlockMod
       /\ Unacknowledged <= blocks
       /\ fd # "file" => blocks = 0
  /\ fd = "file" => request.mode # "invalid"
  /\ status = "new" => file_offset = 0 /\ ~incomplete_read

OffsetsMatch ==
  request.type = "read" /\ fd = "file" =>
    OffsetFits(is_fetching_data, last_block_size, incomplete_read, file_offset,
               last_packet, blocks, should_close)

\* What has been read of the next block is in its buffer.
NextBlockHeld ==
  /\ request.type = "read" /\ fd = "file" /\ last_packet = -1
  /\ is_fetching_data \/ incomplete_read
  => /\ HoldBytes(data_packets, window_size, blocks + 1, last_block_size)
     /\ request.mode # "octet" =>
          data_packets[BufferOf(blocks + 1, window_size)].block = next_data_packet_to_send

\* The blocks of the window are in their buffers.
WindowHeld ==
  request.type = "read" /\ NumberingIsSafe =>
    HoldBlocks(data_packets, window_size, blocks, Unacknowledged)

TransferFacts == WindowFits /\ Numbered /\ OffsetsMatch /\ NextBlockHeld /\ WindowHeld

\* A window with room for the number n is one longer than the distance.
LEMMA RoomInWindow ==
  ASSUME NEW n \in Block, NEW b \in Block, NEW w \in 1 .. BlockMod - 1,
         is_in_range(n, b, Plus(b, w - 1))
  PROVE  Dist(b, n) + 1 <= w
  BY BlockModAssumption DEF Plus, Minus, Dist, Block, is_in_range

\* The buffer of a block, while its number tells it apart.
LEMMA BufferIndex ==
  ASSUME NEW k \in Nat, k >= 1, NEW w \in 1 .. BlockMod - 1,
         BlockMod % w = 0 \/ k - 1 < BlockMod
  PROVE  BufferOf(k, w) = (k - 1) % w
  <1>1. k - 1 \in Nat /\ BlockMod \in Nat \ {0} /\ w \in Nat \ {0} /\ 1 \in 0 .. BlockMod - 1
    BY BlockModAssumption
  <1>2. Pred(k % BlockMod) = (k - 1) % BlockMod
    BY <1>1, BackMod DEF Pred
  <1> DEFINE j == k - 1
  <1>3. j \in Nat
    BY <1>1
  <1> HIDE DEF j
  <1>4. CASE BlockMod % w = 0
    <2>1. (j % BlockMod) % w = j % w
      BY <1>1, <1>3, <1>4, ModMod
    <2> QED BY <1>2, <2>1 DEF BufferOf, j
  <1>5. CASE j < BlockMod
    <2>1. j = BlockMod * 0 + j /\ j \in 0 .. BlockMod - 1
      BY <1>1, <1>3, <1>5
    <2>2. j % BlockMod = j
      BY <1>1, <1>3, <2>1, RemainderUnique
    <2> QED BY <1>2, <2>2 DEF BufferOf, j
  <1> QED BY <1>4, <1>5 DEF j

\* Blocks of one window have different buffers.
LEMMA BuffersApart ==
  ASSUME NEW k \in Nat, NEW m \in Nat, k >= 1, k < m, NEW w \in 1 .. BlockMod - 1, m - k < w,
         BlockMod % w = 0 \/ m - 1 < BlockMod
  PROVE  BufferOf(k, w) # BufferOf(m, w)
  <1>1. BufferOf(k, w) = (k - 1) % w /\ BufferOf(m, w) = (m - 1) % w
    <2>1. BlockMod % w = 0 \/ k - 1 < BlockMod
      BY BlockModAssumption
    <2>2. m >= 1
      OBVIOUS
    <2> QED BY <2>1, <2>2, BufferIndex
  <1>2. k - 1 \in Nat /\ m - 1 \in Nat /\ k - 1 < m - 1 /\ (m - 1) - (k - 1) < w
        /\ w \in Nat \ {0}
    OBVIOUS
  <1>3. (k - 1) % w # (m - 1) % w
    BY <1>2, ModApart
  <1> QED BY <1>1, <1>3

\* The numbers of the blocks in the window.
LEMMA WindowNumber ==
  ASSUME NEW b \in Nat, NEW begin \in Block, NEW next \in Block, next = (b + 1) % BlockMod,
         NEW u \in Nat, u = Dist(begin, next), u <= b, NEW i \in 1 .. u
  PROVE  Plus(begin, i - 1) = (b - u + i) % BlockMod
  <1>1. u \in 0 .. BlockMod - 1
    BY BlockModAssumption DEF Dist, Minus, Block
  <1>2. begin = Minus(next, u)
    BY BlockModAssumption DEF Dist, Minus, Block
  <1>3. begin = (b + 1 - u) % BlockMod
    <2>1. b + 1 \in Nat /\ u <= b + 1
      OBVIOUS
    <2>2. Minus((b + 1) % BlockMod, u) = (b + 1 - u) % BlockMod
      BY <1>1, <2>1, BackMod
    <2> QED BY <1>2, <2>2
  <1> DEFINE a == b + 1 - u
             j == i - 1
  <1>4. a \in Nat /\ j \in 0 .. BlockMod - 1 /\ a + j = b - u + i
    BY <1>1, BlockModAssumption
  <1>5. Plus(a % BlockMod, j) = (a + j) % BlockMod
    BY <1>4, NextMod
  <1> QED BY <1>3, <1>4, <1>5

\* A block sent or expected is number by number.
LEMMA NextNumber ==
  ASSUME NEW b \in Nat
  PROVE  /\ b % BlockMod \in Block
         /\ Succ(b % BlockMod) = (b + 1) % BlockMod
  <1>1. BlockMod \in Nat \ {0} /\ 1 \in 0 .. BlockMod - 1
    BY BlockModAssumption
  <1>2. b % BlockMod \in Block
    BY <1>1, DivMod DEF Block
  <1> QED BY <1>1, <1>2, NextMod DEF Succ

\* As many bytes as a block has.
LEMMA BlockLengths ==
  ASSUME NEW b \in Nat, b * BlockSize <= FileLen
  PROVE  /\ BlockLength(b + 1) = Least(BlockSize, FileLen - b * BlockSize)
         /\ BlockLength(b + 1) \in 0 .. BlockSize
         /\ \A k \in 1 .. b : BlockLength(k) = BlockSize
         /\ (b + 1) * BlockSize = b * BlockSize + BlockSize
         /\ b * BlockSize \in Nat
  <1>0. b * BlockSize \in Nat /\ BlockSize \in Nat \ {0} /\ FileLen \in Nat
    BY PacketAssumption
  <1>1. \A x \in Nat : (x + 1) - 1 = x
    OBVIOUS
  <1>2. BlockLength(b + 1) = Least(BlockSize, FileLen - b * BlockSize)
    BY <1>1 DEF BlockLength
  <1>3. BlockLength(b + 1) \in 0 .. BlockSize
    BY <1>0, <1>2 DEF Least
  <1>4. ASSUME NEW k \in 1 .. b PROVE BlockLength(k) = BlockSize
    <2> DEFINE c == k * BlockSize
               d == b * BlockSize
    <2>1. c <= d /\ (k - 1) * BlockSize = c - BlockSize /\ c \in Nat
      BY <1>0
    <2>2. d \in Nat /\ d <= FileLen
      BY <1>0
    <2> HIDE DEF c, d
    <2>3. FileLen - (c - BlockSize) >= BlockSize
      BY <1>0, <2>1, <2>2
    <2> QED BY <1>0, <2>1, <2>3 DEF BlockLength, Least
  <1>5. (b + 1) * BlockSize = b * BlockSize + BlockSize
    BY <1>0
  <1> QED BY <1>0, <1>2, <1>3, <1>4, <1>5

\* Writing into the buffer of the next block leaves the window alone.
LEMMA WindowKept ==
  ASSUME NEW b \in Nat, NEW u \in Nat, u <= b, NEW w \in 1 .. BlockMod - 1, u + 1 <= w,
         NEW slots, NEW slots2, BlockMod % w = 0 \/ b < BlockMod,
         HoldBlocks(slots, w, b, u),
         \A k \in 1 .. b : BufferOf(k, w) # BufferOf(b + 1, w) =>
            slots2[BufferOf(k, w)] = slots[BufferOf(k, w)]
  PROVE  HoldBlocks(slots2, w, b, u)
  <1>1. ASSUME NEW k \in b - u + 1 .. b
        PROVE  slots2[BufferOf(k, w)] = slots[BufferOf(k, w)]
    <2>1. /\ k \in Nat /\ k >= 1 /\ b + 1 \in Nat /\ k < b + 1 /\ (b + 1) - k < w
          /\ (b + 1) - 1 = b /\ k \in 1 .. b
      BY BlockModAssumption
    <2>2. BlockMod % w = 0 \/ (b + 1) - 1 < BlockMod
      BY <2>1
    <2>3. BufferOf(k, w) # BufferOf(b + 1, w)
      BY <2>1, <2>2, BuffersApart
    <2> QED BY <2>1, <2>3
  <1> QED BY <1>1, Zenon DEF HoldBlocks, HoldBytes

\* A block more in the window.
LEMMA WindowGrows ==
  ASSUME NEW b \in Nat, NEW u \in Nat, u <= b, NEW w, NEW slots, HoldBlocks(slots, w, b, u),
         slots[BufferOf(b + 1, w)].block = (b + 1) % BlockMod,
         HoldBytes(slots, w, b + 1, BlockLength(b + 1))
  PROVE  HoldBlocks(slots, w, b + 1, u + 1)
  <1> SUFFICES ASSUME NEW k \in (b + 1) - (u + 1) + 1 .. b + 1
               PROVE  /\ slots[BufferOf(k, w)].block = k % BlockMod
                      /\ HoldBytes(slots, w, k, BlockLength(k))
    BY DEF HoldBlocks
  <1>1. k = b + 1 \/ k \in b - u + 1 .. b
    OBVIOUS
  <1> QED BY <1>1, Zenon DEF HoldBlocks

\* Blocks that have been acknowledged leave the window.
LEMMA WindowShrinks ==
  ASSUME NEW b \in Nat, NEW u \in Nat, NEW v \in Nat, v <= u, NEW w, NEW slots,
         HoldBlocks(slots, w, b, u)
  PROVE  HoldBlocks(slots, w, b, v)
  <1> SUFFICES ASSUME NEW k \in b - v + 1 .. b
               PROVE  k \in b - u + 1 .. b
    BY Zenon DEF HoldBlocks
  <1> QED OBVIOUS

\* What the body of an event's case must leave for the tail.
BodyBlocks(f) ==
  /\ request' = request
  /\ Unacknowledged' <= window_size'
  /\ f.fetching => Unacknowledged' + 1 <= window_size'
  /\ request.type = "read" =>
       /\ next_data_packet_to_send' = (blocks' + 1) % BlockMod
       /\ Unacknowledged' <= blocks'
       /\ fd' # "file" => blocks' = 0
  /\ fd' = "file" => request.mode # "invalid"
  /\ request.type = "read" /\ fd' = "file" =>
       OffsetFits(f.fetching, f.size, f.incomplete, f.offset,
                  last_packet', blocks', should_close')
  /\ request.type = "read" /\ fd' = "file" /\ last_packet' = -1
     /\ (f.fetching \/ f.incomplete) =>
       /\ HoldBytes(f.slots, window_size', blocks' + 1, f.size)
       /\ request.mode # "octet" =>
            f.slots[BufferOf(blocks' + 1, window_size')].block = next_data_packet_to_send'
  /\ request.type = "read" /\ NumberingIsSafe' =>
       HoldBlocks(f.slots, window_size', blocks', Unacknowledged')

\* The window and its distance are numbers.
WindowTypes ==
  /\ window_size \in 1 .. BlockMod - 1 /\ window_size \in {1, request.window}
  /\ Unacknowledged \in 0 .. BlockMod - 1 /\ blocks \in Nat
  /\ window_begin \in Block /\ next_data_packet_to_send \in Block
  /\ \A n \in Block : Pred(n) % window_size \in 0 .. request.window - 1

\* They are in every well typed state ...
LEMMA WindowTyped == TypeOK => WindowTypes
  <1> SUFFICES ASSUME TypeOK PROVE WindowTypes
    OBVIOUS
  <1>1. window_begin \in Block /\ next_data_packet_to_send \in Block /\ blocks \in Nat
        /\ request \in ServerRequest
    BY SessionAssumption DEF TypeOK
  <1>2. window_size \in {1, request.window}
    BY DEF window_size
  <1>3. Unacknowledged \in 0 .. BlockMod - 1
    BY <1>1, BlockModAssumption DEF Unacknowledged, Dist, Minus, Block
  <1>4. window_size \in 1 .. BlockMod - 1
    BY <1>1, <1>2, BlockModAssumption DEF ServerRequest
  <1>5. \A n \in Block : Pred(n) % window_size \in 0 .. request.window - 1
    BY <1>1, <1>2, SlotExists
  <1> QED BY <1>1, <1>2, <1>3, <1>4, <1>5 DEF WindowTypes

\* ... and so in the next one.
LEMMA WindowTypedNext == TypeOK' => WindowTypes'
  BY WindowTyped, PTL

\* Nothing is fetched.
LEMMA FetchesNothingBlocks ==
  ASSUME SessionInv', NEW jobs, NEW f \in FetchRecord, BodyBlocks(f), status' # "new",
         FetchesNothing(jobs, f)
  PROVE  TransferFacts'
  <1>1. /\ is_fetching_data' = (f.fetching \/ ShouldFetch(f))
        /\ last_block_size' = f.size /\ incomplete_read' = f.incomplete
        /\ data_packets' = f.slots /\ file_offset' = f.offset /\ request' = request
    BY Zenon DEF FetchesNothing, BodyBlocks
  <1>2. ShouldFetch(f) => Unacknowledged' + 1 <= window_size'
    <2>1. /\ window_size' \in 1 .. BlockMod - 1 /\ window_begin' \in Block
          /\ next_data_packet_to_send' \in Block
      BY WindowTypedNext DEF SessionInv, WindowTypes
    <2>2. SUFFICES ASSUME ShouldFetch(f) PROVE Unacknowledged' + 1 <= window_size'
      OBVIOUS
    <2>3. is_in_range(next_data_packet_to_send', window_begin',
                      Plus(window_begin', window_size' - 1))
      BY <2>2, Zenon DEF ShouldFetch
    <2>4. Dist(window_begin', next_data_packet_to_send') + 1 <= window_size'
      BY <2>1, <2>3, RoomInWindow, Zenon
    <2> QED BY <2>4, Zenon DEF Unacknowledged
  <1>3. ShouldFetch(f) => fd' # "file"
    <2>1. request.mode \in {"octet", "netascii", "invalid"}
      BY <1>1, SessionAssumption DEF SessionInv, TypeOK, ServerRequest
    <2>2. fd' = "file" => request.mode # "invalid"
      BY Zenon DEF BodyBlocks
    <2>3. ShouldFetch(f) => FetchFails(f)
      BY Zenon DEF FetchesNothing, NoFetch
    <2>4. ShouldFetch(f) =>
            request.mode # "octet" /\ ~(request.mode = "netascii" /\ fd' = "file")
      BY <2>3, Zenon DEF FetchFails
    <2> QED BY <2>1, <2>2, <2>4
  <1>4. f.fetching \in BOOLEAN
    BY DEF FetchRecord
  <1>5. is_fetching_data' <=> (f.fetching \/ ShouldFetch(f))
    BY <1>1, <1>4, Zenon
  <1>6. WindowFits' /\ Numbered'
    BY <1>1, <1>2, <1>5, Zenon DEF WindowFits, Numbered, BodyBlocks
  <1>7. fd' = "file" => is_fetching_data' = f.fetching
    BY <1>1, <1>3, <1>4, Zenon
  <1>8. OffsetsMatch' /\ NextBlockHeld' /\ WindowHeld'
    BY <1>1, <1>7, Zenon DEF OffsetsMatch, NextBlockHeld, WindowHeld, OffsetFits, BodyBlocks
  <1> QED BY <1>6, <1>8 DEF TransferFacts

\* A read of what is missing of a block starts where the offset is.
LEMMA OctetFits ==
  ASSUME NEW b \in Nat, NEW size \in 0 .. BlockSize, NEW incomplete \in BOOLEAN,
         NEW offset, request.mode = "octet",
         OffsetFits(FALSE, size, incomplete, offset, -1, b, FALSE)
  PROVE  OffsetFits(TRUE, IF incomplete THEN size ELSE 0, FALSE, offset, -1, b, FALSE)
  <1>1. /\ b * BlockSize <= FileLen
        /\ incomplete => offset = b * BlockSize + size
        /\ ~incomplete => offset = b * BlockSize
    BY DEF OffsetFits
  <1>2. b * BlockSize \in Nat
    BY PacketAssumption
  <1> DEFINE new == IF incomplete THEN size ELSE 0
  <1>3. offset = b * BlockSize + new
    <2>1. CASE incomplete
      BY <1>1, <2>1
    <2>2. CASE ~incomplete
      BY <1>1, <1>2, <2>2
    <2> QED BY <2>1, <2>2
  <1> HIDE DEF new
  <1>4. OffsetFits(TRUE, new, FALSE, offset, -1, b, FALSE)
    BY <1>1, <1>3 DEF OffsetFits
  <1> QED BY <1>4 DEF new

\* The encoder takes the whole of the next block from the offset on.
LEMMA NetasciiFits ==
  ASSUME NEW b \in Nat, NEW size, NEW incomplete \in BOOLEAN, NEW offset,
         request.mode = "netascii",
         OffsetFits(FALSE, size, incomplete, offset, -1, b, FALSE)
  PROVE  LET new == Least(BlockSize, FileLen - offset)
         IN  /\ b * BlockSize <= FileLen /\ ~incomplete /\ offset = b * BlockSize
             /\ new = BlockLength(b + 1) /\ new \in 0 .. BlockSize
             /\ OffsetFits(TRUE, new, FALSE, offset + new, -1, b, FALSE)
  <1>1. b * BlockSize <= FileLen /\ ~incomplete /\ offset = b * BlockSize
    BY DEF OffsetFits
  <1> DEFINE new == Least(BlockSize, FileLen - offset)
  <1>2. new = BlockLength(b + 1) /\ new \in 0 .. BlockSize
    BY <1>1, BlockLengths
  <1> HIDE DEF new
  <1>3. OffsetFits(TRUE, new, FALSE, offset + new, -1, b, FALSE)
    BY <1>1, <1>2 DEF OffsetFits
  <1> QED BY <1>1, <1>2, <1>3 DEF new

\* What a fetch finds: the block after the last one, unless it is the rest of it.
LEMMA FetchFinds ==
  ASSUME SessionInv', NEW f \in FetchRecord, BodyBlocks(f), ShouldFetch(f)
  PROVE  /\ request.type = "read" /\ ~f.fetching /\ ~should_close' /\ last_packet' = -1
         /\ request' = request
         /\ Unacknowledged' + 1 <= window_size'
         /\ fd' = "file" =>
              OffsetFits(FALSE, f.size, f.incomplete, f.offset, last_packet', blocks', FALSE)
  <1>1. /\ request.type = "read" /\ ~f.fetching /\ ~should_close' /\ last_packet' = -1
        /\ is_in_range(next_data_packet_to_send', window_begin',
                       Plus(window_begin', window_size' - 1))
    BY Zenon DEF ShouldFetch
  <1>2. /\ window_size' \in 1 .. BlockMod - 1 /\ window_begin' \in Block
        /\ next_data_packet_to_send' \in Block
    BY WindowTypedNext DEF SessionInv, WindowTypes
  <1>3. Unacknowledged' + 1 <= window_size'
    <2>1. Dist(window_begin', next_data_packet_to_send') + 1 <= window_size'
      BY <1>1, <1>2, RoomInWindow, Zenon
    <2> QED BY <2>1, Zenon DEF Unacknowledged
  <1>4. f.fetching = FALSE /\ should_close' = FALSE
    BY <1>1 DEF FetchRecord, SessionInv, TypeOK
  <1>5. fd' = "file" =>
          OffsetFits(FALSE, f.size, f.incomplete, f.offset, last_packet', blocks', FALSE)
    BY <1>1, <1>4, Zenon DEF BodyBlocks
  <1>6. request' = request
    BY DEF BodyBlocks
  <1> QED BY <1>1, <1>3, <1>5, <1>6

\* A read is submitted for what is missing of the next block.
LEMMA FetchesOctetBlocks ==
  ASSUME SessionInv', NEW jobs, NEW f \in FetchRecord, BodyBlocks(f), status' # "new",
         FetchesOctet(jobs, f)
  PROVE  TransferFacts'
  <1>1. /\ ShouldFetch(f) /\ is_fetching_data' = TRUE /\ request.mode = "octet"
        /\ last_block_size' = (IF f.incomplete THEN f.size ELSE 0)
        /\ incomplete_read' = FALSE /\ data_packets' = f.slots /\ file_offset' = f.offset
    BY Zenon DEF FetchesOctet, fetch_data_octet_async
  <1>2. /\ request.type = "read" /\ ~f.fetching /\ ~should_close' /\ last_packet' = -1
        /\ Unacknowledged' + 1 <= window_size' /\ request' = request
        /\ fd' = "file" =>
             OffsetFits(FALSE, f.size, f.incomplete, f.offset, last_packet', blocks', FALSE)
    BY <1>1, FetchFinds
  <1>3. blocks' \in Nat /\ f.incomplete \in BOOLEAN /\ f.size \in 0 .. BlockSize
    BY DEF SessionInv, TypeOK, FetchRecord
  <1>4. WindowFits' /\ Numbered' /\ WindowHeld'
    BY <1>1, <1>2, Zenon DEF WindowFits, Numbered, WindowHeld, BodyBlocks
  <1>5. OffsetsMatch'
    <2>1. should_close' = FALSE
      BY <1>2 DEF SessionInv, TypeOK
    <2>2. fd' = "file" =>
            OffsetFits(TRUE, IF f.incomplete THEN f.size ELSE 0, FALSE, f.offset, -1,
                       blocks', FALSE)
      <3>1. SUFFICES ASSUME fd' = "file"
                     PROVE  OffsetFits(TRUE, IF f.incomplete THEN f.size ELSE 0, FALSE,
                                       f.offset, -1, blocks', FALSE)
        OBVIOUS
      <3>2. OffsetFits(FALSE, f.size, f.incomplete, f.offset, -1, blocks', FALSE)
        BY <1>2, <3>1, Zenon
      <3> QED BY <1>1, <1>3, <3>2, OctetFits
    <2> QED BY <1>1, <1>2, <2>1, <2>2, Zenon DEF OffsetsMatch, OffsetFits
  <1>6. NextBlockHeld'
    <2>1. SUFFICES ASSUME fd' = "file"
                   PROVE  HoldBytes(f.slots, window_size', blocks' + 1, last_block_size')
      BY <1>1, <1>2 DEF NextBlockHeld
    <2>2. CASE f.incomplete
      BY <1>1, <1>2, <2>1, <2>2, Zenon DEF BodyBlocks
    <2>3. CASE ~f.incomplete
      <3>1. last_block_size' = 0
        BY <1>1, <2>3
      <3> QED BY <3>1 DEF HoldBytes
    <2> QED BY <2>2, <2>3
  <1> QED BY <1>4, <1>5, <1>6 DEF TransferFacts

\* The encoder puts the next block into its buffer, in the window's room.
LEMMA FetchesNetasciiBlocks ==
  ASSUME SessionInv', NEW jobs, NEW f \in FetchRecord, BodyBlocks(f), status' # "new",
         FetchesNetascii(jobs, f)
  PROVE  TransferFacts'
  <1> DEFINE n == next_data_packet_to_send'
             w == window_size'
             b == blocks'
             u == Unacknowledged'
             size == Least(BlockSize, FileLen - f.offset)
             s == Pred(n) % w
             fill == [i \in 1 .. BlockSize |->
                        IF i <= size THEN f.offset + i ELSE f.slots[s].data[i]]
  <1>1. /\ ShouldFetch(f) /\ is_fetching_data' = TRUE /\ request.mode = "netascii"
        /\ fd' = "file" /\ last_block_size' = size /\ incomplete_read' = f.incomplete
        /\ data_packets' = [f.slots EXCEPT ![s] = [block |-> n, data |-> fill]]
        /\ file_offset' = f.offset + size
    BY Zenon DEF FetchesNetascii, fetch_data_netascii_async
  <1>2. /\ request.type = "read" /\ ~f.fetching /\ ~should_close' /\ last_packet' = -1
        /\ u + 1 <= w /\ request' = request
        /\ OffsetFits(FALSE, f.size, f.incomplete, f.offset, last_packet', b, FALSE)
    BY <1>1, FetchFinds
  <1>3. /\ w \in 1 .. BlockMod - 1 /\ b \in Nat /\ u \in Nat /\ n \in Block
        /\ s \in 0 .. request.window - 1 /\ f.slots \in [0 .. request.window - 1 -> Slot]
    <2>1. /\ w \in 1 .. BlockMod - 1 /\ b \in Nat /\ u \in 0 .. BlockMod - 1 /\ n \in Block
          /\ \A x \in Block : Pred(x) % w \in 0 .. request'.window - 1
      BY WindowTypedNext DEF SessionInv, WindowTypes
    <2>2. u \in Nat
      BY <2>1, BlockModAssumption
    <2>3. f.slots \in [0 .. request.window - 1 -> Slot]
      BY DEF FetchRecord
    <2> QED BY <1>2, <2>1, <2>2, <2>3, Zenon
  <1>4. n = (b + 1) % BlockMod /\ u <= b /\ (NumberingIsSafe' => HoldBlocks(f.slots, w, b, u))
    BY <1>2, Zenon DEF BodyBlocks
  <1>5. s = BufferOf(b + 1, w)
    BY <1>4 DEF BufferOf
  <1>6. /\ b * BlockSize <= FileLen /\ ~f.incomplete /\ f.offset = b * BlockSize
        /\ size = BlockLength(b + 1) /\ size \in 0 .. BlockSize
        /\ OffsetFits(TRUE, size, FALSE, f.offset + size, -1, b, FALSE)
    <2>1. OffsetFits(FALSE, f.size, f.incomplete, f.offset, -1, b, FALSE)
      BY <1>2, Zenon
    <2>2. f.incomplete \in BOOLEAN
      BY DEF FetchRecord
    <2> HIDE DEF b, n, w, u, s, fill
    <2> QED BY <1>1, <1>3, <2>1, <2>2, NetasciiFits
  <1>7. size = BlockLength(b + 1) /\ size \in 0 .. BlockSize
    BY <1>6
  <1>8. data_packets'[s] = [block |-> n, data |-> fill]
        /\ \A t \in 0 .. request.window - 1 : t # s => data_packets'[t] = f.slots[t]
    <2> HIDE DEF n, w, b, u, size, s, fill
    <2> QED BY <1>1, <1>3
  <1>9. (b + 1) - 1 = b /\ b * BlockSize \in Nat
    BY <1>3, PacketAssumption
  <1>10. HoldBytes(data_packets', w, b + 1, size)
    <2>1. ASSUME NEW i \in 1 .. size PROVE fill[i] = b * BlockSize + i
      <3>1. i \in 1 .. BlockSize /\ i <= size
        BY <1>7, PacketAssumption
      <3> QED BY <1>6, <3>1
    <2>2. \A i \in 1 .. size : data_packets'[s].data[i] = b * BlockSize + i
      <3>1. data_packets'[s].data = fill
        BY <1>8
      <3> HIDE DEF fill
      <3> QED BY <2>1, <3>1
    <2> HIDE DEF n, w, b, u, size, s, fill
    <2> QED BY <1>5, <1>9, <2>2, Zenon DEF HoldBytes
  <1>11. WindowHeld'
    <2>1. SUFFICES ASSUME NumberingIsSafe' PROVE HoldBlocks(data_packets', w, b, u)
      BY <1>2 DEF WindowHeld
    <2>2. BlockMod % w = 0 \/ b < BlockMod
      BY <2>1, Zenon DEF NumberingIsSafe
    <2>3. \A k \in 1 .. b : BufferOf(k, w) # BufferOf(b + 1, w) =>
            data_packets'[BufferOf(k, w)] = f.slots[BufferOf(k, w)]
      <3>1. ASSUME NEW k \in 1 .. b PROVE BufferOf(k, w) \in 0 .. request.window - 1
        <4>1. k % BlockMod \in Block
          <5>1. k \in Nat
            BY <1>3
          <5> QED BY <5>1, NextNumber
        <4>2. \A x \in Block : Pred(x) % w \in 0 .. request'.window - 1
          BY WindowTypedNext DEF SessionInv, WindowTypes
        <4> QED BY <1>2, <4>1, <4>2, Zenon DEF BufferOf
      <3> QED BY <1>5, <1>8, <3>1, Zenon
    <2>4. HoldBlocks(f.slots, w, b, u)
      BY <1>4, <2>1
    <2> HIDE DEF n, w, b, u, size, s, fill
    <2> QED BY <1>2, <1>3, <1>4, <2>2, <2>3, <2>4, WindowKept
  <1>12. OffsetsMatch'
    <2>2. incomplete_read' = FALSE /\ should_close' = FALSE
      BY <1>1, <1>2, <1>6 DEF FetchRecord, SessionInv, TypeOK
    <2> HIDE DEF n, u, s, fill, size, w
    <2> QED BY <1>1, <1>2, <1>6, <2>2, Zenon DEF OffsetsMatch, OffsetFits
  <1>13. NextBlockHeld'
    <2>1. data_packets'[BufferOf(b + 1, w)].block = n
      BY <1>5, <1>8
    <2> HIDE DEF s, fill, size
    <2> QED BY <1>1, <1>2, <1>10, <2>1, Zenon DEF NextBlockHeld
  <1>14. WindowFits' /\ Numbered'
    BY <1>1, <1>2, Zenon DEF WindowFits, Numbered, BodyBlocks
  <1> QED BY <1>11, <1>12, <1>13, <1>14 DEF TransferFacts

\* The tail keeps the facts of the transfer whatever the body of the case was.
LEMMA EpilogueBlocks ==
  ASSUME SessionInv', NEW jobs, NEW f \in FetchRecord, BodyBlocks(f), Epilogue(jobs, f)
  PROVE  TransferFacts'
  BY EpilogueKinds, EpilogueRuns, FetchesOctetBlocks, FetchesNetasciiBlocks,
     FetchesNothingBlocks

\* A body that leaves the window alone leaves the tail what it keeps in the buffers.
LEMMA FrameBlocks ==
  ASSUME TransferFacts, UNCHANGED <<request, fd, windowVars>>, NEW f,
         f.fetching => is_fetching_data,
         request.type = "read" /\ fd = "file" =>
           OffsetFits(f.fetching, f.size, f.incomplete, f.offset, last_packet, blocks,
                      should_close'),
         request.type = "read" /\ fd = "file" /\ last_packet = -1
         /\ (f.fetching \/ f.incomplete) =>
           /\ HoldBytes(f.slots, window_size, blocks + 1, f.size)
           /\ request.mode # "octet" =>
                f.slots[BufferOf(blocks + 1, window_size)].block = next_data_packet_to_send,
         request.type = "read" /\ NumberingIsSafe =>
           HoldBlocks(f.slots, window_size, blocks, Unacknowledged)
  PROVE  BodyBlocks(f)
  <1>1. /\ request' = request /\ fd' = fd /\ window_begin' = window_begin
        /\ next_data_packet_to_send' = next_data_packet_to_send
        /\ last_packet' = last_packet /\ blocks' = blocks
    BY DEF windowVars
  <1>2. window_size' = window_size
    BY <1>1, Zenon DEF window_size
  <1>3. Unacknowledged' = Unacknowledged
    BY <1>1, Zenon DEF Unacknowledged
  <1>4. NumberingIsSafe' => NumberingIsSafe
    BY <1>1, <1>2, Zenon DEF NumberingIsSafe
  <1> QED
    BY <1>1, <1>2, <1>3, <1>4, Zenon
    DEF TransferFacts, WindowFits, Numbered, BodyBlocks

\* The fields of the fetch variables as they are.
LEMMA FetchStateFields ==
  /\ FetchState.fetching = is_fetching_data /\ FetchState.size = last_block_size
  /\ FetchState.incomplete = incomplete_read /\ FetchState.slots = data_packets
  /\ FetchState.offset = file_offset
  BY DEF FetchState

\* EVENT_TIMEOUT, the removals and most packets.
LEMMA KeepsBuffersBlocks ==
  ASSUME SessionInv, SessionInv', TransferFacts, KeepsBuffers
  PROVE  TransferFacts'
  <1>1. /\ UNCHANGED <<request, fd, windowVars>> /\ (should_close => should_close')
        /\ FetchState \in FetchRecord
    BY FetchStateTyped DEF KeepsBuffers, Quiet, SessionInv
  <1>2. PICK jobs \in Jobs : Epilogue(jobs, FetchState)
    BY DEF KeepsBuffers
  <1>3. status' # "new"
    BY <1>2, EpilogueRuns
  <1> DEFINE f == FetchState
  <1>4. /\ f.fetching = is_fetching_data /\ f.size = last_block_size
        /\ f.incomplete = incomplete_read /\ f.slots = data_packets
        /\ f.offset = file_offset
    BY FetchStateFields
  <1> HIDE DEF f
  <1>5. request.type = "read" /\ fd = "file" =>
          OffsetFits(f.fetching, f.size, f.incomplete, f.offset, last_packet, blocks,
                     should_close')
    BY <1>1, <1>4, Zenon DEF TransferFacts, OffsetsMatch, OffsetFits
  <1>6. BodyBlocks(f)
    BY <1>1, <1>4, <1>5, FrameBlocks, Zenon DEF TransferFacts, NextBlockHeld, WindowHeld
  <1> QED BY <1>1, <1>2, <1>6, EpilogueBlocks DEF f

\* The buffer of a block exists.
LEMMA BufferExists ==
  ASSUME TypeOK, NEW k \in Nat
  PROVE  BufferOf(k, window_size) \in 0 .. request.window - 1
  <1>1. k % BlockMod \in Block
    BY NextNumber
  <1>2. \A x \in Block : Pred(x) % window_size \in 0 .. request.window - 1
    BY WindowTyped DEF WindowTypes
  <1> QED BY <1>1, <1>2, Zenon DEF BufferOf

\* What a read in flight of an open file is about.
LEMMA ReadingBlock ==
  ASSUME SessionInv, ReadFacts, TransferFacts, Reading, fd = "file"
  PROVE  /\ request.type = "read" /\ last_packet = -1 /\ blocks \in Nat /\ ~incomplete_read
         /\ Unacknowledged \in Nat /\ Unacknowledged <= blocks
         /\ Unacknowledged + 1 <= window_size /\ window_size \in 1 .. BlockMod - 1
         /\ next_data_packet_to_send = (blocks + 1) % BlockMod
         /\ SlotOf(next_data_packet_to_send) = BufferOf(blocks + 1, window_size)
         /\ blocks * BlockSize <= FileLen
         /\ file_offset = blocks * BlockSize + last_block_size
         /\ HoldBytes(data_packets, window_size, blocks + 1, last_block_size)
         /\ request.mode # "octet" =>
              /\ data_packets[BufferOf(blocks + 1, window_size)].block
                   = next_data_packet_to_send
         /\ NumberingIsSafe => HoldBlocks(data_packets, window_size, blocks, Unacknowledged)
  <1>1. request.type = "read" /\ is_fetching_data
    BY ReadInFlight
  <1>2. last_packet = -1
    BY <1>1, Zenon DEF ReadFacts, LastPacketSent
  <1>3. /\ blocks \in Nat /\ window_size \in 1 .. BlockMod - 1
        /\ Unacknowledged \in 0 .. BlockMod - 1
    BY WindowTyped DEF SessionInv, WindowTypes
  <1>4. Unacknowledged \in Nat
    BY <1>3, BlockModAssumption
  <1>5. /\ Unacknowledged + 1 <= window_size /\ Unacknowledged <= blocks
        /\ next_data_packet_to_send = (blocks + 1) % BlockMod
    BY <1>1, Zenon DEF TransferFacts, WindowFits, Numbered
  <1>6. SlotOf(next_data_packet_to_send) = BufferOf(blocks + 1, window_size)
    BY <1>5, Zenon DEF SlotOf, BufferOf
  <1>7. /\ blocks * BlockSize <= FileLen /\ ~incomplete_read
        /\ file_offset = blocks * BlockSize + last_block_size
    BY <1>1, <1>2, Zenon DEF TransferFacts, OffsetsMatch, OffsetFits
  <1>8. /\ HoldBytes(data_packets, window_size, blocks + 1, last_block_size)
        /\ request.mode # "octet" =>
             data_packets[BufferOf(blocks + 1, window_size)].block = next_data_packet_to_send
    BY <1>1, <1>2, Zenon DEF TransferFacts, NextBlockHeld
  <1>9. NumberingIsSafe => HoldBlocks(data_packets, window_size, blocks, Unacknowledged)
    BY <1>1, Zenon DEF TransferFacts, WindowHeld
  <1> QED BY <1>1, <1>2, <1>3, <1>4, <1>5, <1>6, <1>7, <1>8, <1>9

\* A completed read adds the next bytes of the file to the next block, whether its
\* number is set or not, and leaves the window alone.
LEMMA ReadIntoHolds ==
  ASSUME SessionInv, ReadFacts, TransferFacts, Reading, fd = "file", NEW n \in ReadSizes,
         NEW slots,
         \A t \in 0 .. request.window - 1 :
           /\ slots[t].data = ReadInto(n)[t].data
           /\ t # SlotOf(next_data_packet_to_send) => slots[t] = ReadInto(n)[t]
  PROVE  /\ HoldBytes(slots, window_size, blocks + 1, last_block_size + n)
         /\ NumberingIsSafe => HoldBlocks(slots, window_size, blocks, Unacknowledged)
  <1> DEFINE b == blocks
             w == window_size
             u == Unacknowledged
             s == SlotOf(next_data_packet_to_send)
             fill == [i \in 1 .. BlockSize |->
                        IF i \in last_block_size + 1 .. last_block_size + n
                        THEN file_offset + i - last_block_size
                        ELSE data_packets[s].data[i]]
  <1>1. /\ b \in Nat /\ u \in Nat /\ u <= b /\ u + 1 <= w /\ w \in 1 .. BlockMod - 1
        /\ s = BufferOf(b + 1, w)
        /\ file_offset = b * BlockSize + last_block_size
        /\ HoldBytes(data_packets, w, b + 1, last_block_size)
        /\ NumberingIsSafe => HoldBlocks(data_packets, w, b, u)
    BY ReadingBlock
  <1>2. /\ last_block_size \in 0 .. BlockSize /\ last_block_size + n \in 0 .. BlockSize
        /\ data_packets \in [0 .. request.window - 1 -> Slot]
    BY ReadTyped DEF SessionInv, TypeOK
  <1>3. \A k \in Nat : BufferOf(k, w) \in 0 .. request.window - 1
    BY BufferExists DEF SessionInv
  <1>4. s \in 0 .. request.window - 1
    <2>1. b + 1 \in Nat
      BY <1>1
    <2> QED BY <1>1, <1>3, <2>1, Zenon
  <1>5. ReadInto(n) = [data_packets EXCEPT ![s].data = fill]
    BY DEF ReadInto
  <1>6. \A t \in 0 .. request.window - 1 : t # s => slots[t] = data_packets[t]
    <2> HIDE DEF s, fill
    <2> QED BY <1>2, <1>4, <1>5 DEF s
  <1>7. slots[s].data = fill
    <2> HIDE DEF fill
    <2>1. ReadInto(n)[s].data = fill
      <3>1. data_packets[s] \in Slot
        BY <1>2, <1>4
      <3> HIDE DEF s
      <3> QED BY <1>2, <1>4, <1>5, <3>1 DEF Slot
    <2> QED BY <1>4, <2>1
  <1>8. (b + 1) - 1 = b /\ b * BlockSize \in Nat /\ n \in Int
    <2>1. n \in Int
      BY <1>2, PacketAssumption DEF ReadSizes, Least
    <2> QED BY <1>1, <2>1, PacketAssumption
  <1>9. HoldBytes(slots, w, b + 1, last_block_size + n)
    <2>1. \A i \in 1 .. last_block_size : data_packets[s].data[i] = b * BlockSize + i
      BY <1>1, <1>8, Zenon DEF HoldBytes
    <2>2. ASSUME NEW i \in 1 .. last_block_size + n PROVE fill[i] = b * BlockSize + i
      <3>1. i \in 1 .. BlockSize
        BY <1>2, PacketAssumption
      <3>2. CASE i <= last_block_size
        <4>1. i \in 1 .. last_block_size /\ i \notin last_block_size + 1 .. last_block_size + n
          BY <1>2, <1>8, <3>2
        <4> HIDE DEF s, b
        <4> QED BY <2>1, <3>1, <4>1
      <3>3. CASE i > last_block_size
        <4>1. i \in last_block_size + 1 .. last_block_size + n
          BY <1>2, <1>8, <3>3
        <4>2. fill[i] = file_offset + i - last_block_size
          BY <3>1, <4>1
        <4> HIDE DEF fill
        <4> QED BY <1>1, <1>2, <1>8, <4>2
      <3> QED BY <1>2, <3>2, <3>3
    <2>3. \A i \in 1 .. last_block_size + n : slots[s].data[i] = b * BlockSize + i
      <3> HIDE DEF fill
      <3> QED BY <1>7, <2>2
    <2> HIDE DEF s, fill, b, w
    <2> QED BY <1>1, <1>8, <2>3, Zenon DEF HoldBytes
  <1>10. ASSUME NumberingIsSafe PROVE HoldBlocks(slots, w, b, u)
    <2>1. BlockMod % w = 0 \/ b < BlockMod
      BY <1>10, Zenon DEF NumberingIsSafe
    <2>2. \A k \in 1 .. b : BufferOf(k, w) # BufferOf(b + 1, w) =>
            slots[BufferOf(k, w)] = data_packets[BufferOf(k, w)]
      <3>1. \A k \in 1 .. b : k \in Nat
        BY <1>1
      <3> QED BY <1>1, <1>3, <1>6, <3>1, Zenon
    <2>3. HoldBlocks(data_packets, w, b, u)
      BY <1>1, <1>10
    <2> HIDE DEF b, w, u, s, fill
    <2> QED BY <1>1, <2>1, <2>2, <2>3, WindowKept
  <1> QED BY <1>9, <1>10

\* A read that failed or did not fill the block.
LEMMA ReadsOnBlocks ==
  ASSUME SessionInv, SessionInv', ReadFacts, TransferFacts, ReadsOn
  PROVE  TransferFacts'
  <1>1. /\ Quiet /\ Reading /\ reads = 1 /\ is_fetching_data /\ JobsPlus(-1) \in Jobs
        /\ request.type = "read"
    BY ReadInFlight DEF ReadsOn
  <1>2. UNCHANGED <<request, fd, windowVars>>
    BY <1>1 DEF Quiet
  <1>3. /\ last_block_size \in 0 .. BlockSize /\ incomplete_read \in BOOLEAN
        /\ data_packets \in [0 .. request.window - 1 -> Slot]
        /\ file_offset \in 0 .. FileLen
    BY Zenon DEF SessionInv, TypeOK
  <1>4. CASE ReadFailed
    <2> DEFINE f == Fetched(last_block_size, incomplete_read, data_packets, file_offset)
    <2>1. f \in FetchRecord
      BY <1>1, <1>3, FetchedTyped, Zenon
    <2>2. Epilogue(JobsPlus(-1), f) /\ should_close' = TRUE /\ request.mode = "octet"
      BY <1>4 DEF ReadFailed
    <2>3. /\ f.fetching = FALSE /\ f.size = last_block_size /\ f.slots = data_packets
          /\ f.incomplete = incomplete_read
      BY DEF Fetched
    <2>4. status' # "new"
      BY <2>2, EpilogueRuns
    <2> HIDE DEF f
    <2>5. fd = "file" => ~incomplete_read /\ blocks * BlockSize <= FileLen /\ last_packet = -1
      BY <1>1, ReadingBlock
    <2>6. fd = "file" => OffsetFits(f.fetching, f.size, f.incomplete, f.offset, last_packet,
                                    blocks, should_close')
      <3>1. fd = "file" => OffsetFits(FALSE, f.size, incomplete_read, f.offset, -1, blocks, TRUE)
        BY <2>2, <2>5 DEF OffsetFits
      <3> QED BY <2>2, <2>3, <2>5, <3>1, Zenon
    <2>7. BodyBlocks(f)
      BY <1>2, <2>3, <2>5, <2>6, FrameBlocks, Zenon DEF TransferFacts, WindowHeld
    <2> QED BY <1>1, <2>1, <2>2, <2>4, <2>7, EpilogueBlocks
  <1>5. ASSUME NEW n \in ReadSizes, ReadIncomplete(n)
        PROVE  TransferFacts'
    <2>1. last_block_size + n \in 0 .. BlockSize /\ file_offset + n \in 0 .. FileLen
          /\ ReadInto(n) \in [0 .. request.window - 1 -> Slot]
      BY ReadTyped DEF SessionInv
    <2>2. /\ Epilogue(JobsPlus(-1),
                      Fetched(last_block_size + n, TRUE, ReadInto(n), file_offset + n))
          /\ should_close' = should_close /\ request.mode = "octet" /\ fd = "file"
      BY <1>5 DEF ReadIncomplete
    <2> DEFINE size == last_block_size + n
               slots == ReadInto(n)
               offset == file_offset + n
               f == Fetched(size, TRUE, slots, offset)
    <2>3. f \in FetchRecord
      BY <1>1, <2>1, FetchedTyped
    <2>4. f.fetching = FALSE /\ f.size = size /\ f.slots = slots /\ f.incomplete = TRUE
          /\ f.offset = offset
      BY DEF Fetched
    <2>5. status' # "new"
      BY <2>2, EpilogueRuns
    <2>6. /\ HoldBytes(slots, window_size, blocks + 1, size)
          /\ NumberingIsSafe => HoldBlocks(slots, window_size, blocks, Unacknowledged)
      BY <1>1, <2>2, ReadIntoHolds
    <2>7. /\ last_packet = -1 /\ blocks * BlockSize <= FileLen
          /\ offset = blocks * BlockSize + size
      <3>1. /\ last_packet = -1 /\ blocks * BlockSize <= FileLen /\ blocks \in Nat
            /\ file_offset = blocks * BlockSize + last_block_size
        BY <1>1, <2>2, ReadingBlock
      <3>2. blocks * BlockSize \in Nat
        BY <3>1, PacketAssumption
      <3>3. n \in Int
        BY <1>3, PacketAssumption DEF ReadSizes, Least
      <3> QED BY <1>3, <3>1, <3>2, <3>3
    <2>8. OffsetFits(FALSE, size, TRUE, offset, -1, blocks, should_close')
      <3> HIDE DEF size, offset
      <3> QED BY <2>2, <2>7 DEF OffsetFits
    <2>9. Epilogue(JobsPlus(-1), f)
      BY <2>2
    <2> HIDE DEF size, slots, offset, f
    <2>10. BodyBlocks(f)
      BY <1>2, <2>2, <2>4, <2>6, <2>7, <2>8, FrameBlocks, Zenon
    <2> QED BY <1>1, <2>3, <2>5, <2>9, <2>10, EpilogueBlocks
  <1> QED BY <1>4, <1>5 DEF ReadsOn

\* The next block, complete in its buffer in f, is ready to be sent.
ReadyIn(f) ==
  /\ f \in FetchRecord /\ f.fetching = FALSE /\ ~f.incomplete
  /\ f.size < BlockSize => f.offset = FileLen
  /\ f.offset = blocks * BlockSize + f.size
  /\ HoldBytes(f.slots, window_size, blocks + 1, f.size)
  /\ f.slots[BufferOf(blocks + 1, window_size)].block = next_data_packet_to_send
  /\ NumberingIsSafe => HoldBlocks(f.slots, window_size, blocks, Unacknowledged)

\* A block that is complete is ready.
LEMMA BlockIsReady ==
  ASSUME SessionInv, ReadFacts, TransferFacts, BlockReady
  PROVE  Reading /\ fd = "file" /\ \E f \in FetchRecord : ReadyIn(f) /\ SendBlock(f)
  <1>1. Reading /\ status = "idle" /\ reads = 1 /\ is_fetching_data
    BY ReadInFlight DEF BlockReady
  <1>2. /\ last_block_size \in 0 .. BlockSize /\ incomplete_read \in BOOLEAN
        /\ data_packets \in [0 .. request.window - 1 -> Slot]
        /\ file_offset \in 0 .. FileLen /\ next_data_packet_to_send \in Block
    BY Zenon DEF SessionInv, TypeOK
  <1>3. CASE NetasciiBlockReady
    <2> DEFINE f == Fetched(last_block_size, incomplete_read, data_packets, file_offset)
    <2>1. f \in FetchRecord
      BY <1>1, <1>2, FetchedTyped, Zenon
    <2>2. /\ f.fetching = FALSE /\ f.size = last_block_size /\ f.incomplete = incomplete_read
          /\ f.slots = data_packets /\ f.offset = file_offset
      BY DEF Fetched
    <2>3. SendBlock(f) /\ request.mode # "octet"
      BY <1>3 DEF NetasciiBlockReady
    <2>4. fd = "file" /\ (last_block_size < BlockSize => file_offset = FileLen)
      BY <1>1, <2>3, Zenon DEF ReadFacts, FetchingShort, ShortIsLast
    <2> HIDE DEF f
    <2>5. ReadyIn(f)
      BY <1>1, <2>1, <2>2, <2>3, <2>4, ReadingBlock, Zenon DEF ReadyIn
    <2> QED BY <1>1, <2>1, <2>3, <2>4, <2>5
  <1>4. ASSUME NEW n \in ReadSizes, ReadComplete(n)
        PROVE  fd = "file" /\ \E f \in FetchRecord : ReadyIn(f) /\ SendBlock(f)
    <2> DEFINE s == SlotOf(next_data_packet_to_send)
               slots == [ReadInto(n) EXCEPT ![s].block = next_data_packet_to_send]
               size == last_block_size + n
               offset == file_offset + n
               f == Fetched(size, incomplete_read, slots, offset)
    <2>1. /\ size \in 0 .. BlockSize /\ offset \in 0 .. FileLen
          /\ slots \in [0 .. request.window - 1 -> Slot]
          /\ ReadInto(n) \in [0 .. request.window - 1 -> Slot]
      BY ReadTyped DEF SessionInv
    <2>2. SendBlock(f) /\ fd = "file"
      BY <1>4 DEF ReadComplete
    <2>3. size < BlockSize => offset = FileLen
      BY <1>4, ShortReadIsLast DEF ReadComplete, SessionInv
    <2>4. f \in FetchRecord
      <3> HIDE DEF slots, size, offset
      <3> QED BY <1>1, <1>2, <2>1, FetchedTyped
    <2>5. /\ f.fetching = FALSE /\ f.size = size /\ f.incomplete = incomplete_read
          /\ f.slots = slots /\ f.offset = offset
      BY DEF Fetched
    <2>6. /\ blocks \in Nat /\ ~incomplete_read
          /\ file_offset = blocks * BlockSize + last_block_size
          /\ s = BufferOf(blocks + 1, window_size)
      BY <1>1, <2>2, ReadingBlock
    <2>7. offset = blocks * BlockSize + size
      <3>1. blocks * BlockSize \in Nat
        BY <2>6, PacketAssumption
      <3>2. n \in Int
        BY <1>2, PacketAssumption DEF ReadSizes, Least
      <3> QED BY <1>2, <2>6, <3>1, <3>2
    <2>8. s \in 0 .. request.window - 1
      <3>1. blocks + 1 \in Nat
        BY <2>6
      <3> QED BY <2>6, <3>1, BufferExists DEF SessionInv
    <2> HIDE DEF s
    <2>9. /\ slots[s].block = next_data_packet_to_send
          /\ slots[s].data = ReadInto(n)[s].data
      <3> DEFINE r == ReadInto(n)
      <3>1. r \in [0 .. request.window - 1 -> Slot] /\ r[s] \in Slot
        BY <2>1, <2>8
      <3> HIDE DEF r
      <3>2. slots = [r EXCEPT ![s].block = next_data_packet_to_send]
        BY DEF r
      <3>3. /\ slots[s].block = next_data_packet_to_send /\ slots[s].data = r[s].data
        BY <2>8, <3>1, <3>2 DEF Slot
      <3> QED BY <3>3 DEF r
    <2>10. \A t \in 0 .. request.window - 1 : t # s => slots[t] = ReadInto(n)[t]
      <3> DEFINE r == ReadInto(n)
      <3>1. r \in [0 .. request.window - 1 -> Slot]
        BY <2>1
      <3> HIDE DEF r
      <3>2. slots = [r EXCEPT ![s].block = next_data_packet_to_send]
        BY DEF r
      <3>3. \A t \in 0 .. request.window - 1 : t # s => slots[t] = r[t]
        BY <3>1, <3>2
      <3> QED BY <3>3 DEF r
    <2> HIDE DEF slots, size, offset, f
    <2>11. /\ HoldBytes(slots, window_size, blocks + 1, size)
           /\ NumberingIsSafe => HoldBlocks(slots, window_size, blocks, Unacknowledged)
      <3>1. \A t \in 0 .. request.window - 1 :
              /\ slots[t].data = ReadInto(n)[t].data
              /\ t # SlotOf(next_data_packet_to_send) => slots[t] = ReadInto(n)[t]
        BY <2>9, <2>10, Zenon DEF s
      <3> QED BY <1>1, <2>2, <3>1, ReadIntoHolds DEF size
    <2>12. ReadyIn(f)
      BY <2>3, <2>4, <2>5, <2>6, <2>7, <2>9, <2>11, Zenon DEF ReadyIn
    <2> QED BY <2>2, <2>4, <2>12
  <1> QED BY <1>1, <1>3, <1>4 DEF BlockReady

\* A block that is ready has the length of the next block of the file.
LEMMA ReadyLength ==
  ASSUME NEW b \in Nat, b * BlockSize <= FileLen, NEW size \in 0 .. BlockSize,
         size < BlockSize => b * BlockSize + size = FileLen,
         b * BlockSize + size <= FileLen
  PROVE  size = BlockLength(b + 1)
  <1>1. /\ BlockLength(b + 1) = Least(BlockSize, FileLen - b * BlockSize)
        /\ b * BlockSize \in Nat
    BY BlockLengths
  <1> DEFINE o == b * BlockSize
  <1>2. o \in Nat /\ o + size <= FileLen /\ (size < BlockSize => o + size = FileLen)
    BY <1>1
  <1> HIDE DEF o
  <1>3. size = Least(BlockSize, FileLen - o)
    BY <1>2, PacketAssumption DEF Least
  <1> QED BY <1>1, <1>3 DEF o

\* The block that is sent joins the window.
LEMMA BlockReadyBlocks ==
  ASSUME SessionInv, SessionInv', ReadFacts, TransferFacts, BlockReady
  PROVE  TransferFacts'
  <1>1. Reading /\ fd = "file"
    BY BlockIsReady
  <1>2. PICK f \in FetchRecord : ReadyIn(f) /\ SendBlock(f)
    BY BlockIsReady
  <1> DEFINE b == blocks
             w == window_size
             u == Unacknowledged
             n == next_data_packet_to_send
  <1>3. /\ request.type = "read" /\ last_packet = -1 /\ b \in Nat /\ u \in Nat /\ u <= b
        /\ u + 1 <= w /\ w \in 1 .. BlockMod - 1 /\ n = (b + 1) % BlockMod
        /\ b * BlockSize <= FileLen
    BY <1>1, ReadingBlock
  <1>4. /\ request' = request /\ fd' = fd /\ window_begin' = window_begin
        /\ next_data_packet_to_send' = Succ(n) /\ should_close' = should_close
        /\ blocks' = b + 1
        /\ last_packet' = (IF f.size < BlockSize THEN n ELSE last_packet)
        /\ Epilogue(JobsPlus(-1 + b2n(window_begin = n)), f)
    BY <1>1, <1>2 DEF Reading, SendBlock
  <1>5. window_size' = w
    BY <1>4, Zenon DEF window_size
  <1>6. window_begin \in Block /\ n \in Block /\ request.mode # "invalid"
    BY <1>1, Zenon DEF SessionInv, TypeOK, TransferFacts, Numbered
  <1>7. Unacknowledged' = u + 1
    <2>1. Dist(window_begin, n) + 1 < BlockMod
      BY <1>1, FetchingFacts DEF Reading
    <2>2. Dist(window_begin, Succ(n)) = Dist(window_begin, n) + 1
      BY <1>6, <2>1, SendingLengthens
    <2> QED BY <1>4, <2>2, Zenon DEF Unacknowledged
  <1>8. next_data_packet_to_send' = (blocks' + 1) % BlockMod
    <2>1. b + 1 \in Nat
      BY <1>3
    <2>2. Succ((b + 1) % BlockMod) = ((b + 1) + 1) % BlockMod
      BY <2>1, NextNumber
    <2> QED BY <1>3, <1>4, <2>2, Zenon
  <1>9. f.size \in 0 .. BlockSize /\ f.offset \in 0 .. FileLen
    BY DEF FetchRecord
  <1>10. /\ f.fetching = FALSE /\ ~f.incomplete /\ f.offset = b * BlockSize + f.size
         /\ f.size < BlockSize => f.offset = FileLen
         /\ HoldBytes(f.slots, w, b + 1, f.size)
         /\ f.slots[BufferOf(b + 1, w)].block = n
         /\ NumberingIsSafe => HoldBlocks(f.slots, w, b, u)
    BY <1>2, Zenon DEF ReadyIn
  <1>11. b * BlockSize \in Nat /\ (b + 1) * BlockSize = b * BlockSize + BlockSize
         /\ (b + 1) - 1 = b
    BY <1>3, BlockLengths
  <1>12. f.size = BlockLength(b + 1)
    <2>1. b * BlockSize + f.size <= FileLen
      BY <1>9, <1>10
    <2>2. f.size < BlockSize => b * BlockSize + f.size = FileLen
      BY <1>10
    <2> HIDE DEF b
    <2> QED BY <1>3, <1>9, <2>1, <2>2, ReadyLength
  <1> HIDE DEF b, w, u, n
  <1>13. OffsetFits(FALSE, f.size, f.incomplete, f.offset,
                    IF f.size < BlockSize THEN n ELSE -1, b + 1, should_close')
    <2> DEFINE o == b * BlockSize
               o2 == (b + 1) * BlockSize
    <2>1. o \in Nat /\ o2 = o + BlockSize /\ f.offset = o + f.size
      BY <1>10, <1>11
    <2>2. CASE f.size < BlockSize
      <3>1. n # -1 /\ b + 1 >= 1 /\ (((b + 1) - 1) * BlockSize) + f.size = FileLen
        <4>1. n # -1 /\ b + 1 >= 1
          BY <1>3, <1>6, BlockModAssumption DEF Block
        <4>2. b * BlockSize + f.size = FileLen
          BY <1>10, <2>2
        <4> QED BY <1>11, <4>1, <4>2, Zenon
      <3>2. OffsetFits(FALSE, f.size, f.incomplete, f.offset, n, b + 1, should_close')
        BY <2>2, <3>1, Zenon DEF OffsetFits
      <3> QED BY <2>2, <3>2, Zenon
    <2>3. CASE ~(f.size < BlockSize)
      <3> HIDE DEF o, o2
      <3>1. o2 <= FileLen /\ f.offset = o2
        BY <1>9, <2>1, <2>3, PacketAssumption
      <3>2. OffsetFits(FALSE, f.size, f.incomplete, f.offset, -1, b + 1, should_close')
        BY <1>10, <3>1, Zenon DEF OffsetFits, o2
      <3> QED BY <2>3, <3>2, Zenon
    <2> QED BY <2>2, <2>3
  <1>14. NumberingIsSafe' => HoldBlocks(f.slots, w, b + 1, u + 1)
    <2>1. ASSUME NumberingIsSafe' PROVE HoldBlocks(f.slots, w, b + 1, u + 1)
      <3>1. BlockMod % w = 0 \/ b + 1 < BlockMod
        BY <1>4, <1>5, <2>1, Zenon DEF NumberingIsSafe
      <3>2. BlockMod % w = 0 \/ b < BlockMod
        BY <1>3, <3>1, BlockModAssumption
      <3>3. HoldBlocks(f.slots, w, b, u)
        BY <1>10, <3>2, Zenon DEF NumberingIsSafe, b, w
      <3>4. f.slots[BufferOf(b + 1, w)].block = (b + 1) % BlockMod
            /\ HoldBytes(f.slots, w, b + 1, BlockLength(b + 1))
        BY <1>3, <1>10, <1>12, Zenon
      <3> QED BY <1>3, <3>3, <3>4, WindowGrows
    <2> QED BY <2>1
  <1>15. BodyBlocks(f)
    <2>1. u + 1 <= b + 1
      BY <1>3
    <2> QED
      BY <1>1, <1>3, <1>4, <1>5, <1>6, <1>7, <1>8, <1>10, <1>13, <1>14, <2>1, Zenon
      DEF BodyBlocks
  <1>16. status' # "new"
    BY <1>4, EpilogueRuns
  <1> QED BY <1>4, <1>15, <1>16, EpilogueBlocks

\* An ACK that is not older than one that came before it leaves no more in the window.
LEMMA AckShortens ==
  ASSUME SessionInv, Fifo, status = "idle", NEW p \in ClientPackets, p.op = "ACK",
         request.type = "read"
  PROVE  /\ p.block \in Block
         /\ Dist(Succ(p.block), next_data_packet_to_send) \in Nat
         /\ Dist(Succ(p.block), next_data_packet_to_send) <= Unacknowledged
  <1>1. p \in ClientAcks
    BY DEF ClientPackets, Packet
  <1>2. PICK age \in AckAges : p = Ack(Minus(Pred(next_data_packet_to_send), age))
    BY <1>1 DEF ClientAcks
  <1>3. p.block = Minus(Pred(next_data_packet_to_send), age)
    BY <1>2 DEF Ack, Packet
  <1>4. age \in Nat /\ age + 1 < BlockMod
    BY SessionAssumption, BlockModAssumption DEF AckAges
  <1>5. age <= Unacknowledged
    BY DEF AckAges, Unacknowledged
  <1>6. next_data_packet_to_send \in Block
    BY Zenon DEF SessionInv, TypeOK
  <1>7. Dist(Succ(p.block), next_data_packet_to_send) = age
    BY <1>3, <1>4, <1>6, AgeIsDistance
  <1>8. p.block \in Block
    BY ClientAckFacts
  <1> QED BY <1>4, <1>5, <1>7, <1>8

\* Blocks that are acknowledged leave the window.
LEMMA AckBlocks ==
  ASSUME SessionInv, SessionInv', TransferFacts, Fifo, Receiving,
         NEW p \in ClientPackets, AckReceived(p)
  PROVE  TransferFacts'
  <1>1. /\ status = "idle" /\ request' = request /\ fd' = fd /\ ~should_close
        /\ p.op = "ACK" /\ request.type = "read" /\ window_begin' = Succ(p.block)
        /\ next_data_packet_to_send' = next_data_packet_to_send
        /\ last_packet' = last_packet /\ blocks' = blocks
    BY DEF AckReceived, Receiving
  <1>2. PICK jobs : Epilogue(jobs, FetchState)
    BY DEF AckReceived
  <1>3. status' # "new" /\ FetchState \in FetchRecord
    BY <1>2, EpilogueRuns, FetchStateTyped DEF SessionInv
  <1> DEFINE f == FetchState
  <1>4. /\ f.fetching = is_fetching_data /\ f.size = last_block_size
        /\ f.incomplete = incomplete_read /\ f.slots = data_packets
        /\ f.offset = file_offset
    BY FetchStateFields
  <1> HIDE DEF f
  <1>5. window_size' = window_size
    BY <1>1, Zenon DEF window_size
  <1> DEFINE u == Unacknowledged
             v == Dist(Succ(p.block), next_data_packet_to_send)
             w == window_size
             b == blocks
  <1>6. Unacknowledged' = v
    BY <1>1, Zenon DEF Unacknowledged
  <1>7. v \in Nat /\ v <= u
    BY <1>1, AckShortens
  <1>8. u \in Nat /\ w \in Nat /\ b \in Nat /\ u <= w /\ u <= b
        /\ (is_fetching_data => u + 1 <= w)
    <2>1. u \in 0 .. BlockMod - 1 /\ w \in 1 .. BlockMod - 1 /\ b \in Nat
      BY WindowTyped DEF SessionInv, WindowTypes
    <2>2. u \in Nat /\ w \in Nat
      BY <2>1, BlockModAssumption
    <2> QED BY <1>1, <2>1, <2>2, Zenon DEF TransferFacts, WindowFits, Numbered
  <1>9. NumberingIsSafe' => HoldBlocks(data_packets, w, b, v)
    <2>1. NumberingIsSafe' => NumberingIsSafe
      BY <1>1, <1>5, Zenon DEF NumberingIsSafe
    <2>2. NumberingIsSafe => HoldBlocks(data_packets, w, b, u)
      BY <1>1, Zenon DEF TransferFacts, WindowHeld
    <2> HIDE DEF u, v, w, b
    <2> QED BY <1>7, <1>8, <2>1, <2>2, WindowShrinks
  <1> HIDE DEF u, v, w, b
  <1>10. v <= w /\ v <= b /\ (is_fetching_data => v + 1 <= w)
    BY <1>7, <1>8
  <1>11. BodyBlocks(f)
    <2>1. /\ next_data_packet_to_send = (b + 1) % BlockMod
          /\ fd # "file" => b = 0
          /\ fd = "file" => request.mode # "invalid"
      BY <1>1, Zenon DEF TransferFacts, Numbered, b
    <2>2. fd = "file" => OffsetFits(f.fetching, f.size, f.incomplete, f.offset,
                                    last_packet, b, should_close')
      BY <1>1, <1>4, Zenon DEF TransferFacts, OffsetsMatch, OffsetFits, b
    <2>3. fd = "file" /\ last_packet = -1 /\ (f.fetching \/ f.incomplete) =>
            /\ HoldBytes(f.slots, w, b + 1, f.size)
            /\ request.mode # "octet" =>
                 f.slots[BufferOf(b + 1, w)].block = next_data_packet_to_send
      BY <1>1, <1>4, Zenon DEF TransferFacts, NextBlockHeld, b, w
    <2>4. blocks' = b /\ window_size' = w
      BY <1>1, <1>5 DEF b, w
    <2> QED
      BY <1>1, <1>4, <1>6, <1>9, <1>10, <2>1, <2>2, <2>3, <2>4, Zenon DEF BodyBlocks
  <1> QED BY <1>2, <1>3, <1>11, EpilogueBlocks DEF f

\* A write session sends no blocks.
LEMMA DataBlocks ==
  ASSUME SessionInv, SessionInv', TransferFacts, Receiving, NEW p, DataReceived(p)
  PROVE  TransferFacts'
  <1>1. /\ status = "idle" /\ request' = request /\ fd' = fd
        /\ request.type = "write" /\ window_begin' = window_begin
        /\ next_data_packet_to_send' = next_data_packet_to_send
    BY DEF DataReceived, Receiving
  <1>2. PICK jobs : Epilogue(jobs, FetchState)
    BY DEF DataReceived
  <1>3. status' # "new" /\ FetchState \in FetchRecord
        /\ FetchState.fetching = is_fetching_data
    BY <1>2, EpilogueRuns, FetchStateTyped DEF SessionInv
  <1>4. ~is_fetching_data /\ request.type # "read"
    BY <1>1, Zenon DEF SessionInv, WriteWindow, Running
  <1>5. window_size' = window_size /\ Unacknowledged' = Unacknowledged
    BY <1>1, Zenon DEF window_size, Unacknowledged
  <1>6. BodyBlocks(FetchState)
    BY <1>1, <1>3, <1>4, <1>5, Zenon DEF BodyBlocks, TransferFacts, WindowFits, Numbered
  <1> QED BY <1>2, <1>3, <1>6, EpilogueBlocks

\* Nothing has been sent when the session starts.
LEMMA StartBlocks ==
  ASSUME SessionInv, SessionInv', ReadFacts, TransferFacts, Start
  PROVE  TransferFacts'
  <1>1. /\ status = "new" /\ request' = request /\ last_packet' = last_packet
        /\ window_begin' = window_begin /\ blocks' = blocks
        /\ next_data_packet_to_send' = next_data_packet_to_send
        /\ fd' = "file" => request.mode # "invalid"
    BY DEF Start, start, FileOpens, windowVars
  <1>2. PICK jobs : Epilogue(jobs, FetchState)
    BY DEF Start
  <1>3. status' # "new" /\ FetchState \in FetchRecord
    BY <1>2, EpilogueRuns, FetchStateTyped DEF SessionInv
  <1>4. /\ ~is_fetching_data /\ window_begin = next_data_packet_to_send
        /\ window_begin \in Block
    BY <1>1, Zenon DEF SessionInv, NewIsFresh, TypeOK
  <1>5. last_packet = -1 /\ file_offset = 0 /\ ~incomplete_read
    <2>1. last_packet = -1
      BY <1>1, <1>4, Zenon DEF ReadFacts, LastPacketSent, SessionInv, NewIsFresh
    <2> QED BY <1>1, <2>1, Zenon DEF TransferFacts, Numbered
  <1>6. request.type = "read" => blocks = 0
    BY <1>1, Zenon DEF SessionInv, OptionsFirst, Running
  <1>7. Unacknowledged' = 0
    <2>1. Dist(window_begin, window_begin) = 0
      BY <1>4, BlockModAssumption DEF Dist, Minus, Block
    <2> QED BY <1>1, <1>4, <2>1, Zenon DEF Unacknowledged
  <1>8. request.type = "read" => next_data_packet_to_send = (0 + 1) % BlockMod
    BY <1>6, Zenon DEF TransferFacts, Numbered
  <1> DEFINE f == FetchState
  <1>9. f.fetching = is_fetching_data /\ f.incomplete = incomplete_read
        /\ f.offset = file_offset
    BY FetchStateFields
  <1> HIDE DEF f
  <1>10. OffsetFits(FALSE, f.size, f.incomplete, 0, -1, 0, should_close')
    <2>1. 0 * BlockSize = 0 /\ 0 <= FileLen
      BY PacketAssumption
    <2> QED BY <1>5, <1>9, <2>1, Zenon DEF OffsetFits
  <1>11. \A slots, w : HoldBlocks(slots, w, 0, 0)
    BY DEF HoldBlocks
  <1>12. 0 <= window_size'
    <2>1. window_size' \in 1 .. BlockMod - 1
      BY WindowTypedNext DEF SessionInv, WindowTypes
    <2>2. \A w \in 1 .. BlockMod - 1 : 0 <= w
      BY BlockModAssumption
    <2> QED BY <2>1, <2>2, Zenon
  <1>13. f.fetching = FALSE
    BY <1>3, <1>4, <1>9 DEF FetchRecord, f
  <1>14. BodyBlocks(f)
    <2>1. 0 <= 0
      OBVIOUS
    <2> QED
      BY <1>1, <1>5, <1>6, <1>7, <1>8, <1>9, <1>10, <1>11, <1>12, <1>13, <2>1, Zenon
      DEF BodyBlocks
  <1> QED BY <1>2, <1>3, <1>14, EpilogueBlocks DEF f

\* A step that leaves the transfer alone.
LEMMA UntouchedBlocks ==
  ASSUME TransferFacts, Untouched
  PROVE  TransferFacts'
  <1>1. /\ status' \in {status, "error"} /\ request' = request /\ fd' = fd
        /\ should_close' = should_close /\ window_begin' = window_begin
        /\ next_data_packet_to_send' = next_data_packet_to_send
        /\ last_packet' = last_packet /\ is_fetching_data' = is_fetching_data
        /\ last_block_size' = last_block_size /\ file_offset' = file_offset
        /\ blocks' = blocks /\ incomplete_read' = incomplete_read
        /\ data_packets' = data_packets
    BY DEF Untouched, windowVars, fetchVars
  <1>2. status' = "new" => status = "new"
    BY <1>1
  <1>3. window_size' = window_size /\ Unacknowledged' = Unacknowledged
    BY <1>1, Zenon DEF window_size, Unacknowledged
  <1>4. WindowFits' /\ Numbered'
    BY <1>1, <1>2, <1>3, Zenon DEF TransferFacts, WindowFits, Numbered
  <1>5. OffsetsMatch' /\ NextBlockHeld'
    BY <1>1, <1>3, Zenon DEF TransferFacts, OffsetsMatch, OffsetFits, NextBlockHeld
  <1>6. WindowHeld'
    BY <1>1, <1>3, Zenon DEF TransferFacts, WindowHeld, NumberingIsSafe
  <1> QED BY <1>4, <1>5, <1>6 DEF TransferFacts

\* Every step keeps the facts of the transfer.
LEMMA NextBlocks ==
  ASSUME Fifo, SessionInv, SessionInv', ReadFacts, TransferFacts, [SessionNext]_sessionVars
  PROVE  TransferFacts'
  BY StepKinds, UntouchedBlocks, StartBlocks, KeepsBuffersBlocks, ReadsOnBlocks,
     BlockReadyBlocks, AckBlocks, DataBlocks

\* Nothing has been sent yet.
LEMMA InitBlocks == SessionInit => TransferFacts
  <1> SUFFICES ASSUME SessionInit PROVE TransferFacts
    OBVIOUS
  <1>1. /\ fd = "zero" /\ window_begin = 1 /\ next_data_packet_to_send = 1 /\ blocks = 0
        /\ file_offset = 0 /\ incomplete_read = FALSE /\ is_fetching_data = FALSE
    BY DEF SessionInit
  <1>2. window_size = 1
    BY <1>1 DEF window_size
  <1>3. Unacknowledged = 0
    BY <1>1 DEF Unacknowledged, Dist, Minus
  <1>4. 1 % BlockMod = 1
    <2>1. 1 \in Nat /\ BlockMod \in Nat \ {0} /\ 0 \in Nat /\ 1 \in 0 .. BlockMod - 1
          /\ 1 = BlockMod * 0 + 1
      BY BlockModAssumption
    <2> QED BY <2>1, RemainderUnique
  <1>5. WindowFits /\ Numbered
    BY <1>1, <1>2, <1>3, <1>4 DEF WindowFits, Numbered
  <1>6. OffsetsMatch /\ NextBlockHeld
    BY <1>1 DEF OffsetsMatch, NextBlockHeld
  <1>7. WindowHeld
    BY <1>1, <1>3 DEF WindowHeld, HoldBlocks
  <1> QED BY <1>5, <1>6, <1>7 DEF TransferFacts

\* With ACKs in order these facts always hold.
LEMMA TransferInvariant ==
  ASSUME Fifo
  PROVE  SessionSpec => []TransferFacts
  <1>1. SessionInit => SessionInv /\ ReadFacts /\ TransferFacts
    BY InitInv, InitReads, InitBlocks
  <1>2. (SessionInv /\ ReadFacts /\ TransferFacts) /\ [SessionNext]_sessionVars
          => (SessionInv /\ ReadFacts /\ TransferFacts)'
    BY NextInv, NextReads, NextBlocks
  <1> QED
    BY <1>1, <1>2, PTL DEF SessionSpec

\* With ACKs in order the window never holds more blocks than the session has buffers.
THEOREM WindowIsBounded ==
  ASSUME Fifo
  PROVE  SessionSpec => []WindowBound
  <1>1. TransferFacts => WindowBound
    BY DEF TransferFacts, WindowFits, WindowBound, Unacknowledged
  <1> QED
    BY <1>1, TransferInvariant, PTL

\* A buffer that holds a block is sent as that block.
LEMMA HeldIsSent ==
  ASSUME NEW slots, NEW w, NEW k \in Nat, HoldBytes(slots, w, k, BlockLength(k)),
         NEW size, size = BlockLength(k)
  PROVE  [i \in 1 .. size |-> slots[BufferOf(k, w)].data[i]] = FileBlock(k)
  <1>1. \A i \in 1 .. size : slots[BufferOf(k, w)].data[i] = (k - 1) * BlockSize + i
    BY Zenon DEF HoldBytes
  <1>2. FileBlock(k) = [i \in 1 .. size |-> (k - 1) * BlockSize + i]
    BY DEF FileBlock, BlockLength
  <1> QED BY <1>1, <1>2

\* Only the last packet is sent short.
LEMMA WindowLengths ==
  ASSUME SessionInv, ReadFacts, TransferFacts, request.type = "read", fd = "file",
         NEW k \in blocks - Unacknowledged + 1 .. blocks
  PROVE  (IF k % BlockMod = last_packet THEN last_block_size ELSE BlockSize) = BlockLength(k)
  <1> DEFINE b == blocks
             u == Unacknowledged
  <1>1. b \in Nat /\ u \in 0 .. BlockMod - 1 /\ u <= b
        /\ next_data_packet_to_send = (b + 1) % BlockMod
        /\ OffsetFits(is_fetching_data, last_block_size, incomplete_read, file_offset,
                      last_packet, b, should_close)
    <2>1. b \in Nat /\ u \in 0 .. BlockMod - 1
      BY WindowTyped DEF SessionInv, WindowTypes
    <2> QED BY <2>1, Zenon DEF TransferFacts, Numbered, OffsetsMatch
  <1>2. k \in 1 .. b /\ k \in Nat
    BY <1>1
  <1>3. k % BlockMod \in Block
    BY <1>2, NextNumber
  <1>4. CASE last_packet = -1
    <2>1. k % BlockMod # last_packet
      BY <1>3, <1>4, BlockModAssumption DEF Block
    <2>2. b * BlockSize <= FileLen
      BY <1>1, <1>4, Zenon DEF OffsetFits
    <2>3. BlockLength(k) = BlockSize
      BY <1>1, <1>2, <2>2, BlockLengths
    <2> QED BY <2>1, <2>3
  <1>5. CASE last_packet # -1
    <2>1. last_packet = Pred(next_data_packet_to_send)
      BY <1>5, Zenon DEF ReadFacts, LastPacketSent
    <2>2. b >= 1 /\ last_block_size < BlockSize
          /\ (b - 1) * BlockSize + last_block_size = FileLen
      BY <1>1, <1>5, Zenon DEF OffsetFits
    <2>3. last_packet = b % BlockMod
      <3>1. b + 1 \in Nat /\ 1 \in 0 .. BlockMod - 1 /\ 1 <= b + 1 /\ (b + 1) - 1 = b
        BY <1>1, BlockModAssumption
      <3>2. Minus((b + 1) % BlockMod, 1) = ((b + 1) - 1) % BlockMod
        BY <3>1, BackMod
      <3> QED BY <1>1, <2>1, <3>1, <3>2, Zenon DEF Pred
    <2> DEFINE c == b - 1
    <2>4. c \in Nat /\ c + 1 = b /\ c * BlockSize \in Nat
      BY <1>1, <2>2, PacketAssumption
    <2>5. last_block_size \in 0 .. BlockSize
      BY DEF SessionInv, TypeOK
    <2> HIDE DEF c, b, u
    <2>6. c * BlockSize + last_block_size = FileLen
      BY <2>2 DEF c
    <2>7. c * BlockSize <= FileLen
      BY <2>4, <2>5, <2>6, PacketAssumption
    <2>8. CASE k = b
      <3>1. last_block_size = BlockLength(c + 1)
        BY <2>2, <2>4, <2>5, <2>6, <2>7, ReadyLength, PacketAssumption
      <3> QED BY <2>3, <2>4, <2>8, <3>1
    <2>9. CASE k # b
      <3>1. k < b /\ b - k < BlockMod /\ k \in 1 .. c /\ BlockMod \in Nat \ {0}
        <4>1. k <= b /\ k >= b - u + 1
          BY <1>1 DEF b, u
        <4> QED BY <1>1, <1>2, <2>4, <2>9, <4>1, BlockModAssumption
      <3>2. k % BlockMod # b % BlockMod
        BY <1>1, <1>2, <3>1, ModApart
      <3>3. BlockLength(k) = BlockSize
        BY <2>4, <2>7, <3>1, BlockLengths
      <3> QED BY <2>3, <3>2, <3>3
    <2> QED BY <2>8, <2>9
  <1> QED BY <1>4, <1>5

\* The DATA packet of block k.
DataPacket(k) == Packet("DATA", k % BlockMod, FileBlock(k))

\* A retransmission sends the blocks the window stands for.
LEMMA WindowIsSent ==
  ASSUME SessionInv, status = "idle", ReadFacts, TransferFacts, NumberingIsSafe,
         NEW i \in 1 .. Len(Window)
  PROVE  /\ Len(Window) = Unacknowledged
         /\ blocks - Unacknowledged + i \in Nat
         /\ Window[i] = DataPacket(blocks - Unacknowledged + i)
  <1> DEFINE u == Unacknowledged
             b == blocks
             w == window_size
             k == b - u + i
  <1>1. /\ b \in Nat /\ u \in 0 .. BlockMod - 1 /\ w \in 1 .. BlockMod - 1
        /\ window_begin \in Block /\ next_data_packet_to_send \in Block
    BY WindowTyped DEF SessionInv, WindowTypes
  <1>2. u \in Nat
    BY <1>1, BlockModAssumption
  <1>3. Len(Window) = u /\ i \in 1 .. u
        /\ Window[i] = data_packet_info(Plus(window_begin, i - 1))
    <2>1. Dist(window_begin, next_data_packet_to_send) = u
      BY DEF Unacknowledged
    <2>2. Window = [j \in 1 .. u |-> data_packet_info(Plus(window_begin, j - 1))]
      BY <2>1, Zenon DEF Window
    <2> HIDE DEF u
    <2>3. Len(Window) = u
      BY <1>2, <2>2
    <2> QED BY <2>2, <2>3
  <1>4. request.type = "read" /\ fd = "file"
    <2>1. u # 0
      BY <1>2, <1>3
    <2>2. request.type \in {"read", "write"}
      BY SessionAssumption DEF SessionInv, TypeOK, ServerRequest
    <2>3. Dist(window_begin, window_begin) = 0
      BY <1>1, BlockModAssumption DEF Dist, Minus, Block
    <2>4. request.type # "write"
      BY <2>1, <2>3, WindowFacts, Zenon DEF Unacknowledged
    <2>5. u <= b /\ (fd # "file" => b = 0)
      BY <2>2, <2>4, Zenon DEF TransferFacts, Numbered
    <2> HIDE DEF u, b
    <2> QED BY <1>2, <2>1, <2>2, <2>4, <2>5
  <1>5. /\ next_data_packet_to_send = (b + 1) % BlockMod /\ u <= b
        /\ HoldBlocks(data_packets, w, b, u)
    BY <1>4, Zenon DEF TransferFacts, Numbered, WindowHeld
  <1>6. Plus(window_begin, i - 1) = k % BlockMod
    <2>1. u = Dist(window_begin, next_data_packet_to_send)
      BY DEF Unacknowledged
    <2> HIDE DEF u
    <2> QED BY <1>1, <1>2, <1>3, <1>5, <2>1, WindowNumber
  <1>7. k \in b - u + 1 .. b /\ k \in Nat
    <2> HIDE DEF u, b
    <2> QED BY <1>1, <1>2, <1>3, <1>5
  <1>8. /\ data_packets[BufferOf(k, w)].block = k % BlockMod
        /\ HoldBytes(data_packets, w, k, BlockLength(k))
    <2> HIDE DEF k, b, u, w
    <2> QED BY <1>5, <1>7, Zenon DEF HoldBlocks
  <1> DEFINE n == k % BlockMod
             size == IF n = last_packet THEN last_block_size ELSE BlockSize
  <1>9. size = BlockLength(k)
    <2> HIDE DEF k
    <2> QED BY <1>4, <1>7, WindowLengths
  <1>10. SlotOf(n) = BufferOf(k, w)
    BY Zenon DEF SlotOf, BufferOf
  <1>11. data_packet_info(n) =
           Packet("DATA", data_packets[SlotOf(n)].block,
                  [j \in 1 .. size |-> data_packets[SlotOf(n)].data[j]])
    BY Zenon DEF data_packet_info
  <1> HIDE DEF size
  <1>12. [j \in 1 .. size |-> data_packets[BufferOf(k, w)].data[j]] = FileBlock(k)
    <2> HIDE DEF k, w
    <2> QED BY <1>7, <1>8, <1>9, HeldIsSent
  <1>13. Window[i] = Packet("DATA", n, FileBlock(k))
    BY <1>3, <1>6, <1>8, <1>10, <1>11, <1>12, Zenon
  <1> QED BY <1>3, <1>7, <1>13 DEF DataPacket

\* Under their numbers, and with their bytes.
LEMMA WindowIsFaithful ==
  ASSUME SessionInv, status = "idle", ReadFacts, TransferFacts, NumberingIsSafe,
         NEW i \in 1 .. Len(Window)
  PROVE  LET k == blocks - Len(Window) + i
         IN  Window[i].block = k % BlockMod /\ Window[i].data = FileBlock(k)
  <1> DEFINE k == blocks - Unacknowledged + i
  <1>1. Len(Window) = Unacknowledged /\ Window[i] = DataPacket(k)
    BY WindowIsSent
  <1>2. Window[i].block = k % BlockMod /\ Window[i].data = FileBlock(k)
    <2> HIDE DEF k
    <2> QED BY <1>1 DEF DataPacket, Packet
  <1> QED BY <1>1, <1>2

\* A call that sends no block is faithful.
LEMMA NothingToBetray == NoBlockSent => SentDataFaithful'
  BY Zenon DEF NoBlockSent, SentDataFaithful

\* EVENT_START sends at most an OACK or the ACK of block 0.
LEMMA StartSends ==
  ASSUME Start
  PROVE  NoBlockSent
  <1>1. sent' = <<Oack>> \/ sent' = <<Ack(0)>> \/ sent' = <<>>
    <2>1. sent' = CASE SendsOack -> <<Oack>>
                    [] is_request_valid /\ ~SendsOack /\ request.type = "write" -> <<Ack(0)>>
                    [] OTHER -> <<>>
      BY DEF Start
    <2> QED BY <2>1, Zenon
  <1>2. CASE sent' = <<>>
    BY <1>2 DEF NoBlockSent
  <1> QED BY <1>1, <1>2, OnePacket, ControlPackets DEF NoBlockSent

\* The block that is complete is sent, alone.
LEMMA BlockIsSent ==
  ASSUME SessionInv, ReadFacts, TransferFacts, BlockReady
  PROVE  /\ blocks' = blocks + 1 /\ blocks \in Nat /\ fd = "file" /\ Reading
         /\ sent' = <<DataPacket(blocks + 1)>>
  <1>1. Reading /\ fd = "file"
    BY BlockIsReady
  <1>2. PICK f \in FetchRecord : ReadyIn(f) /\ SendBlock(f)
    BY BlockIsReady
  <1> DEFINE b == blocks
             w == window_size
             n == next_data_packet_to_send
             data == [i \in 1 .. f.size |-> f.slots[SlotOf(n)].data[i]]
             p == Packet("DATA", f.slots[SlotOf(n)].block, data)
  <1>3. sent' = <<p>> /\ blocks' = b + 1
    BY <1>2 DEF SendBlock
  <1>4. /\ b \in Nat /\ n = (b + 1) % BlockMod /\ SlotOf(n) = BufferOf(b + 1, w)
        /\ b * BlockSize <= FileLen
    BY <1>1, ReadingBlock
  <1>5. /\ f.offset = b * BlockSize + f.size /\ (f.size < BlockSize => f.offset = FileLen)
        /\ HoldBytes(f.slots, w, b + 1, f.size)
        /\ f.slots[BufferOf(b + 1, w)].block = n
    BY <1>2, Zenon DEF ReadyIn
  <1>6. f.size \in 0 .. BlockSize /\ f.offset \in 0 .. FileLen
    BY DEF FetchRecord
  <1>7. f.size = BlockLength(b + 1)
    <2>1. b * BlockSize + f.size <= FileLen
      BY <1>5, <1>6
    <2>2. f.size < BlockSize => b * BlockSize + f.size = FileLen
      BY <1>5
    <2> HIDE DEF b
    <2> QED BY <1>4, <1>6, <2>1, <2>2, ReadyLength
  <1>8. data = FileBlock(b + 1)
    <2>1. b + 1 \in Nat
      BY <1>4
    <2>2. HoldBytes(f.slots, w, b + 1, BlockLength(b + 1))
      BY <1>5, <1>7, Zenon
    <2>3. [i \in 1 .. f.size |-> f.slots[BufferOf(b + 1, w)].data[i]] = FileBlock(b + 1)
      <3> DEFINE k == b + 1
                 slots == f.slots
                 size == f.size
      <3>1. k \in Nat /\ HoldBytes(slots, w, k, BlockLength(k)) /\ size = BlockLength(k)
        BY <1>7, <2>1, <2>2
      <3> HIDE DEF k, slots, size, w
      <3>2. [i \in 1 .. size |-> slots[BufferOf(k, w)].data[i]] = FileBlock(k)
        BY <3>1, HeldIsSent
      <3> QED BY <3>2 DEF k, slots, size
    <2> QED BY <1>4, <2>3, Zenon
  <1>9. p = Packet("DATA", n, FileBlock(b + 1))
    <2> HIDE DEF data
    <2> QED BY <1>4, <1>5, <1>8, Zenon
  <1> QED BY <1>1, <1>3, <1>4, <1>9 DEF DataPacket

\* And under its number.
LEMMA BlockIsFaithful ==
  ASSUME SessionInv, ReadFacts, TransferFacts, BlockReady
  PROVE  SentDataFaithful'
  <1> DEFINE b == blocks
             p == DataPacket(b + 1)
  <1>1. blocks' = b + 1 /\ b \in Nat /\ sent' = <<p>>
    BY BlockIsSent
  <1>2. p.block = (b + 1) % BlockMod /\ p.data = FileBlock(b + 1)
    BY DEF DataPacket, Packet
  <1> HIDE DEF p
  <1>3. \A i \in 1 .. Len(<<p>>) : <<p>>[i] = p /\ (b + 1) - Len(<<p>>) + i = b + 1
    BY <1>1
  <1> HIDE DEF b
  <1> QED BY <1>1, <1>2, <1>3, Zenon DEF SentDataFaithful

\* Every step sends what it should.
LEMMA NextFaithful ==
  ASSUME SessionInv, SessionInv', ReadFacts, TransferFacts, SentDataFaithful,
         [SessionNext]_sessionVars
  PROVE  SentDataFaithful'
  <1>1. CASE Untouched
    <2>1. request' = request /\ fd' = fd /\ blocks' = blocks
      BY <1>1 DEF Untouched, windowVars
    <2>2. NumberingIsSafe' => NumberingIsSafe
      BY <2>1, Zenon DEF NumberingIsSafe, window_size
    <2>3. CASE sent' = sent
      BY <2>1, <2>2, <2>3, Zenon DEF SentDataFaithful
    <2>4. CASE sent' = <<>>
      <3>1. NoBlockSent
        BY <2>4 DEF NoBlockSent
      <3> QED BY <3>1, NothingToBetray
    <2> QED BY <1>1, <2>3, <2>4 DEF Untouched
  <1>2. CASE Start
    BY <1>2, StartSends, NothingToBetray
  <1>3. CASE KeepsBuffers
    <2>1. CASE NoBlockSent
      BY <2>1, NothingToBetray
    <2>2. CASE sent' = Window
      <3>1. request' = request /\ fd' = fd /\ blocks' = blocks /\ status = "idle"
        BY <1>3 DEF KeepsBuffers, Quiet, windowVars
      <3>2. NumberingIsSafe' => NumberingIsSafe
        BY <3>1, Zenon DEF NumberingIsSafe, window_size
      <3>3. NumberingIsSafe =>
              \A i \in 1 .. Len(Window) :
                 LET k == blocks - Len(Window) + i
                 IN  Window[i].block = k % BlockMod /\ Window[i].data = FileBlock(k)
        BY <3>1, WindowIsFaithful
      <3> QED BY <2>2, <3>1, <3>2, <3>3, Zenon DEF SentDataFaithful
    <2> QED BY <1>3, <2>1, <2>2 DEF KeepsBuffers
  <1>4. CASE ReadsOn
    BY <1>4, NothingToBetray DEF ReadsOn
  <1>5. CASE BlockReady
    BY <1>5, BlockIsFaithful
  <1>6. ASSUME NEW p \in ClientPackets, Receiving, AckReceived(p) \/ DataReceived(p)
        PROVE  SentDataFaithful'
    <2>1. sent' = <<>> \/ sent' = <<Ack(p.block)>>
      BY <1>6 DEF AckReceived, DataReceived
    <2>2. NoBlockSent
      <3>1. CASE sent' = <<>>
        BY <3>1 DEF NoBlockSent
      <3> QED BY <2>1, <3>1, OnePacket, ControlPackets DEF NoBlockSent
    <2> QED BY <2>2, NothingToBetray
  <1> QED
    BY <1>1, <1>2, <1>3, <1>4, <1>5, <1>6, StepKinds

\* With ACKs in order every DATA packet carries the bytes of the file that its number
\* stands for, whether it is sent for the first time from a buffer just filled or again
\* from one of many reused ones, until the numbers wrap at a window they do not fit.
THEOREM SentIsTheFile ==
  ASSUME Fifo
  PROVE  SessionSpec => []SentDataFaithful
  <1>1. SessionInit => SessionInv /\ ReadFacts /\ TransferFacts /\ SentDataFaithful
    <2>1. SessionInit => SentDataFaithful
      BY DEF SessionInit, SentDataFaithful
    <2> QED BY <2>1, InitInv, InitReads, InitBlocks
  <1>2. (SessionInv /\ ReadFacts /\ TransferFacts /\ SentDataFaithful)
          /\ [SessionNext]_sessionVars
        => (SessionInv /\ ReadFacts /\ TransferFacts /\ SentDataFaithful)'
    BY NextInv, NextReads, NextBlocks, NextFaithful
  <1> QED
    BY <1>1, <1>2, PTL DEF SessionSpec

-----------------------------------------------------------------------------
(* Karn's rule. *)

\* What is measured is a block number that was not sent twice; a session that has not
\* started has sent nothing twice.
MeasuredOnce ==
  /\ resent \subseteq Block /\ starting_block_number \in Block
  /\ sampled \in {-1, starting_block_number}
  /\ measuring => starting_block_number \notin resent
  /\ sampled \notin resent
  /\ status = "new" => resent = {}

\* A session with measurements is a session.
LEMMA AdaptiveIsSession ==
  [AdaptiveNext]_adaptiveVars => [SessionNext]_sessionVars
  BY DEF AdaptiveNext, adaptiveVars

\* Nothing but the start leaves the state before it, and that is another state.
LEMMA NewIsInitial ==
  ASSUME [SessionNext]_sessionVars, status' = "new"
  PROVE  status = "new" /\ UNCHANGED <<current_retransmission, blocks, timeout_removes, sent>>
  <1>1. CASE UNCHANGED sessionVars
    BY <1>1 DEF sessionVars, controlVars, windowVars, timerVars
  <1>2. CASE Start \/ TimeoutIgnored \/ TimeoutCanceled \/ TimeoutRemoved \/ RecvRemoved
             \/ RecvCanceled \/ PacketDropped
    BY <1>2, EpilogueRuns DEF Start, TimeoutIgnored, TimeoutCanceled, TimeoutRemoved,
       RecvRemoved, RecvCanceled, PacketDropped, RecvDropped, OnlyEpilogue
  <1>3. CASE TimeoutHandled
    <2>1. status' = "hung" \/ \E jobs, f : Epilogue(jobs, f)
      BY <1>3, Zenon DEF TimeoutHandled
    <2> QED BY <2>1, EpilogueRuns
  <1>4. CASE DataAvailable
    BY <1>4, EpilogueRuns DEF DataAvailable, ReadFailed, NetasciiBlockReady, ReadIncomplete,
       ReadComplete, SendBlock
  <1>5. CASE PacketArrives
    BY <1>5, EpilogueRuns DEF PacketArrives, PacketReceived, on_packet_received, Ignore,
       UnexpectedPeer, Abort, AckReceived, DataReceived, WriteFails
  <1>6. CASE TimerFires \/ SyscallFailure
    BY <1>6 DEF TimerFires, SyscallFailure, controlVars
  <1>7. CASE Done
    BY <1>1, <1>7 DEF Done
  <1> QED
    BY <1>1, <1>2, <1>3, <1>4, <1>5, <1>6, <1>7, Zenon DEF SessionNext, RingEvent

\* Nothing has been measured yet.
LEMMA InitMeasures == AdaptiveInit => MeasuredOnce
  BY BlockModAssumption DEF AdaptiveInit, MeasuredOnce, Block

\* Every step of the session and its measurement.
LEMMA NextMeasures ==
  ASSUME SessionInv, MeasuredOnce, [AdaptiveNext]_adaptiveVars
  PROVE  MeasuredOnce'
  <1>0. 0 \in Block /\ -1 \notin Block
    BY BlockModAssumption DEF Block
  <1>1. /\ resent \subseteq Block /\ starting_block_number \in Block
        /\ measuring => starting_block_number \notin resent
        /\ sampled \notin resent /\ sampled \in {-1, starting_block_number}
        /\ window_begin \in Block /\ next_data_packet_to_send \in Block
    BY Zenon DEF MeasuredOnce, SessionInv, TypeOK
  <1>2. status' = "new" =>
          /\ resent = {} /\ ~Retransmits /\ ~SendsBlock /\ ~TakesAck
          /\ sent' = sent /\ status = "new"
    <2>1. SUFFICES ASSUME status' = "new"
                   PROVE  /\ resent = {} /\ ~Retransmits /\ ~SendsBlock /\ ~TakesAck
                          /\ sent' = sent /\ status = "new"
      OBVIOUS
    <2>2. status = "new"
          /\ UNCHANGED <<current_retransmission, blocks, timeout_removes, sent>>
      BY <2>1, AdaptiveIsSession, NewIsInitial
    <2>3. current_retransmission \in Nat /\ blocks \in Nat /\ timeout_removes \in Nat
      BY SessionAssumption DEF SessionInv, TypeOK
    <2> QED BY <2>2, <2>3 DEF Retransmits, SendsBlock, TakesAck, MeasuredOnce
  <1>3. CASE OackMeasured
    <2>1. status = "new" /\ measuring' = TRUE /\ starting_block_number' = 0
          /\ sampled' = -1 /\ resent' = resent
      BY <1>3 DEF OackMeasured, SendsFirstOack
    <2>2. resent = {}
      BY <2>1 DEF MeasuredOnce
    <2> QED BY <1>0, <1>1, <2>1, <2>2 DEF MeasuredOnce
  <1>4. CASE RetransmissionMeasured
    <2>1. /\ measuring' = FALSE /\ sampled' = -1 /\ Retransmits
          /\ starting_block_number' = starting_block_number
          /\ resent' = resent \cup
                 (IF OptionsPending THEN {0}
                  ELSE { Plus(window_begin, i - 1) :
                           i \in 1 .. Dist(window_begin, next_data_packet_to_send) })
      BY <1>4 DEF RetransmissionMeasured, MeasurementAfterTimeout
    <2>2. { Plus(window_begin, i - 1) :
              i \in 1 .. Dist(window_begin, next_data_packet_to_send) } \subseteq Block
      BY <1>0, <1>1, BlockModAssumption DEF Plus, Dist, Minus, Block
    <2>3. resent' \subseteq Block
      BY <1>0, <1>1, <2>1, <2>2
    <2>4. status' # "new"
      BY <1>2, <2>1
    <2> QED BY <1>0, <1>1, <2>1, <2>3, <2>4 DEF MeasuredOnce
  <1>5. CASE BlockMeasured
    <2>1. /\ sampled' = -1 /\ resent' = resent \ {next_data_packet_to_send} /\ SendsBlock
          /\ starting_block_number' =
               (IF measuring THEN starting_block_number ELSE next_data_packet_to_send)
      BY <1>5 DEF BlockMeasured
    <2>2. starting_block_number' \in Block /\ starting_block_number' \notin resent'
      BY <1>0, <1>1, <2>1
    <2>3. status' # "new"
      BY <1>2, <2>1
    <2> QED BY <1>0, <1>1, <2>1, <2>2, <2>3 DEF MeasuredOnce
  <1>6. CASE AckMeasured
    <2>1. /\ measuring' = (measuring /\ ~EndsMeasurement(AckTaken))
          /\ sampled' = (IF EndsMeasurement(AckTaken) THEN starting_block_number ELSE -1)
          /\ starting_block_number' = starting_block_number /\ resent' = resent
          /\ TakesAck /\ (EndsMeasurement(AckTaken) => measuring)
      BY <1>6 DEF AckMeasured, EndsMeasurement
    <2>2. sampled' \notin resent' /\ sampled' \in {-1, starting_block_number}
      BY <1>0, <1>1, <2>1
    <2>3. measuring' => measuring
      BY <2>1, Zenon
    <2>4. status' # "new"
      BY <1>2, <2>1
    <2> QED BY <1>0, <1>1, <2>1, <2>2, <2>3, <2>4 DEF MeasuredOnce
  <1>7. CASE NothingMeasured
    <2>1. sampled' = -1 /\ UNCHANGED <<measuring, starting_block_number, resent>>
      BY <1>7 DEF NothingMeasured
    <2> QED BY <1>0, <1>1, <1>2, <2>1 DEF MeasuredOnce
  <1>8. CASE UNCHANGED adaptiveVars
    <2>1. UNCHANGED <<measuring, starting_block_number, resent, sampled>>
      BY <1>8 DEF adaptiveVars, measureVars
    <2> QED BY <1>0, <1>1, <1>2, <2>1 DEF MeasuredOnce
  <1> QED
    BY <1>3, <1>4, <1>5, <1>6, <1>7, <1>8 DEF AdaptiveNext

\* The round trip of a packet that was sent more than once is never measured: on_timeout
\* cancels the measurement before it resends, and a new one starts only with a new block,
\* whatever ACKs and timers come in between.
THEOREM KarnsRule == FairAdaptiveSpec => []NoResentSample
  <1>1. AdaptiveInit => SessionInv /\ MeasuredOnce
    BY InitInv, InitMeasures DEF AdaptiveInit
  <1>2. (SessionInv /\ MeasuredOnce) /\ [AdaptiveNext]_adaptiveVars
          => (SessionInv /\ MeasuredOnce)'
    BY AdaptiveIsSession, NextInv, NextMeasures
  <1>3. MeasuredOnce => NoResentSample
    BY DEF MeasuredOnce, NoResentSample
  <1> QED
    BY <1>1, <1>2, <1>3, PTL DEF FairAdaptiveSpec

\* With or without measurements it is the same session: what was proved of every session
\* holds of one with an adaptive timeout.
THEOREM AdaptiveImplementsSession == FairAdaptiveSpec => SessionSpec
  <1>1. AdaptiveInit => SessionInit
    BY DEF AdaptiveInit
  <1> QED
    BY <1>1, AdaptiveIsSession, PTL DEF FairAdaptiveSpec, SessionSpec
====
