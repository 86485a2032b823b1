------------------------- MODULE ServerSessionProofs ------------------------
(***************************************************************************)
(* For every request, window, file and modulus: the server session never   *)
(* closes with operations in flight, never hangs in the retransmission     *)
(* loop and never waits for a client without a timer.                      *)
(***************************************************************************)
EXTENDS ServerSession, TLAPS

(* Block number arithmetic. *)

\* Arithmetic on block numbers stays within block numbers.
LEMMA BlockArithmetic ==
  ASSUME NEW a \in Block, NEW k \in 0 .. BlockMod - 1
  PROVE  Plus(a, k) \in Block /\ Minus(a, k) \in Block /\ Succ(a) \in Block
         /\ Pred(a) \in Block
  BY BlockModAssumption DEF Plus, Minus, Succ, Pred, Block

\* A block number inside a window of w < BlockMod numbers has room behind it.
LEMMA RangeLeavesRoom ==
  ASSUME NEW n \in Block, NEW b \in Block, NEW w \in 1 .. BlockMod - 1,
         is_in_range(n, b, Plus(b, w - 1))
  PROVE  Dist(b, n) + 1 < BlockMod
  BY BlockModAssumption DEF Plus, Minus, Dist, Block, is_in_range

\* The window that an ACK of a given age leaves is as long as its age.
LEMMA AgeIsDistance ==
  ASSUME NEW x \in Block, NEW age \in Nat, age + 1 < BlockMod
  PROVE  Dist(Succ(Minus(Pred(x), age)), x) = age
  BY BlockModAssumption DEF Plus, Minus, Dist, Succ, Pred, Block

\* Sending a block lengthens a window that has room.
LEMMA SendingLengthens ==
  ASSUME NEW b \in Block, NEW n \in Block, Dist(b, n) + 1 < BlockMod
  PROVE  Dist(b, Succ(n)) = Dist(b, n) + 1 /\ b # Succ(n)
  BY BlockModAssumption DEF Plus, Minus, Dist, Succ, Block

\* Reducing by a positive modulus gives a number below it.
LEMMA ModBound ==
  ASSUME NEW a \in Nat, NEW m \in Nat \ {0}
  PROVE  a % m \in 0 .. m - 1
  OBVIOUS
-----------------------------------------------------------------------------
\* The packet buffers that a block number selects exist.
LEMMA SlotExists ==
  ASSUME NEW r \in ServerRequest, NEW n \in Block, NEW w, w \in {1, r.window}
  PROVE  w \in 1 .. BlockMod - 1 /\ Pred(n) % w \in 0 .. r.window - 1
  <1>1. w \in Nat \ {0} /\ w <= r.window /\ w \in 1 .. BlockMod - 1
    BY BlockModAssumption DEF ServerRequest
  <1>2. Pred(n) \in Nat
    BY BlockModAssumption DEF Plus, Minus, Pred, Block
  <1>3. Pred(n) % w \in 0 .. w - 1
    BY <1>1, <1>2, ModBound
  <1> QED
    BY <1>1, <1>3, BlockModAssumption DEF ServerRequest

-----------------------------------------------------------------------------
(* The tail of tftp_session_handle_event. *)

\* The values of fetchVars that the body of an event may leave.
FetchRecord ==
  [fetching: BOOLEAN, size: 0 .. BlockSize, incomplete: BOOLEAN,
   slots: [0 .. request.window - 1 -> Slot], offset: 0 .. FileLen, reads: Nat]

Jobs == 0 .. JobMod - 1

\* What the variables of the tail are after it, for any state the body left.
EpilogueTyped ==
  /\ status' \in {"idle", "closed", "error"}
  /\ is_fetching_data' \in BOOLEAN /\ last_block_size' \in 0 .. BlockSize
  /\ incomplete_read' \in BOOLEAN /\ file_offset' \in 0 .. FileLen
  /\ data_packets' \in [0 .. request.window - 1 -> Slot]
  /\ reads' \in Nat /\ pending_jobs' \in Jobs

\* It submits at most one read, counts it, and closes only with no job pending.
EpilogueCounts(jobs, f) ==
  /\ status' # "error" =>
       /\ \/ /\ reads' = f.reads + 1 /\ ~f.fetching /\ is_fetching_data'
             /\ ~should_close' /\ request.type = "read"
             /\ ~(fd' = "file" /\ request.options) \/ options_acknowledged'
             /\ Dist(window_begin', next_data_packet_to_send') + 1 < BlockMod
             /\ pending_jobs' = WrapJobs(jobs + 1)
             /\ status' = "idle"
          \/ /\ reads' = f.reads /\ is_fetching_data' = f.fetching
             /\ pending_jobs' = jobs
  /\ status' = "closed" => should_close' /\ jobs = 0 /\ pending_jobs' = 0

\* The netascii encoder leaves a well formed packet in its buffer.
LEMMA NetasciiTyped ==
  ASSUME request \in ServerRequest, request' = request,
         next_data_packet_to_send' \in Block, NEW f \in FetchRecord,
         fetch_data_netascii_async(f)
  PROVE  /\ data_packets' \in [0 .. request.window - 1 -> Slot]
         /\ last_block_size' \in 0 .. BlockSize /\ file_offset' \in 0 .. FileLen
         /\ incomplete_read' \in BOOLEAN
  <1> DEFINE n == next_data_packet_to_send'
             size == Least(BlockSize, FileLen - f.offset)
             s == Pred(n) % window_size'
             fill == [i \in 1 .. BlockSize |->
                        IF i <= size THEN f.offset + i ELSE f.slots[s].data[i]]
  <1>1. size \in 0 .. BlockSize /\ f.offset + size \in 0 .. FileLen
        /\ f.offset \in 0 .. FileLen
    BY PacketAssumption DEF FetchRecord, Least
  <1>2. window_size' \in {1, request.window}
    BY DEF window_size
  <1>3. s \in 0 .. request.window - 1
    BY <1>2, SlotExists
  <1>4. f.slots[s] \in Slot
    BY <1>3 DEF FetchRecord
  <1>5. \A i \in 1 .. BlockSize : f.slots[s].data[i] \in 0 .. FileLen
    BY <1>4 DEF Slot
  <1>6. \A i \in 1 .. BlockSize : i <= size => f.offset + i \in 0 .. FileLen
    BY <1>1, PacketAssumption
  <1>7. fill \in [1 .. BlockSize -> 0 .. FileLen]
    BY <1>5, <1>6
  <1>8. [block |-> n, data |-> fill] \in Slot
    BY <1>7 DEF Slot
  <1>9. data_packets' = [f.slots EXCEPT ![s] = [block |-> n, data |-> fill]]
    BY Zenon DEF fetch_data_netascii_async
  <1>10. f.slots \in [0 .. request.window - 1 -> Slot]
    BY DEF FetchRecord
  <1>11. data_packets' \in [0 .. request.window - 1 -> Slot]
    <2> HIDE DEF fill, s, n, size
    <2> QED BY <1>8, <1>9, <1>10
  <1>12. last_block_size' = size /\ file_offset' = f.offset + size
         /\ incomplete_read' = f.incomplete
    BY Zenon DEF fetch_data_netascii_async
  <1>13. f.incomplete \in BOOLEAN
    BY DEF FetchRecord
  <1> QED
    BY <1>1, <1>11, <1>12, <1>13

\* The tail of the handler, from any well typed state the event's case leaves.
LEMMA EpilogueEffect ==
  ASSUME request \in ServerRequest, request' = request,
         should_close' \in BOOLEAN, window_begin' \in Block,
         next_data_packet_to_send' \in Block,
         NEW jobs \in Jobs, NEW f \in FetchRecord, Epilogue(jobs, f)
  PROVE  EpilogueTyped /\ EpilogueCounts(jobs, f)
  <1>1. window_size' \in 1 .. BlockMod - 1
    BY SlotExists DEF window_size
  <1>0. /\ f.fetching \in BOOLEAN /\ f.size \in 0 .. BlockSize
        /\ f.incomplete \in BOOLEAN /\ f.offset \in 0 .. FileLen /\ f.reads \in Nat
        /\ f.slots \in [0 .. request.window - 1 -> Slot]
    BY DEF FetchRecord
  <1>2. WrapJobs(jobs + 1) \in Jobs
    BY SessionAssumption DEF WrapJobs, Jobs
  <1>3. CASE /\ ShouldFetch(f)
             /\ fetch_data_octet_async(f) \/ fetch_data_netascii_async(f)
             /\ is_fetching_data' = TRUE /\ reads' = f.reads + 1
             /\ pending_jobs' = WrapJobs(jobs + 1) /\ status' = "idle"
    <2>1. Dist(window_begin', next_data_packet_to_send') + 1 < BlockMod
      BY <1>1, <1>3, RangeLeavesRoom DEF ShouldFetch
    <2>2. CASE fetch_data_octet_async(f)
      <3>1. last_block_size' \in 0 .. BlockSize
        BY <2>2, PacketAssumption DEF fetch_data_octet_async, FetchRecord
      <3>4. incomplete_read' = FALSE /\ data_packets' = f.slots /\ file_offset' = f.offset
        BY <2>2, Zenon DEF fetch_data_octet_async
      <3>5. reads' \in Nat
        BY <1>0, <1>3
      <3>2. EpilogueTyped
        BY <1>0, <1>2, <1>3, <3>1, <3>4, <3>5, Zenon DEF EpilogueTyped
      <3>3. EpilogueCounts(jobs, f)
        BY <1>3, <2>1 DEF EpilogueCounts, ShouldFetch, FetchRecord
      <3> QED BY <3>2, <3>3
    <2>3. CASE fetch_data_netascii_async(f)
      <3>1. EpilogueTyped
        BY <1>2, <1>3, <2>3, NetasciiTyped DEF EpilogueTyped, FetchRecord
      <3>2. EpilogueCounts(jobs, f)
        BY <1>3, <2>1 DEF EpilogueCounts, ShouldFetch, FetchRecord
      <3> QED BY <3>1, <3>2
    <2> QED BY <1>3, <2>2, <2>3
  <1>4. CASE /\ FetchFails(f) \/ NoFetch(jobs, f)
             /\ is_fetching_data' = (f.fetching \/ ShouldFetch(f))
             /\ last_block_size' = f.size /\ incomplete_read' = f.incomplete
             /\ data_packets' = f.slots /\ file_offset' = f.offset
             /\ reads' = f.reads /\ pending_jobs' = jobs
    <2>1. ShouldFetch(f) \in BOOLEAN
      BY DEF ShouldFetch
    <2> QED
      BY <1>4, <2>1 DEF EpilogueTyped, EpilogueCounts, FetchFails, NoFetch, FetchRecord, Jobs
  <1> QED
    BY <1>3, <1>4 DEF Epilogue

-----------------------------------------------------------------------------
(* What the body of an event's case must leave for the tail. *)

BodyTyped ==
  /\ request \in Requests /\ request' = request
  /\ fd' \in {"zero", "file", "none"}
  /\ should_close' \in BOOLEAN /\ options_acknowledged' \in BOOLEAN
  /\ is_timer_active' \in BOOLEAN /\ error_occurred' \in BOOLEAN
  /\ window_begin' \in Block /\ next_data_packet_to_send' \in Block
  /\ expected_sequence_number' \in Block /\ last_packet' \in Block \cup {-1}
  /\ current_retransmission' \in 0 .. Retries /\ blocks' \in Nat
  /\ timers_armed' \in Nat /\ timers_fired' \in Nat
  /\ timers_canceled' \in Nat /\ timeout_removes' \in Nat
  /\ recv' \in {"none", "posted", "canceled"} /\ recv_removes' \in Nat

\* The jobs it counts are those the ring holds, within the bounds.
BodyRing(jobs, f) ==
  /\ jobs \in Jobs /\ f \in FetchRecord
  /\ f.reads = b2n(f.fetching)
  /\ jobs = timers_armed' + timers_fired' + timers_canceled' + timeout_removes'
            + b2n(recv' # "none") + recv_removes' + f.reads
  /\ recv_removes' + b2n(~should_close') <= 1
  /\ timers_armed' + timers_fired' + timers_canceled' + timeout_removes'
       + b2n(window_begin' = next_data_packet_to_send') <= MaxTimers

\* The window, the options and the timer agree.
BodyWindow(f) ==
  /\ f.fetching => /\ Dist(window_begin', next_data_packet_to_send') + 1 < BlockMod
                   /\ request.type = "read"
  /\ request.type = "write" => window_begin' = next_data_packet_to_send'
  /\ request.type = "read" /\ OptionsPending' =>
       blocks' = 0 /\ next_data_packet_to_send' = 1 /\ ~f.fetching
  /\ is_timer_active' /\ request.type = "read" =>
       OptionsPending' \/ window_begin' # next_data_packet_to_send'
  /\ ~should_close' =>
       /\ recv' = "posted"
       /\ OptionsPending' \/ window_begin' # next_data_packet_to_send' =>
            is_timer_active' /\ timers_armed' + timers_fired' > 0

\* The tail keeps the invariant whatever the body of the case was.
LEMMA EpiloguePreserves ==
  ASSUME NEW jobs, NEW f, BodyTyped, BodyRing(jobs, f), BodyWindow(f),
         Epilogue(jobs, f)
  PROVE  SessionInv'
  <1>1. EpilogueTyped /\ EpilogueCounts(jobs, f)
    <2>1. request \in ServerRequest
      BY SessionAssumption DEF BodyTyped
    <2> QED
      BY <2>1, EpilogueEffect DEF BodyTyped, BodyRing
  <1>2. TypeOK'
    BY <1>1, Zenon DEF TypeOK, BodyTyped, EpilogueTyped, Jobs
  <1>3. f.fetching \in BOOLEAN /\ f.reads \in Nat
    BY DEF BodyRing, FetchRecord
  <1>a. /\ b2n(recv' # "none") \in 0 .. 1 /\ b2n(f.fetching) \in 0 .. 1
        /\ b2n(~should_close') \in 0 .. 1
        /\ b2n(window_begin' = next_data_packet_to_send') \in 0 .. 1
    BY DEF b2n
  <1>4. jobs + 1 < JobMod /\ jobs \in Nat
    BY <1>a, SessionAssumption DEF BodyRing, BodyTyped
  <1>5. status' # "error" => pending_jobs' = InFlight'
    <2>1. InFlight' = jobs - f.reads + reads'
      <3>1. InFlight' = timers_armed' + timers_fired' + timers_canceled' + timeout_removes'
                        + b2n(recv' # "none") + recv_removes' + reads'
        BY DEF InFlight, b2n
      <3>2. reads' \in Nat
        BY <1>1 DEF EpilogueTyped
      <3> QED
        BY <1>a, <1>3, <3>1, <3>2 DEF BodyRing, BodyTyped
    <2>2. SUFFICES ASSUME status' # "error" PROVE pending_jobs' = InFlight'
      OBVIOUS
    <2>3. CASE reads' = f.reads + 1 /\ pending_jobs' = WrapJobs(jobs + 1)
      BY <1>3, <1>4, <2>1, <2>3, SessionAssumption DEF WrapJobs
    <2>4. CASE reads' = f.reads /\ pending_jobs' = jobs
      BY <1>3, <1>4, <2>1, <2>4
    <2> QED
      BY <1>1, <2>2, <2>3, <2>4, Zenon DEF EpilogueCounts
  <1>6. RingShape'
    BY <1>1, <1>3 DEF RingShape, Running, BodyRing, EpilogueCounts, b2n
  <1>7. JobsMatchRing' /\ NewIsFresh' /\ NeverHung'
    BY <1>1, <1>5 DEF JobsMatchRing, NewIsFresh, NeverHung, Running, EpilogueTyped
  <1>8. FetchRoom' /\ WriteWindow'
    <2>1. status' # "error" /\ is_fetching_data' =>
            /\ Dist(window_begin', next_data_packet_to_send') + 1 < BlockMod
            /\ request.type = "read"
      BY <1>1, <1>3 DEF BodyWindow, EpilogueCounts, EpilogueTyped
    <2> QED
      BY <2>1 DEF FetchRoom, WriteWindow, Running, BodyWindow, BodyTyped
  <1>9. TimerWindow' /\ OptionsFirst' /\ WaitingIsTimed'
    BY <1>1, <1>3 DEF TimerWindow, OptionsFirst, WaitingIsTimed, BodyWindow,
       BodyTyped, EpilogueCounts, EpilogueTyped, Running, OptionsPending,
       valid_options_required
  <1>10. ClosedMeansQuiet'
    BY <1>1, <1>5 DEF ClosedMeansQuiet, EpilogueCounts
  <1> QED
    BY <1>2, <1>6, <1>7, <1>8, <1>9, <1>10 DEF SessionInv

-----------------------------------------------------------------------------
(* The bodies. *)

\* The fetch variables of a well typed state.
LEMMA FetchStateTyped ==
  ASSUME TypeOK
  PROVE  /\ FetchState \in FetchRecord
         /\ FetchState.fetching = is_fetching_data /\ FetchState.reads = reads
  BY DEF TypeOK, FetchState, FetchRecord

\* Operations of the session other than reads.
Others == timers_armed + timers_fired + timers_canceled + timeout_removes
          + b2n(recv # "none") + recv_removes
TimerOps == timers_armed + timers_fired + timers_canceled + timeout_removes
WindowEmpty == window_begin = next_data_packet_to_send

\* A truth value counts for at most one.
LEMMA CountOne == \A b \in BOOLEAN : b2n(b) \in 0 .. 1
  BY DEF b2n

\* The operation counts are numbers, before and after.
LEMMA CountsTyped ==
  /\ TypeOK => TimerOps \in Nat /\ Others \in Nat /\ recv_removes \in Nat /\ reads \in Nat
  /\ BodyTyped => TimerOps' \in Nat /\ recv_removes' \in Nat
  <1>1. TypeOK => TimerOps \in Nat /\ recv_removes \in Nat /\ reads \in Nat
    <2>1. TypeOK => /\ timers_armed \in Nat /\ timers_fired \in Nat
                    /\ timers_canceled \in Nat /\ timeout_removes \in Nat
                    /\ recv_removes \in Nat /\ reads \in Nat
      BY Zenon DEF TypeOK
    <2> QED BY <2>1 DEF TimerOps
  <1>2. BodyTyped => TimerOps' \in Nat /\ recv_removes' \in Nat
    <2>1. BodyTyped => /\ timers_armed' \in Nat /\ timers_fired' \in Nat
                       /\ timers_canceled' \in Nat /\ timeout_removes' \in Nat
                       /\ recv_removes' \in Nat
      BY Zenon DEF BodyTyped
    <2> QED BY <2>1 DEF TimerOps
  <1>3. Others = TimerOps + b2n(recv # "none") + recv_removes
    BY DEF Others, TimerOps
  <1>4. b2n(recv # "none") \in 0 .. 1
    BY CountOne
  <1> QED BY <1>1, <1>2, <1>3, <1>4

\* A body whose net number of submissions is k counts them right.
LEMMA RingIntro ==
  ASSUME SessionInv, status \in {"new", "idle"}, BodyTyped,
         NEW f \in FetchRecord, f.reads = b2n(f.fetching), NEW k \in Int,
         recv_removes' + b2n(~should_close') <= 1,
         TimerOps' + b2n(WindowEmpty') <= MaxTimers,
         Others' + f.reads = Others + reads + k
  PROVE  BodyRing(JobsPlus(k), f)
  <1>1. /\ b2n(recv' # "none") \in 0 .. 1 /\ b2n(f.fetching) \in 0 .. 1
        /\ b2n(~should_close') \in 0 .. 1 /\ b2n(WindowEmpty') \in 0 .. 1
    BY DEF b2n
  <1>2. f.reads \in 0 .. 1
    BY <1>1
  <1>3. Others' = TimerOps' + b2n(recv' # "none") + recv_removes'
    BY DEF Others, TimerOps, b2n
  <1>4. TimerOps' \in Nat /\ recv_removes' \in Nat
    BY CountsTyped, Zenon
  <1>5. Others' + f.reads \in Nat /\ Others' + f.reads < JobMod
    BY <1>1, <1>2, <1>3, <1>4, SessionAssumption
  <1>6. pending_jobs = Others + reads
    BY DEF SessionInv, JobsMatchRing, Running, InFlight, Others
  <1>7. JobsPlus(k) = Others' + f.reads
    BY <1>5, <1>6, SessionAssumption DEF JobsPlus, WrapJobs
  <1>8. Others' = timers_armed' + timers_fired' + timers_canceled' + timeout_removes'
                  + b2n(recv' # "none") + recv_removes'
    BY DEF Others, b2n
  <1>9. TimerOps' + b2n(WindowEmpty')
          = timers_armed' + timers_fired' + timers_canceled' + timeout_removes'
            + b2n(window_begin' = next_data_packet_to_send')
    BY DEF TimerOps, WindowEmpty, b2n
  <1> QED
    BY <1>5, <1>7, <1>8, <1>9, SessionAssumption DEF BodyRing, Jobs

\* What the invariant says of the window of a session that waits for an event.
LEMMA WindowFacts ==
  ASSUME SessionInv, status = "idle"
  PROVE  /\ is_fetching_data =>
              /\ Dist(window_begin, next_data_packet_to_send) + 1 < BlockMod
              /\ request.type = "read"
         /\ request.type = "write" => window_begin = next_data_packet_to_send
         /\ request.type = "read" /\ OptionsPending =>
              blocks = 0 /\ next_data_packet_to_send = 1 /\ ~is_fetching_data
         /\ is_timer_active /\ request.type = "read" =>
              OptionsPending \/ window_begin # next_data_packet_to_send
         /\ ~should_close =>
              /\ recv = "posted"
              /\ OptionsPending \/ window_begin # next_data_packet_to_send =>
                   is_timer_active /\ timers_armed + timers_fired > 0
  <1>1. request.type \in {"read", "write"} /\ is_fetching_data \in BOOLEAN
    BY SessionAssumption DEF SessionInv, TypeOK, ServerRequest
  <1> QED
    BY <1>1 DEF SessionInv, FetchRoom, TimerWindow, OptionsFirst, WriteWindow,
       WaitingIsTimed, Running

\* An event that only gives its job back keeps the invariant.
LEMMA OnlyEpiloguePreserves ==
  ASSUME SessionInv, status = "idle", OnlyEpilogue,
         timers_armed' \in Nat, timers_fired' \in Nat, timers_canceled' \in Nat,
         timeout_removes' \in Nat, recv' \in {"none", "posted", "canceled"},
         recv_removes' \in Nat, recv_removes' <= recv_removes,
         TimerOps' <= TimerOps, Others' = Others - 1,
         ~should_close => recv' = recv,
         ~should_close /\ is_timer_active =>
            timers_armed' + timers_fired' = timers_armed + timers_fired
  PROVE  SessionInv'
  <1>1. BodyTyped
    BY DEF BodyTyped, SessionInv, TypeOK, OnlyEpilogue, windowVars, writeVars
  <1>2. /\ FetchState \in FetchRecord
        /\ FetchState.fetching = is_fetching_data /\ FetchState.reads = reads
    BY FetchStateTyped DEF SessionInv
  <1>3. reads = b2n(is_fetching_data)
    BY DEF SessionInv, RingShape, Running
  <1>4. BodyRing(JobsPlus(-1), FetchState)
    <2>1. recv_removes' + b2n(~should_close') <= 1
      <3>1. recv_removes + b2n(~should_close) <= 1 /\ should_close' = should_close
        BY DEF SessionInv, RingShape, Running, OnlyEpilogue
      <3>2. recv_removes \in Nat /\ b2n(~should_close) \in 0 .. 1
        BY CountsTyped, CountOne, Zenon DEF SessionInv
      <3> QED BY <3>1, <3>2
    <2>2. TimerOps' + b2n(WindowEmpty') <= MaxTimers
      <3>1. TimerOps + b2n(WindowEmpty) <= MaxTimers
        BY DEF SessionInv, RingShape, Running, TimerOps, WindowEmpty
      <3>2. b2n(WindowEmpty') = b2n(WindowEmpty) /\ b2n(WindowEmpty) \in 0 .. 1
        BY DEF WindowEmpty, b2n, OnlyEpilogue, windowVars
      <3>3. TimerOps \in Nat /\ TimerOps' \in Nat
        BY <1>1, CountsTyped, Zenon DEF SessionInv
      <3> QED
        BY <3>1, <3>2, <3>3, SessionAssumption
    <2>3. Others' + reads = Others + reads + (-1)
      <3>1. Others \in Nat /\ reads \in Nat
        BY CountsTyped, Zenon DEF SessionInv
      <3> QED BY <3>1
    <2> QED
      BY <1>1, <1>2, <1>3, <2>1, <2>2, <2>3, RingIntro
  <1>5. BodyWindow(FetchState)
    <2>1. UNCHANGED <<request, window_begin, next_data_packet_to_send, blocks,
                      should_close, is_timer_active>> /\ OptionsPending' = OptionsPending
      BY DEF OnlyEpilogue, windowVars, OptionsPending, valid_options_required
    <2> QED
      BY <1>2, <2>1, WindowFacts, Zenon DEF BodyWindow
  <1> QED
    BY <1>1, <1>4, <1>5, EpiloguePreserves DEF OnlyEpilogue

\* Completions of timers and of removals.
LEMMA CompletionStep ==
  ASSUME SessionInv,
         TimeoutIgnored \/ TimeoutCanceled \/ TimeoutRemoved \/ RecvRemoved
  PROVE  SessionInv'
  <1>1. /\ timers_armed \in Nat /\ timers_fired \in Nat /\ timers_canceled \in Nat
        /\ timeout_removes \in Nat /\ recv_removes \in Nat
        /\ recv \in {"none", "posted", "canceled"}
    BY Zenon DEF SessionInv, TypeOK
  <1>2. b2n(recv # "none") \in 0 .. 1
    BY CountOne
  <1>3. CASE TimeoutIgnored
    BY <1>1, <1>2, <1>3, OnlyEpiloguePreserves DEF TimeoutIgnored, recvVars, TimerOps, Others
  <1>4. CASE TimeoutCanceled
    BY <1>1, <1>2, <1>4, OnlyEpiloguePreserves DEF TimeoutCanceled, recvVars, TimerOps, Others
  <1>5. CASE TimeoutRemoved
    BY <1>1, <1>2, <1>5, OnlyEpiloguePreserves DEF TimeoutRemoved, recvVars, TimerOps, Others
  <1>6. CASE RecvRemoved
    BY <1>1, <1>2, <1>6, OnlyEpiloguePreserves DEF RecvRemoved, timerVars, TimerOps, Others
  <1> QED BY <1>3, <1>4, <1>5, <1>6

\* The receive that completes while the session closes.
LEMMA RecvDroppedStep ==
  ASSUME SessionInv, RecvDropped, recv # "none"
  PROVE  SessionInv'
  <1>1. /\ timers_armed \in Nat /\ timers_fired \in Nat /\ timers_canceled \in Nat
        /\ timeout_removes \in Nat /\ recv_removes \in Nat
    BY Zenon DEF SessionInv, TypeOK
  <1>2. b2n(recv # "none") = 1 /\ b2n(recv' # "none") = 0
    BY DEF RecvDropped, b2n
  <1>3. Others' = TimerOps' + b2n(recv' # "none") + recv_removes'
        /\ Others = TimerOps + b2n(recv # "none") + recv_removes
    BY DEF Others, TimerOps, b2n
  <1>4. TimerOps' = TimerOps /\ TimerOps \in Nat /\ recv_removes' = recv_removes
    BY <1>1 DEF RecvDropped, timerVars, TimerOps
  <1>5. Others' = Others - 1
    BY <1>1, <1>2, <1>3, <1>4
  <1> QED
    BY <1>1, <1>4, <1>5, OnlyEpiloguePreserves DEF RecvDropped, timerVars

\* Facts on the ring of a session that waits for an event.
LEMMA RingFacts ==
  ASSUME SessionInv, status = "idle"
  PROVE  /\ timers_armed \in Nat /\ timers_fired \in Nat /\ timers_canceled \in Nat
         /\ timeout_removes \in Nat /\ recv_removes \in Nat /\ reads \in Nat
         /\ recv \in {"none", "posted", "canceled"} /\ should_close \in BOOLEAN
         /\ Others = TimerOps + b2n(recv # "none") + recv_removes
         /\ reads = b2n(is_fetching_data)
         /\ recv_removes + b2n(~should_close) <= 1
         /\ TimerOps + b2n(WindowEmpty) <= MaxTimers
         /\ b2n(WindowEmpty) \in 0 .. 1 /\ b2n(recv # "none") \in 0 .. 1
  <1>1. /\ timers_armed \in Nat /\ timers_fired \in Nat /\ timers_canceled \in Nat
        /\ timeout_removes \in Nat /\ recv_removes \in Nat /\ reads \in Nat
        /\ recv \in {"none", "posted", "canceled"} /\ should_close \in BOOLEAN
    BY Zenon DEF SessionInv, TypeOK
  <1>2. Others = TimerOps + b2n(recv # "none") + recv_removes
    BY DEF Others, TimerOps
  <1>3. /\ reads = b2n(is_fetching_data)
        /\ recv_removes + b2n(~should_close) <= 1
        /\ TimerOps + b2n(WindowEmpty) <= MaxTimers
    BY DEF SessionInv, RingShape, Running, TimerOps, WindowEmpty
  <1>4. b2n(WindowEmpty) \in 0 .. 1 /\ b2n(recv # "none") \in 0 .. 1
    BY CountOne DEF WindowEmpty
  <1> QED BY <1>1, <1>2, <1>3, <1>4

\* on_timeout: giving up or retransmitting, never an empty window.
LEMMA TimeoutStep ==
  ASSUME SessionInv, TimeoutHandled
  PROVE  SessionInv'
  <1>0. status = "idle" /\ timers_fired > 0 /\ ~should_close /\ is_timer_active
    BY DEF TimeoutHandled
  <1>1. Epilogue(JobsPlus(0), FetchState)
    <2>1. ~EmptyRetransmission
      BY <1>0, WindowFacts DEF EmptyRetransmission
    <2> QED
      BY <2>1, Zenon DEF TimeoutHandled
  <1>2. /\ FetchState \in FetchRecord
        /\ FetchState.fetching = is_fetching_data /\ FetchState.reads = reads
    BY FetchStateTyped DEF SessionInv
  <1>3. UNCHANGED <<request, fd, options_acknowledged, window_begin,
                    next_data_packet_to_send, last_packet, blocks,
                    expected_sequence_number, timers_canceled, timeout_removes>>
        /\ timers_fired' = timers_fired - 1
    BY DEF TimeoutHandled, windowVars, writeVars
  <1>4. OptionsPending' = OptionsPending /\ WindowEmpty' = WindowEmpty
    BY <1>3 DEF OptionsPending, valid_options_required, WindowEmpty
  <1>5. recv_removes = 0 /\ recv = "posted"
    BY <1>0, RingFacts, WindowFacts DEF b2n
  <1>6. CASE GiveUp
    <2>1. BodyTyped
      BY <1>0, <1>3, <1>5, <1>6 DEF BodyTyped, GiveUp, SessionInv, TypeOK
    <2>2. /\ should_close' = TRUE /\ recv' = "canceled" /\ recv_removes' = 1
          /\ timers_armed' = timers_armed /\ is_timer_active' = is_timer_active
      BY <1>5, <1>6 DEF GiveUp
    <2>3. TimerOps' = TimerOps - 1 /\ TimerOps \in Nat
      BY <1>0, <1>3, <2>2, RingFacts DEF TimerOps
    <2>4. Others' = Others
      BY <1>0, <1>5, <2>2, <2>3, RingFacts DEF Others, TimerOps, b2n
    <2>5. recv_removes' + b2n(~should_close') <= 1
      BY <2>2 DEF b2n
    <2>6. TimerOps' + b2n(WindowEmpty') <= MaxTimers
      BY <1>0, <1>4, <2>3, RingFacts, SessionAssumption
    <2>7. BodyRing(JobsPlus(0), FetchState)
      <3>1. Others' + reads = Others + reads + 0
        BY <2>4, CountsTyped DEF SessionInv
      <3> QED
        BY <1>0, <1>2, <2>1, <2>5, <2>6, <3>1, RingFacts, RingIntro
    <2>8. BodyWindow(FetchState)
      BY <1>0, <1>2, <1>3, <1>4, <2>2, WindowFacts, Zenon DEF BodyWindow
    <2> QED
      BY <1>1, <2>1, <2>7, <2>8, EpiloguePreserves
  <1>7. CASE Retransmit
    <2>1. BodyTyped
      <3>1. current_retransmission \in 0 .. Retries
        BY Zenon DEF SessionInv, TypeOK
      <3>2. current_retransmission' \in 0 .. Retries
        BY <1>7, <3>1, SessionAssumption DEF Retransmit, RetriesLeft, NextRetry
      <3>3. timers_armed' \in Nat /\ timers_fired' \in Nat
        BY <1>0, <1>3, <1>7, RingFacts DEF Retransmit
      <3> QED
        BY <1>3, <1>7, <3>2, <3>3, Zenon
        DEF BodyTyped, Retransmit, SessionInv, TypeOK, recvVars
    <2>2. /\ should_close' = should_close /\ recv' = recv
          /\ recv_removes' = recv_removes
          /\ timers_armed' = timers_armed + 1 /\ is_timer_active' = TRUE
      BY <1>7 DEF Retransmit, recvVars
    <2>3. TimerOps' = TimerOps /\ TimerOps \in Nat
      BY <1>0, <1>3, <2>2, RingFacts DEF TimerOps
    <2>4. Others' = Others
      BY <1>0, <2>2, <2>3 DEF Others, TimerOps, b2n
    <2>5. recv_removes' + b2n(~should_close') <= 1
      BY <1>0, <2>2, RingFacts
    <2>6. TimerOps' + b2n(WindowEmpty') <= MaxTimers
      BY <1>0, <1>4, <2>3, RingFacts
    <2>7. BodyRing(JobsPlus(0), FetchState)
      <3>1. Others' + reads = Others + reads + 0
        BY <2>4, CountsTyped DEF SessionInv
      <3> QED
        BY <1>0, <1>2, <2>1, <2>5, <2>6, <3>1, RingFacts, RingIntro
    <2>8. timers_armed' + timers_fired' > 0
      BY <1>0, <1>3, <2>2, RingFacts
    <2>9. BodyWindow(FetchState)
      BY <1>0, <1>2, <1>3, <1>4, <2>2, <2>8, WindowFacts, Zenon DEF BodyWindow
    <2> QED
      BY <1>1, <2>1, <2>7, <2>9, EpiloguePreserves
  <1> QED
    BY <1>6, <1>7 DEF TimeoutHandled

-----------------------------------------------------------------------------
(* Packets. *)

\* What holds when a packet is handed to on_packet_received.
Receiving ==
  /\ status = "idle" /\ recv = "posted" /\ ~should_close
  /\ timers_canceled = 0 /\ timeout_removes = 0
  /\ timers_armed + timers_fired + 2 <= MaxTimers
  /\ UNCHANGED <<request, fd, recv_removes>>

\* A packet that leaves the window and the timers alone and re-posts the receive.
LEMMA NeutralPacket ==
  ASSUME SessionInv, Receiving, recv' = "posted", error_occurred' \in BOOLEAN,
         UNCHANGED <<should_close, options_acknowledged, is_timer_active,
                     current_retransmission, windowVars, writeVars, timerVars>>,
         Epilogue(JobsPlus(0), FetchState)
  PROVE  SessionInv'
  <1>0. status = "idle" /\ recv = "posted"
    BY DEF Receiving
  <1>1. /\ FetchState \in FetchRecord
        /\ FetchState.fetching = is_fetching_data /\ FetchState.reads = reads
    BY FetchStateTyped DEF SessionInv
  <1>2. UNCHANGED <<request, fd, window_begin, next_data_packet_to_send, last_packet,
                    blocks, expected_sequence_number, timers_armed, timers_fired,
                    timers_canceled, timeout_removes, recv, recv_removes>>
    BY <1>0 DEF Receiving, windowVars, writeVars, timerVars
  <1>3. OptionsPending' = OptionsPending /\ WindowEmpty' = WindowEmpty
        /\ TimerOps' = TimerOps /\ Others' = Others
    BY <1>2 DEF OptionsPending, valid_options_required, WindowEmpty, TimerOps, Others, b2n
  <1>4. BodyTyped
    BY <1>2, Zenon DEF BodyTyped, SessionInv, TypeOK
  <1>5. BodyRing(JobsPlus(0), FetchState)
    <2>1. Others' + reads = Others + reads + 0
      BY <1>3, CountsTyped DEF SessionInv
    <2>2. recv_removes' + b2n(~should_close') <= 1 /\ TimerOps' + b2n(WindowEmpty') <= MaxTimers
      BY <1>0, <1>2, <1>3, RingFacts
    <2> QED
      BY <1>0, <1>1, <1>4, <2>1, <2>2, RingFacts, RingIntro
  <1>6. BodyWindow(FetchState)
    BY <1>0, <1>1, <1>2, <1>3, WindowFacts, Zenon DEF BodyWindow
  <1> QED
    BY <1>4, <1>5, <1>6, EpiloguePreserves

\* An ERROR of the client or a packet of the wrong kind.
LEMMA AbortStep ==
  ASSUME SessionInv, Receiving, NEW p, Abort(p)
  PROVE  SessionInv'
  <1>0. status = "idle" /\ recv = "posted" /\ ~should_close
    BY DEF Receiving
  <1>1. /\ FetchState \in FetchRecord
        /\ FetchState.fetching = is_fetching_data /\ FetchState.reads = reads
    BY FetchStateTyped DEF SessionInv
  <1>2. /\ UNCHANGED <<request, fd, options_acknowledged, is_timer_active, window_begin,
                       next_data_packet_to_send, last_packet, blocks,
                       expected_sequence_number, current_retransmission, timers_armed,
                       timers_fired, timers_canceled, timeout_removes, recv_removes>>
        /\ should_close' = TRUE /\ error_occurred' = TRUE /\ recv' = "none"
    BY DEF Receiving, Abort, windowVars, writeVars, timerVars
  <1>3. OptionsPending' = OptionsPending /\ WindowEmpty' = WindowEmpty
        /\ TimerOps' = TimerOps
    BY <1>2 DEF OptionsPending, valid_options_required, WindowEmpty, TimerOps
  <1>4. BodyTyped
    BY <1>2, Zenon DEF BodyTyped, SessionInv, TypeOK
  <1>5. BodyRing(JobsPlus(-1), FetchState)
    <2>1. b2n(recv # "none") = 1 /\ b2n(recv' # "none") = 0 /\ b2n(~should_close') = 0
      BY <1>0, <1>2 DEF b2n
    <2>2. Others' = TimerOps' + b2n(recv' # "none") + recv_removes'
      BY DEF Others, TimerOps, b2n
    <2>3. Others' + reads = Others + reads + (-1)
      BY <1>0, <1>2, <1>3, <2>1, <2>2, RingFacts, CountsTyped DEF SessionInv
    <2>4. recv_removes' + b2n(~should_close') <= 1
      BY <1>0, <1>2, <2>1, RingFacts, CountOne
    <2>5. TimerOps' + b2n(WindowEmpty') <= MaxTimers
      BY <1>0, <1>3, RingFacts
    <2> QED
      BY <1>0, <1>1, <1>4, <2>3, <2>4, <2>5, RingFacts, RingIntro
  <1>6. BodyWindow(FetchState)
    BY <1>0, <1>1, <1>2, <1>3, WindowFacts, Zenon DEF BodyWindow
  <1> QED
    BY <1>4, <1>5, <1>6, EpiloguePreserves DEF Abort

\* The expected block of a write.
LEMMA DataStep ==
  ASSUME SessionInv, Receiving, NEW p, DataReceived(p)
  PROVE  SessionInv'
  <1>0. status = "idle" /\ recv = "posted" /\ ~should_close
    BY DEF Receiving
  <1>1. /\ FetchState \in FetchRecord
        /\ FetchState.fetching = is_fetching_data /\ FetchState.reads = reads
    BY FetchStateTyped DEF SessionInv
  <1>2. /\ UNCHANGED <<request, fd, is_timer_active, window_begin, next_data_packet_to_send,
                       last_packet, error_occurred, timers_armed, timers_fired,
                       timers_canceled, timeout_removes, recv_removes>>
        /\ request.type = "write" /\ blocks' = blocks + 1
        /\ expected_sequence_number' = Succ(expected_sequence_number)
        /\ current_retransmission' = 0
        /\ should_close' = (Len(p.data) < BlockSize)
        /\ recv' = (IF should_close' THEN "none" ELSE "posted")
        /\ options_acknowledged' = (options_acknowledged \/ (OptionsPending /\ p.block = 1))
    BY DEF Receiving, DataReceived, timerVars
  <1>3. WindowEmpty' = WindowEmpty /\ TimerOps' = TimerOps
    BY <1>2 DEF WindowEmpty, TimerOps
  <1>4. OptionsPending' => OptionsPending
    BY <1>2 DEF OptionsPending, valid_options_required
  <1>5. should_close' \in BOOLEAN /\ options_acknowledged' \in BOOLEAN
    BY <1>2
  <1>6. BodyTyped
    <2>1. blocks' \in Nat /\ current_retransmission' \in 0 .. Retries
      <3>1. blocks \in Nat
        BY Zenon DEF SessionInv, TypeOK
      <3> QED BY <1>2, <3>1, SessionAssumption
    <2>2. expected_sequence_number' \in Block
      <3>1. expected_sequence_number \in Block
        BY Zenon DEF SessionInv, TypeOK
      <3> QED BY <1>2, <3>1, BlockModAssumption DEF Block, Succ, Plus
    <2>3. recv' \in {"none", "posted", "canceled"}
      BY <1>2
    <2> QED
      BY <1>2, <1>5, <2>1, <2>2, <2>3, Zenon DEF BodyTyped, SessionInv, TypeOK
  <1>7. BodyRing(JobsPlus(-1 + b2n(~should_close')), FetchState)
    <2>1. b2n(recv # "none") = 1 /\ b2n(recv' # "none") = b2n(~should_close')
          /\ b2n(~should_close') \in 0 .. 1
      <3>1. CASE should_close' BY <1>0, <1>2, <3>1 DEF b2n
      <3>2. CASE ~should_close' BY <1>0, <1>2, <3>2 DEF b2n
      <3> QED BY <3>1, <3>2
    <2>2. Others' = TimerOps' + b2n(recv' # "none") + recv_removes'
      BY DEF Others, TimerOps, b2n
    <2>3. Others' + reads = Others + reads + (-1 + b2n(~should_close'))
      <3>1. recv_removes' = recv_removes
        BY <1>2
      <3>2. Others = TimerOps + b2n(recv # "none") + recv_removes
        BY <1>0, RingFacts
      <3>3. TimerOps \in Nat /\ recv_removes \in Nat /\ reads \in Nat
        BY CountsTyped DEF SessionInv
      <3> QED BY <1>3, <2>1, <2>2, <3>1, <3>2, <3>3
    <2>4. recv_removes' + b2n(~should_close') <= 1
      <3>1. recv_removes = 0
        BY <1>0, RingFacts DEF b2n
      <3> QED BY <1>2, <2>1, <3>1
    <2>5. TimerOps' + b2n(WindowEmpty') <= MaxTimers
      BY <1>0, <1>3, RingFacts
    <2>6. -1 + b2n(~should_close') \in Int
      BY <2>1
    <2> QED
      BY <1>0, <1>1, <1>6, <2>3, <2>4, <2>5, <2>6, RingFacts, RingIntro
  <1>8. BodyWindow(FetchState)
    <2>1. ~should_close' => recv' = "posted"
      BY <1>2
    <2>2. request.type # "read"
      BY <1>2
    <2> QED
      BY <1>0, <1>1, <1>2, <1>4, <2>1, <2>2, WindowFacts, Zenon DEF BodyWindow
  <1> QED
    BY <1>6, <1>7, <1>8, EpiloguePreserves DEF DataReceived

\* An ACK that a client sent names a block and leaves a window as long as its age.
LEMMA ClientAckFacts ==
  ASSUME SessionInv, status = "idle", NEW p \in ClientPackets, p.op = "ACK",
         request.type = "read"
  PROVE  /\ p.block \in Block
         /\ Dist(Succ(p.block), next_data_packet_to_send) + 1 < BlockMod
         /\ OptionsPending => p.block = 0
  <1>1. p \in ClientAcks
    BY DEF ClientPackets, Packet
  <1>2. PICK age \in AckAges : p = Ack(Minus(Pred(next_data_packet_to_send), age))
    BY <1>1 DEF ClientAcks
  <1>3. p.block = Minus(Pred(next_data_packet_to_send), age)
    BY <1>2 DEF Ack, Packet
  <1>4. age \in Nat /\ age + 1 < BlockMod
    BY SessionAssumption, BlockModAssumption DEF AckAges
  <1>5. next_data_packet_to_send \in Block
    BY Zenon DEF SessionInv, TypeOK
  <1>6. Pred(next_data_packet_to_send) \in Block
    BY <1>5, BlockModAssumption DEF Block, Pred, Minus
  <1>7. p.block \in Block
    BY <1>3, <1>4, <1>6, BlockModAssumption DEF Block, Minus
  <1>8. Dist(Succ(p.block), next_data_packet_to_send) = age
    BY <1>3, <1>4, <1>5, AgeIsDistance
  <1>9. ASSUME OptionsPending PROVE p.block = 0
    <2>1. blocks = 0 /\ next_data_packet_to_send = 1
      BY <1>9, WindowFacts
    <2>2. age = 0
      BY <1>4, <1>9, <2>1 DEF AckAges, b2n, OptionsPending
    <2>3. Pred(1) = 0
      BY BlockModAssumption DEF Pred, Minus
    <2> QED
      BY <1>3, <2>1, <2>2, <2>3 DEF Minus
  <1> QED
    BY <1>4, <1>7, <1>8, <1>9

\* The effect of an accepted ACK on the ring, by the number of operations.
LEMMA AckRing ==
  ASSUME SessionInv, Receiving, NEW p, AckReceived(p)
  PROVE  /\ timers_armed' \in Nat /\ timers_canceled' \in Nat /\ timeout_removes' \in Nat
         /\ TimerOps' = TimerOps + 1 + b2n(window_begin' # next_data_packet_to_send)
         /\ window_begin' # next_data_packet_to_send => timers_armed' > 0
  <1>1. /\ timers_armed \in Nat /\ timers_fired \in Nat /\ timers_canceled \in Nat
        /\ timeout_removes \in Nat
    BY Zenon DEF SessionInv, TypeOK
  <1> DEFINE removed == b2n(timers_armed > 0)
             rearm == b2n(window_begin' # next_data_packet_to_send)
  <1>2. /\ timers_armed' = timers_armed - removed + rearm
        /\ timers_canceled' = timers_canceled + removed
        /\ timeout_removes' = timeout_removes + 1 /\ timers_fired' = timers_fired
    BY DEF AckReceived, ShouldRearm
  <1>3. removed \in 0 .. 1 /\ removed <= timers_armed /\ rearm \in 0 .. 1
    BY <1>1 DEF b2n
  <1>4. window_begin' # next_data_packet_to_send => rearm = 1
    BY DEF b2n
  <1> HIDE DEF removed, rearm
  <1>5. TimerOps' = timers_armed' + timers_fired' + timers_canceled' + timeout_removes'
        /\ TimerOps = timers_armed + timers_fired + timers_canceled + timeout_removes
    BY DEF TimerOps
  <1>6. TimerOps' = TimerOps + 1 + rearm
    BY <1>1, <1>2, <1>3, <1>5
  <1>7. timers_armed' \in Nat /\ timers_canceled' \in Nat /\ timeout_removes' \in Nat
    BY <1>1, <1>2, <1>3
  <1>8. window_begin' # next_data_packet_to_send => timers_armed' > 0
    BY <1>1, <1>2, <1>3, <1>4
  <1> QED
    BY <1>6, <1>7, <1>8 DEF rearm

\* An ACK in the window.
LEMMA AckStep ==
  ASSUME SessionInv, Receiving, NEW p \in ClientPackets, AckReceived(p)
  PROVE  SessionInv'
  <1>0. status = "idle" /\ recv = "posted" /\ ~should_close
    BY DEF Receiving
  <1>1. /\ FetchState \in FetchRecord
        /\ FetchState.fetching = is_fetching_data /\ FetchState.reads = reads
    BY FetchStateTyped DEF SessionInv
  <1> DEFINE rearm == window_begin' # next_data_packet_to_send
  <1>2. /\ UNCHANGED <<request, fd, recv_removes, next_data_packet_to_send, last_packet,
                       blocks, expected_sequence_number, error_occurred, timers_fired>>
        /\ request.type = "read" /\ p.op = "ACK"
        /\ window_begin' = Succ(p.block) /\ current_retransmission' = 0
    BY DEF Receiving, AckReceived, writeVars
  <1>3. /\ should_close' = (last_packet # -1 /\ p.block = last_packet)
        /\ recv' = (IF should_close' THEN "none" ELSE "posted")
        /\ is_timer_active' = rearm
        /\ options_acknowledged' = (options_acknowledged \/ (OptionsPending /\ p.block = 0))
    BY DEF AckReceived, ShouldRearm, IsLastAck
  <1>4. /\ p.block \in Block
        /\ Dist(window_begin', next_data_packet_to_send') + 1 < BlockMod
        /\ OptionsPending => p.block = 0
    BY <1>0, <1>2, ClientAckFacts
  <1>5. ~OptionsPending'
    BY <1>2, <1>3, <1>4 DEF OptionsPending, valid_options_required
  <1>6. should_close' \in BOOLEAN /\ options_acknowledged' \in BOOLEAN
        /\ is_timer_active' \in BOOLEAN /\ recv' \in {"none", "posted", "canceled"}
    BY <1>3
  <1>7. BodyTyped
    <2>1. window_begin' \in Block /\ current_retransmission' \in 0 .. Retries
      BY <1>2, <1>4, BlockModAssumption, SessionAssumption DEF Block, Succ, Plus
    <2>2. timers_armed' \in Nat /\ timers_canceled' \in Nat /\ timeout_removes' \in Nat
      BY AckRing
    <2> QED
      BY <1>2, <1>6, <2>1, <2>2, Zenon DEF BodyTyped, SessionInv, TypeOK
  <1>8. BodyRing(JobsPlus(b2n(rearm) + b2n(~should_close')), FetchState)
    <2>1. b2n(recv # "none") = 1 /\ b2n(recv' # "none") = b2n(~should_close')
          /\ b2n(~should_close') \in 0 .. 1
      <3>1. CASE should_close' BY <1>0, <1>3, <3>1 DEF b2n
      <3>2. CASE ~should_close' BY <1>0, <1>3, <3>2 DEF b2n
      <3> QED BY <1>6, <3>1, <3>2
    <2>2. b2n(rearm) \in 0 .. 1 /\ b2n(WindowEmpty') \in 0 .. 1
          /\ b2n(rearm) + b2n(WindowEmpty') = 1
      BY <1>2 DEF b2n, WindowEmpty
    <2>3. TimerOps' = TimerOps + 1 + b2n(rearm)
      BY AckRing
    <2>4. TimerOps + 2 <= MaxTimers /\ TimerOps \in Nat
      BY <1>0, RingFacts DEF Receiving, TimerOps
    <2> HIDE DEF rearm
    <2>5. TimerOps' + b2n(WindowEmpty') <= MaxTimers
      BY <2>2, <2>3, <2>4, SessionAssumption
    <2>6. Others' = TimerOps' + b2n(recv' # "none") + recv_removes'
      BY DEF Others, TimerOps, b2n
    <2>7. Others' + reads = Others + reads + (b2n(rearm) + b2n(~should_close'))
      <3>1. recv_removes' = recv_removes
        BY <1>2
      <3>2. Others = TimerOps + b2n(recv # "none") + recv_removes
        BY <1>0, RingFacts
      <3>3. recv_removes \in Nat /\ reads \in Nat
        BY CountsTyped DEF SessionInv
      <3> QED BY <2>1, <2>2, <2>3, <2>4, <2>6, <3>1, <3>2, <3>3
    <2>8. recv_removes' + b2n(~should_close') <= 1
      <3>1. recv_removes = 0
        BY <1>0, RingFacts DEF b2n
      <3> QED BY <1>2, <2>1, <3>1
    <2>9. b2n(rearm) + b2n(~should_close') \in Int
      BY <2>1, <2>2
    <2> QED
      BY <1>0, <1>1, <1>7, <2>5, <2>7, <2>8, <2>9, RingFacts, RingIntro
  <1>9. BodyWindow(FetchState)
    <2>1. ~should_close' => recv' = "posted"
      BY <1>3
    <2>2. request.type # "write"
      BY <1>2
    <2>3. rearm => timers_armed' + timers_fired' > 0
      BY <1>0, <1>2, AckRing, RingFacts
    <2>4. rearm <=> window_begin' # next_data_packet_to_send'
      BY <1>2
    <2>5. is_timer_active' <=> rearm
      BY <1>3
    <2> HIDE DEF rearm
    <2> QED
      BY <1>2, <1>4, <1>5, <2>1, <2>2, <2>3, <2>4, <2>5, Zenon DEF BodyWindow
  <1> QED
    BY <1>7, <1>8, <1>9, EpiloguePreserves DEF AckReceived, ShouldRearm, IsLastAck

\* Once the server has failed only the types matter.
LEMMA ErrorPreserves ==
  ASSUME TypeOK', status' = "error"
  PROVE  SessionInv'
  BY DEF SessionInv, JobsMatchRing, RingShape, NewIsFresh, FetchRoom, TimerWindow,
     OptionsFirst, WriteWindow, ClosedMeansQuiet, NeverHung, WaitingIsTimed, Running

\* Every packet a client may send.
LEMMA PacketStep ==
  ASSUME SessionInv, NEW p \in ClientPackets, PacketReceived(p)
  PROVE  SessionInv'
  <1>1. Receiving
    BY DEF PacketReceived, Receiving
  <1>2. error_occurred \in BOOLEAN
    BY Zenon DEF SessionInv, TypeOK
  <1>3. CASE Ignore
    BY <1>1, <1>2, <1>3, NeutralPacket DEF Ignore
  <1>4. CASE UnexpectedPeer(p)
    BY <1>1, <1>4, NeutralPacket DEF UnexpectedPeer
  <1>5. CASE Abort(p)
    BY <1>1, <1>5, AbortStep
  <1>6. CASE AckReceived(p)
    BY <1>1, <1>6, AckStep
  <1>7. CASE DataReceived(p)
    BY <1>1, <1>7, DataStep
  <1>8. CASE WriteFails(p)
    <2>1. TypeOK'
      BY <1>1, <1>8, Zenon DEF Receiving, WriteFails, SessionInv, TypeOK, windowVars,
         fetchVars, writeVars, timerVars
    <2> QED BY <1>8, <2>1, ErrorPreserves DEF WriteFails
  <1> QED
    BY <1>3, <1>4, <1>5, <1>6, <1>7, <1>8 DEF PacketReceived, on_packet_received

-----------------------------------------------------------------------------
(* Reading the file. *)

\* A completed read leaves well formed buffers and sizes within their bounds.
LEMMA ReadTyped ==
  ASSUME TypeOK, NEW n \in ReadSizes
  PROVE  /\ last_block_size + n \in 0 .. BlockSize /\ file_offset + n \in 0 .. FileLen
         /\ ReadInto(n) \in [0 .. request.window - 1 -> Slot]
         /\ [ReadInto(n) EXCEPT ![SlotOf(next_data_packet_to_send)].block =
                                  next_data_packet_to_send]
              \in [0 .. request.window - 1 -> Slot]
  <1> DEFINE most == Least(BlockSize - last_block_size, FileLen - file_offset)
             s == SlotOf(next_data_packet_to_send)
             fill == [i \in 1 .. BlockSize |->
                        IF i \in last_block_size + 1 .. last_block_size + n
                        THEN file_offset + i - last_block_size
                        ELSE data_packets[s].data[i]]
  <1>1. /\ last_block_size \in 0 .. BlockSize /\ file_offset \in 0 .. FileLen
        /\ data_packets \in [0 .. request.window - 1 -> Slot] /\ request \in Requests
        /\ next_data_packet_to_send \in Block
    BY Zenon DEF TypeOK
  <1>2. most \in Nat /\ most <= BlockSize - last_block_size /\ most <= FileLen - file_offset
    BY <1>1, PacketAssumption DEF Least
  <1>3. n \in Nat /\ n <= most
    BY <1>2 DEF ReadSizes
  <1>4. last_block_size + n \in 0 .. BlockSize /\ file_offset + n \in 0 .. FileLen
    BY <1>1, <1>2, <1>3, PacketAssumption
  <1>5. s \in 0 .. request.window - 1
    <2>1. request \in ServerRequest /\ window_size \in {1, request.window}
      BY <1>1, SessionAssumption DEF window_size
    <2> QED BY <1>1, <2>1, SlotExists DEF SlotOf
  <1>6. data_packets[s] \in Slot
    BY <1>1, <1>5
  <1>7. \A i \in 1 .. BlockSize : data_packets[s].data[i] \in 0 .. FileLen
    BY <1>6 DEF Slot
  <1>8. \A i \in 1 .. BlockSize : i \in last_block_size + 1 .. last_block_size + n =>
          file_offset + i - last_block_size \in 0 .. FileLen
    BY <1>1, <1>3, <1>4, PacketAssumption
  <1>9. fill \in [1 .. BlockSize -> 0 .. FileLen]
    BY <1>7, <1>8
  <1>10. ReadInto(n) = [data_packets EXCEPT ![s].data = fill]
    BY DEF ReadInto
  <1> HIDE DEF fill, s
  <1>11. ReadInto(n) \in [0 .. request.window - 1 -> Slot]
    <2>1. [data_packets[s] EXCEPT !.data = fill] \in Slot
      BY <1>6, <1>9 DEF Slot
    <2> QED BY <1>1, <1>5, <1>10, <2>1
  <1>12. [ReadInto(n) EXCEPT ![s].block = next_data_packet_to_send]
           \in [0 .. request.window - 1 -> Slot]
    <2>1. [ReadInto(n)[s] EXCEPT !.block = next_data_packet_to_send] \in Slot
      BY <1>1, <1>5, <1>11 DEF Slot
    <2> QED BY <1>5, <1>11, <2>1
  <1> QED
    BY <1>4, <1>11, <1>12 DEF s

\* A state whose read has just completed, with any sizes and buffers of their types.
LEMMA FetchedTyped ==
  ASSUME NEW size \in 0 .. BlockSize, NEW incomplete \in BOOLEAN,
         NEW slots \in [0 .. request.window - 1 -> Slot], NEW offset \in 0 .. FileLen,
         reads = 1
  PROVE  /\ Fetched(size, incomplete, slots, offset) \in FetchRecord
         /\ Fetched(size, incomplete, slots, offset).fetching = FALSE
         /\ Fetched(size, incomplete, slots, offset).reads = 0
  BY DEF Fetched, FetchRecord

\* Reads complete only in read sessions whose options are settled.
LEMMA FetchingFacts ==
  ASSUME SessionInv, status = "idle", reads > 0
  PROVE  /\ reads = 1 /\ is_fetching_data /\ request.type = "read" /\ ~OptionsPending
         /\ Dist(window_begin, next_data_packet_to_send) + 1 < BlockMod
  <1>1. is_fetching_data \in BOOLEAN /\ reads = b2n(is_fetching_data)
    BY RingFacts, Zenon DEF SessionInv, TypeOK
  <1>2. is_fetching_data /\ reads = 1
    BY <1>1 DEF b2n
  <1> QED
    BY <1>2, WindowFacts, Zenon

\* What every completion of a read leaves alone.
Reading ==
  /\ status = "idle" /\ reads > 0
  /\ UNCHANGED <<request, fd, options_acknowledged, current_retransmission,
                 expected_sequence_number, timers_fired, timers_canceled,
                 timeout_removes, recv, recv_removes>>

\* The read failed, or the block is not complete: nothing is sent from the window.
LEMMA QuietReadStep ==
  ASSUME SessionInv, Reading, NEW f \in FetchRecord, f.fetching = FALSE, f.reads = 0,
         UNCHANGED <<windowVars, timers_armed, is_timer_active>>,
         should_close' \in BOOLEAN, error_occurred' \in BOOLEAN,
         should_close => should_close', Epilogue(JobsPlus(-1), f)
  PROVE  SessionInv'
  <1>0. status = "idle" /\ reads > 0
    BY DEF Reading
  <1>1. UNCHANGED <<request, fd, options_acknowledged, is_timer_active, window_begin,
                    next_data_packet_to_send, last_packet, blocks,
                    expected_sequence_number, current_retransmission, timers_armed,
                    timers_fired, timers_canceled, timeout_removes, recv, recv_removes>>
    BY DEF Reading, windowVars
  <1>2. OptionsPending' = OptionsPending /\ WindowEmpty' = WindowEmpty
        /\ TimerOps' = TimerOps /\ Others' = Others
    BY <1>1 DEF OptionsPending, valid_options_required, WindowEmpty, TimerOps, Others, b2n
  <1>3. BodyTyped
    BY <1>1, Zenon DEF BodyTyped, SessionInv, TypeOK
  <1>4. BodyRing(JobsPlus(-1), f)
    <2>1. Others' + f.reads = Others + reads + (-1)
      BY <1>0, <1>2, FetchingFacts, CountsTyped DEF SessionInv
    <2>2. f.reads = b2n(f.fetching)
      BY DEF b2n
    <2>3. TimerOps' + b2n(WindowEmpty') <= MaxTimers
      BY <1>0, <1>2, RingFacts
    <2>4. recv_removes' + b2n(~should_close') <= 1
      <3>1. recv_removes \in Nat /\ recv_removes + b2n(~should_close) <= 1
            /\ should_close \in BOOLEAN /\ recv_removes' = recv_removes
        BY <1>0, <1>1, RingFacts
      <3>2. CASE should_close'
        BY <3>1, <3>2 DEF b2n
      <3>3. CASE ~should_close'
        BY <3>1, <3>3 DEF b2n
      <3> QED BY <3>2, <3>3
    <2> QED
      BY <1>0, <1>3, <2>1, <2>2, <2>3, <2>4, RingIntro
  <1>5. BodyWindow(f)
    <2>1. ~f.fetching
      OBVIOUS
    <2>2. ~OptionsPending' /\ request.type = "read"
      BY <1>0, <1>2, FetchingFacts
    <2>3. request.type # "write"
      BY <2>2
    <2>4. is_timer_active' => window_begin' # next_data_packet_to_send'
      BY <1>0, <1>1, <1>2, <2>2, WindowFacts
    <2>5. ~should_close' =>
            /\ recv' = "posted"
            /\ window_begin' # next_data_packet_to_send' =>
                 is_timer_active' /\ timers_armed' + timers_fired' > 0
      BY <1>0, <1>1, WindowFacts
    <2> QED
      BY <2>1, <2>2, <2>3, <2>4, <2>5, Zenon DEF BodyWindow
  <1> QED
    BY <1>3, <1>4, <1>5, EpiloguePreserves

\* The block is complete and is sent.
LEMMA SendStep ==
  ASSUME SessionInv, Reading, NEW f \in FetchRecord, f.fetching = FALSE, f.reads = 0,
         SendBlock(f)
  PROVE  SessionInv'
  <1> DEFINE alone == window_begin = next_data_packet_to_send
  <1>0. status = "idle" /\ reads > 0
    BY DEF Reading
  <1>1. UNCHANGED <<request, fd, options_acknowledged, window_begin, should_close,
                    error_occurred, expected_sequence_number, current_retransmission,
                    timers_fired, timers_canceled, timeout_removes, recv, recv_removes>>
    BY DEF Reading, SendBlock
  <1>2. /\ next_data_packet_to_send' = Succ(next_data_packet_to_send)
        /\ timers_armed' = timers_armed + b2n(alone)
        /\ is_timer_active' = (is_timer_active \/ alone)
        /\ blocks' = blocks + 1
        /\ last_packet' = (IF f.size < BlockSize THEN next_data_packet_to_send
                                                 ELSE last_packet)
    BY DEF SendBlock
  <1>3. window_begin' # next_data_packet_to_send' /\ ~OptionsPending
        /\ request.type = "read" /\ reads = 1
    <2>1. window_begin \in Block /\ next_data_packet_to_send \in Block
      BY Zenon DEF SessionInv, TypeOK
    <2> QED
      BY <1>0, <1>1, <1>2, <2>1, FetchingFacts, SendingLengthens
  <1>4. OptionsPending' = OptionsPending
    BY <1>1 DEF OptionsPending, valid_options_required
  <1>5. b2n(alone) \in 0 .. 1 /\ b2n(alone) = b2n(WindowEmpty) /\ b2n(WindowEmpty') = 0
    BY <1>3 DEF b2n, WindowEmpty
  <1>6. BodyTyped
    <2>1. /\ window_begin \in Block /\ next_data_packet_to_send \in Block
          /\ last_packet \in Block \cup {-1} /\ blocks \in Nat /\ timers_armed \in Nat
      BY Zenon DEF SessionInv, TypeOK
    <2>2. next_data_packet_to_send' \in Block
      BY <1>2, <2>1, BlockModAssumption DEF Block, Succ, Plus
    <2>3. last_packet' \in Block \cup {-1}
      BY <1>2, <2>1
    <2>4. blocks' \in Nat /\ timers_armed' \in Nat
      BY <1>2, <1>5, <2>1
    <2>5. is_timer_active' \in BOOLEAN
      BY <1>2
    <2> QED
      BY <1>1, <2>2, <2>3, <2>4, <2>5, Zenon DEF BodyTyped, SessionInv, TypeOK
  <1>7. BodyRing(JobsPlus(-1 + b2n(alone)), f)
    <2> HIDE DEF alone
    <2>1. TimerOps' = TimerOps + b2n(alone) /\ TimerOps \in Nat
      BY <1>0, <1>1, <1>2, <1>5, RingFacts DEF TimerOps
    <2>2. Others' = TimerOps' + b2n(recv' # "none") + recv_removes'
          /\ b2n(recv' # "none") = b2n(recv # "none")
      BY <1>1 DEF Others, TimerOps, b2n
    <2>3. Others' + f.reads = Others + reads + (-1 + b2n(alone))
      <3>1. recv_removes' = recv_removes
        BY <1>1
      <3> QED
        BY <1>0, <1>3, <1>5, <2>1, <2>2, <3>1, RingFacts
    <2>4. f.reads = b2n(f.fetching)
      BY DEF b2n
    <2>5. TimerOps' + b2n(WindowEmpty') <= MaxTimers
      BY <1>0, <1>5, <2>1, RingFacts, SessionAssumption
    <2>6. recv_removes' + b2n(~should_close') <= 1
      BY <1>0, <1>1, RingFacts
    <2>7. -1 + b2n(alone) \in Int
      BY <1>5
    <2> QED
      BY <1>0, <1>6, <2>3, <2>4, <2>5, <2>6, <2>7, RingIntro
  <1>8. BodyWindow(f)
    <2>1. ~f.fetching
      OBVIOUS
    <2>2. ~should_close' => recv' = "posted" /\ is_timer_active'
                            /\ timers_armed' + timers_fired' > 0
      <3>1. CASE alone
        <4>1. b2n(alone) = 1
          BY <3>1 DEF b2n
        <4>2. timers_armed \in Nat /\ timers_fired \in Nat
          BY <1>0, RingFacts
        <4>3. timers_armed' + timers_fired' > 0
          BY <1>1, <1>2, <4>1, <4>2
        <4> QED BY <1>0, <1>1, <1>2, <3>1, <4>3, WindowFacts
      <3>2. CASE ~alone
        <4>1. b2n(alone) = 0
          BY <3>2 DEF b2n
        <4>2. timers_armed \in Nat /\ timers_fired \in Nat
          BY <1>0, RingFacts
        <4>3. timers_armed' + timers_fired' = timers_armed + timers_fired
          BY <1>1, <1>2, <4>1, <4>2
        <4> QED BY <1>0, <1>1, <1>2, <3>2, <4>3, WindowFacts
      <3> QED BY <3>1, <3>2
    <2>3. request.type # "write"
      BY <1>3
    <2> QED
      BY <1>3, <1>4, <2>1, <2>2, <2>3, Zenon DEF BodyWindow
  <1> QED
    BY <1>6, <1>7, <1>8, EpiloguePreserves DEF SendBlock

\* on_data_available.
LEMMA DataAvailableStep ==
  ASSUME SessionInv, DataAvailable
  PROVE  SessionInv'
  <1>1. Reading
    BY DEF DataAvailable, Reading, writeVars, recvVars
  <1>2. reads = 1
    BY <1>1, FetchingFacts DEF Reading
  <1>3. /\ last_block_size \in 0 .. BlockSize /\ incomplete_read \in BOOLEAN
        /\ data_packets \in [0 .. request.window - 1 -> Slot]
        /\ file_offset \in 0 .. FileLen
        /\ should_close \in BOOLEAN /\ error_occurred \in BOOLEAN
    BY Zenon DEF SessionInv, TypeOK
  <1>4. CASE ReadFailed
    <2> DEFINE f == Fetched(last_block_size, incomplete_read, data_packets, file_offset)
    <2>1. f \in FetchRecord /\ f.fetching = FALSE /\ f.reads = 0
      BY <1>2, <1>3, FetchedTyped, Zenon
    <2>2. /\ UNCHANGED <<windowVars, timers_armed, is_timer_active>>
          /\ should_close' \in BOOLEAN /\ error_occurred' \in BOOLEAN /\ should_close'
          /\ Epilogue(JobsPlus(-1), f)
      BY <1>4 DEF ReadFailed
    <2> HIDE DEF f
    <2> QED BY <1>1, <2>1, <2>2, QuietReadStep
  <1>5. CASE NetasciiBlockReady
    BY <1>1, <1>2, <1>3, <1>5, FetchedTyped, SendStep DEF NetasciiBlockReady
  <1>6. ASSUME NEW n \in ReadSizes, ReadIncomplete(n)
        PROVE  SessionInv'
    <2>1. last_block_size + n \in 0 .. BlockSize /\ file_offset + n \in 0 .. FileLen
          /\ ReadInto(n) \in [0 .. request.window - 1 -> Slot]
      BY ReadTyped DEF SessionInv
    <2> DEFINE f == Fetched(last_block_size + n, TRUE, ReadInto(n), file_offset + n)
    <2>2. f \in FetchRecord /\ f.fetching = FALSE /\ f.reads = 0
      BY <1>2, <2>1, FetchedTyped
    <2>3. /\ UNCHANGED <<windowVars, timers_armed, is_timer_active>>
          /\ should_close' = should_close /\ error_occurred' = error_occurred
          /\ Epilogue(JobsPlus(-1), f)
      BY <1>6 DEF ReadIncomplete
    <2> HIDE DEF f
    <2>4. should_close' \in BOOLEAN /\ error_occurred' \in BOOLEAN
      BY <1>3, <2>3
    <2> QED BY <1>1, <2>2, <2>3, <2>4, QuietReadStep
  <1>7. ASSUME NEW n \in ReadSizes, ReadComplete(n)
        PROVE  SessionInv'
    <2> DEFINE slots == [ReadInto(n) EXCEPT ![SlotOf(next_data_packet_to_send)].block =
                                              next_data_packet_to_send]
    <2>1. last_block_size + n \in 0 .. BlockSize /\ file_offset + n \in 0 .. FileLen
          /\ slots \in [0 .. request.window - 1 -> Slot]
      BY ReadTyped DEF SessionInv
    <2>2. SendBlock(Fetched(last_block_size + n, incomplete_read, slots, file_offset + n))
      BY <1>7 DEF ReadComplete
    <2> DEFINE f == Fetched(last_block_size + n, incomplete_read, slots, file_offset + n)
    <2> HIDE DEF slots
    <2>3. f \in FetchRecord /\ f.fetching = FALSE /\ f.reads = 0
      BY <1>2, <1>3, <2>1, FetchedTyped, Zenon
    <2> HIDE DEF f
    <2>4. SendBlock(f)
      BY <2>2 DEF f
    <2> QED
      BY <1>1, <2>3, <2>4, SendStep
  <1> QED
    BY <1>4, <1>5, <1>6, <1>7 DEF DataAvailable

-----------------------------------------------------------------------------
(* The remaining steps. *)

\* EVENT_START leaves at most one timer and one receive.
LEMMA StartStep ==
  ASSUME SessionInv, Start
  PROVE  SessionInv'
  <1> DEFINE valid == is_request_valid
             opened == FileOpens
             oack == SendsOack
             k == b2n(oack) + b2n(valid)
  <1>0. /\ status = "new" /\ should_close' = ~valid
        /\ error_occurred' = (valid /\ ~opened)
        /\ timers_armed' = b2n(oack) /\ is_timer_active' = oack
        /\ recv' = (IF valid THEN "posted" ELSE "none")
    BY DEF Start, start, is_request_valid, FileOpens, SendsOack
  <1>1. UNCHANGED <<request, options_acknowledged, current_retransmission, window_begin,
                    next_data_packet_to_send, last_packet, blocks,
                    expected_sequence_number, timers_fired, timers_canceled,
                    timeout_removes, recv_removes>>
    BY DEF Start, windowVars, writeVars
  <1>2. fd' \in {"zero", "file", "none"} /\ (fd' = "file" <=> opened)
    BY DEF Start, start, is_request_valid, FileOpens, SendsOack
  <1>3. valid \in BOOLEAN /\ opened \in BOOLEAN /\ oack \in BOOLEAN
    BY SessionAssumption
    DEF SessionInv, TypeOK, ServerRequest, is_request_valid, FileOpens, SendsOack
  <1>4. /\ InFlight = 0 /\ ~is_fetching_data /\ ~options_acknowledged
        /\ window_begin = next_data_packet_to_send /\ next_data_packet_to_send = 1
    BY <1>0 DEF SessionInv, NewIsFresh
  <1>5. /\ timers_armed \in Nat /\ timers_fired \in Nat /\ timers_canceled \in Nat
        /\ timeout_removes \in Nat /\ recv_removes \in Nat /\ reads \in Nat
    BY Zenon DEF SessionInv, TypeOK
  <1>6. /\ timers_fired = 0 /\ timers_canceled = 0 /\ timeout_removes = 0
        /\ recv_removes = 0 /\ reads = 0 /\ Others = 0
    <2>1. b2n(recv # "none") \in 0 .. 1
      BY CountOne
    <2>2. timers_armed + timers_fired + timers_canceled + timeout_removes
            + b2n(recv # "none") + recv_removes + reads = 0
      BY <1>4 DEF InFlight
    <2>3. Others = timers_armed + timers_fired + timers_canceled + timeout_removes
                   + b2n(recv # "none") + recv_removes
      BY DEF Others
    <2> DEFINE r == b2n(recv # "none")
    <2>4. r \in Nat
      BY <2>1
    <2> HIDE DEF valid, opened, oack, k, r
    <2>5. /\ timers_armed = 0 /\ timers_fired = 0 /\ timers_canceled = 0
          /\ timeout_removes = 0 /\ recv_removes = 0 /\ reads = 0 /\ r = 0
      <3>1. timers_armed + timers_fired + timers_canceled + timeout_removes
              + r + recv_removes + reads = 0
        BY <2>2 DEF r
      <3> QED BY <1>5, <2>4, <3>1
    <2> QED BY <2>3, <2>5 DEF r
  <1> HIDE DEF valid, opened, oack
  <1>7. BodyTyped
    <2>1. timers_armed' \in Nat
      BY <1>0, <1>3, CountOne
    <2>2. recv' \in {"none", "posted", "canceled"}
      BY <1>0
    <2>3. should_close' \in BOOLEAN /\ error_occurred' \in BOOLEAN /\ is_timer_active' \in BOOLEAN
      BY <1>0, <1>3
    <2> QED
      BY <1>1, <1>2, <2>1, <2>2, <2>3, Zenon DEF BodyTyped, SessionInv, TypeOK
  <1>8. OptionsPending' <=> oack
    BY <1>1, <1>2, <1>4 DEF OptionsPending, valid_options_required, opened, oack, SendsOack
  <1>9. BodyRing(JobsPlus(k), FetchState)
    <2>1. /\ FetchState \in FetchRecord /\ FetchState.fetching = is_fetching_data
          /\ FetchState.reads = reads
      BY FetchStateTyped DEF SessionInv
    <2>2. FetchState.reads = b2n(FetchState.fetching)
      BY <1>4, <1>6, <2>1 DEF b2n
    <2>3. b2n(recv' # "none") = b2n(valid)
      BY <1>0, <1>3 DEF b2n
    <2>4. b2n(oack) \in 0 .. 1 /\ b2n(valid) \in 0 .. 1
      BY <1>3, CountOne
    <2>5. TimerOps' = b2n(oack)
      BY <1>0, <1>1, <1>6, <2>4 DEF TimerOps
    <2>6. Others' = b2n(oack) + b2n(valid)
      <3>1. Others' = TimerOps' + b2n(recv' # "none") + recv_removes'
        BY DEF Others, TimerOps, b2n
      <3> QED BY <1>1, <1>6, <2>3, <2>4, <2>5, <3>1
    <2>7. TimerOps' + b2n(WindowEmpty') <= MaxTimers
      <3>1. b2n(WindowEmpty') \in 0 .. 1
        BY DEF b2n
      <3> QED BY <2>4, <2>5, <3>1, SessionAssumption
    <2>8. recv_removes' + b2n(~should_close') <= 1
      <3>1. b2n(~should_close') \in 0 .. 1
        BY DEF b2n
      <3> QED BY <1>1, <1>6, <3>1
    <2>9. Others' + FetchState.reads = Others + reads + k /\ k \in Int
      BY <1>6, <2>1, <2>4, <2>6
    <2> QED
      BY <1>0, <1>7, <2>1, <2>2, <2>7, <2>8, <2>9, RingIntro
  <1>10. BodyWindow(FetchState)
    <2>1. FetchState.fetching = is_fetching_data
      BY FetchStateTyped DEF SessionInv
    <2>2. ~FetchState.fetching
      BY <1>4, <2>1
    <2>3. window_begin' = next_data_packet_to_send' /\ next_data_packet_to_send' = 1
      BY <1>1, <1>4
    <2>4. request.type \in {"read", "write"}
      BY SessionAssumption DEF SessionInv, TypeOK, ServerRequest
    <2>5. request.type = "read" => blocks' = 0
      BY <1>0, <1>1 DEF SessionInv, OptionsFirst, Running
    <2>6. oack => timers_armed' + timers_fired' > 0
      BY <1>0, <1>1, <1>6 DEF b2n
    <2>7. ~should_close' => recv' = "posted"
      BY <1>0, <1>3
    <2>8. is_timer_active' = oack
      BY <1>0
    <2> QED
      BY <1>3, <1>8, <2>2, <2>3, <2>5, <2>6, <2>7, <2>8, Zenon DEF BodyWindow
  <1>11. Epilogue(JobsPlus(k), FetchState)
    BY DEF Start, valid, oack, k
  <1> QED
    BY <1>7, <1>9, <1>10, <1>11, EpiloguePreserves

\* A timer that fires stays in the ring until its completion is handled.
LEMMA TimerFiresStep ==
  ASSUME SessionInv, TimerFires
  PROVE  SessionInv'
  <1>1. UNCHANGED <<request, fd, pending_jobs, status, should_close,
                    options_acknowledged, is_timer_active, current_retransmission,
                    error_occurred, window_begin, next_data_packet_to_send, last_packet,
                    blocks, is_fetching_data, last_block_size, incomplete_read,
                    data_packets, file_offset, reads, expected_sequence_number,
                    timers_canceled, timeout_removes, recv, recv_removes>>
    BY DEF TimerFires, controlVars, windowVars, fetchVars, writeVars, recvVars
  <1>2. /\ status = "idle" /\ timers_armed > 0
        /\ timers_armed' = timers_armed - 1 /\ timers_fired' = timers_fired + 1
    BY DEF TimerFires
  <1>3. /\ timers_armed \in Nat /\ timers_fired \in Nat /\ timers_canceled \in Nat
        /\ timeout_removes \in Nat
    BY Zenon DEF SessionInv, TypeOK
  <1>4. timers_armed' \in Nat /\ timers_fired' \in Nat
        /\ timers_armed' + timers_fired' = timers_armed + timers_fired
    BY <1>2, <1>3
  <1>5. TypeOK'
    BY <1>1, <1>4 DEF SessionInv, TypeOK
  <1>6. InFlight' = InFlight /\ TimerOps' = TimerOps
    <2>1. b2n(recv # "none") \in 0 .. 1
      BY CountOne
    <2>2. TimerOps' = TimerOps
      BY <1>1, <1>3, <1>4 DEF TimerOps
    <2>3. InFlight = TimerOps + b2n(recv # "none") + recv_removes + reads
          /\ InFlight' = TimerOps' + b2n(recv' # "none") + recv_removes' + reads'
      BY DEF InFlight, TimerOps, b2n
    <2> QED BY <1>1, <2>2, <2>3
  <1>7. JobsMatchRing' /\ NewIsFresh' /\ ClosedMeansQuiet' /\ NeverHung'
    BY <1>1, <1>2, <1>6 DEF SessionInv, JobsMatchRing, NewIsFresh, ClosedMeansQuiet,
       NeverHung, Running
  <1>8. RingShape'
    <2>1. /\ reads = b2n(is_fetching_data) /\ recv_removes + b2n(~should_close) <= 1
          /\ TimerOps + b2n(WindowEmpty) <= MaxTimers
      BY <1>2, RingFacts
    <2>2. TimerOps' + b2n(WindowEmpty') <= MaxTimers
      BY <1>1, <1>6, <2>1 DEF WindowEmpty
    <2> QED
      BY <1>1, <2>1, <2>2 DEF RingShape, TimerOps, WindowEmpty
  <1>9. FetchRoom' /\ OptionsFirst' /\ WriteWindow' /\ TimerWindow' /\ WaitingIsTimed'
    BY <1>1, <1>4 DEF SessionInv, FetchRoom, OptionsFirst, WriteWindow, TimerWindow,
       WaitingIsTimed, Running, OptionsPending, valid_options_required
  <1> QED
    BY <1>5, <1>7, <1>8, <1>9 DEF SessionInv

\* A step that changes nothing keeps the invariant.
LEMMA StutterStep ==
  ASSUME SessionInv, UNCHANGED sessionVars
  PROVE  SessionInv'
  BY DEF sessionVars, controlVars, windowVars, fetchVars, writeVars, timerVars, recvVars,
     SessionInv, TypeOK, JobsMatchRing, RingShape, NewIsFresh, FetchRoom, TimerWindow,
     OptionsFirst, WriteWindow, ClosedMeansQuiet, NeverHung, WaitingIsTimed, Running,
     InFlight, OptionsPending, valid_options_required

\* Every session starts in the invariant.
LEMMA InitInv == SessionInit => SessionInv
  <1> SUFFICES ASSUME SessionInit PROVE SessionInv
    OBVIOUS
  <1>1. request \in ServerRequest /\ request \in Requests
    BY SessionAssumption DEF SessionInit
  <1>2. 1 \in Block /\ 0 \in Block
    BY BlockModAssumption DEF Block
  <1>3. EmptySlot \in Slot
    <2>1. \A i \in 1 .. BlockSize : 0 \in 0 .. FileLen
      BY PacketAssumption
    <2> QED BY <1>2, <2>1 DEF EmptySlot, Slot
  <1>4. data_packets \in [0 .. request.window - 1 -> Slot]
    BY <1>3 DEF SessionInit
  <1>5. /\ last_block_size \in 0 .. BlockSize /\ current_retransmission \in 0 .. Retries
        /\ pending_jobs \in 0 .. JobMod - 1 /\ file_offset \in 0 .. FileLen
    BY SessionAssumption, PacketAssumption DEF SessionInit
  <1>6. TypeOK
    BY <1>1, <1>2, <1>4, <1>5 DEF SessionInit, TypeOK
  <1>7. b2n(recv # "none") = 0 /\ b2n(is_fetching_data) = 0 /\ b2n(~should_close) = 1
        /\ b2n(window_begin = next_data_packet_to_send) = 1
    BY DEF SessionInit, b2n
  <1>8. InFlight = 0
    BY <1>7 DEF SessionInit, InFlight
  <1>9. RingShape /\ JobsMatchRing /\ NewIsFresh
    BY <1>7, <1>8, SessionAssumption DEF SessionInit, RingShape, JobsMatchRing, NewIsFresh
  <1>10. /\ FetchRoom /\ TimerWindow /\ OptionsFirst /\ WriteWindow /\ ClosedMeansQuiet
         /\ NeverHung /\ WaitingIsTimed
    BY DEF SessionInit, FetchRoom, TimerWindow, OptionsFirst, WriteWindow,
       ClosedMeansQuiet, NeverHung, WaitingIsTimed
  <1> QED
    BY <1>6, <1>9, <1>10 DEF SessionInv

\* Every step keeps it.
LEMMA NextInv ==
  ASSUME SessionInv, [SessionNext]_sessionVars
  PROVE  SessionInv'
  <1>1. CASE Start
    BY <1>1, StartStep
  <1>2. CASE TimeoutHandled
    BY <1>2, TimeoutStep
  <1>3. CASE TimeoutIgnored \/ TimeoutCanceled \/ TimeoutRemoved \/ RecvRemoved
    BY <1>3, CompletionStep
  <1>4. CASE RecvCanceled \/ PacketDropped
    BY <1>4, RecvDroppedStep DEF RecvCanceled, PacketDropped
  <1>5. CASE DataAvailable
    BY <1>5, DataAvailableStep
  <1>6. CASE PacketArrives
    BY <1>6, PacketStep DEF PacketArrives
  <1>7. CASE TimerFires
    BY <1>7, TimerFiresStep
  <1>8. CASE SyscallFailure
    <2>1. UNCHANGED <<request, fd, pending_jobs, should_close, options_acknowledged,
                      is_timer_active, current_retransmission, error_occurred,
                      window_begin, next_data_packet_to_send, last_packet, blocks,
                      is_fetching_data, last_block_size, incomplete_read, data_packets,
                      file_offset, reads, expected_sequence_number, timers_armed,
                      timers_fired, timers_canceled, timeout_removes, recv, recv_removes>>
          /\ status' = "error"
      BY <1>8 DEF SyscallFailure, windowVars, fetchVars, writeVars, timerVars, recvVars
    <2>2. TypeOK'
      BY <2>1 DEF SessionInv, TypeOK
    <2> QED BY <2>1, <2>2, ErrorPreserves
  <1>9. CASE UNCHANGED sessionVars
    BY <1>9, StutterStep
  <1> QED
    BY <1>1, <1>2, <1>3, <1>4, <1>5, <1>6, <1>7, <1>8, <1>9
       DEF SessionNext, RingEvent, Done

-----------------------------------------------------------------------------
\* The inductive invariant holds in every state of every session.
THEOREM SessionInvariant == SessionSpec => []SessionInv
  <1>1. SessionInit => SessionInv
    BY InitInv
  <1>2. SessionInv /\ [SessionNext]_sessionVars => SessionInv'
    BY NextInv
  <1> QED
    BY <1>1, <1>2, PTL DEF SessionSpec

\* The fields of struct tftp_session stay within their types.
THEOREM TypeCorrect == SessionSpec => []TypeOK
  <1>1. SessionInv => TypeOK
    BY DEF SessionInv
  <1> QED
    BY <1>1, SessionInvariant, PTL

\* When tftp_session_handle_event reports a session closed, no operation of the
\* session is in the ring: pending_jobs never drifts from it, nor wraps.
THEOREM ClosingIsSafe == SessionSpec => []ClosedMeansQuiet
  <1>1. SessionInv => ClosedMeansQuiet
    BY DEF SessionInv
  <1> QED
    BY <1>1, SessionInvariant, PTL

\* The retransmission loop of on_timeout is entered only with a packet to send.
THEOREM RetransmissionEnds == SessionSpec => []NeverHung
  <1>1. SessionInv => NeverHung
    BY DEF SessionInv
  <1> QED
    BY <1>1, SessionInvariant, PTL

\* A session that waits for its client listens and has a timer, whatever timers
\* were removed, fired too late or were armed twice before.
THEOREM WaitingHasTimer == SessionSpec => []WaitingIsTimed
  <1>1. SessionInv => WaitingIsTimed
    BY DEF SessionInv
  <1> QED
    BY <1>1, SessionInvariant, PTL
=============================================================================
