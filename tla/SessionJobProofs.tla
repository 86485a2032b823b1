-------------------------- MODULE SessionJobProofs --------------------------
(***************************************************************************)
(* For every request, window, file and modulus: the session implements the *)
(* job that the worker and the worker pool rely on.                        *)
(***************************************************************************)
EXTENDS ServerSessionProofs

\* What a call of tftp_session_handle_event returns.
HandlerReturns ==
  /\ status' \in {"idle", "closed", "error"}
  /\ status' = "idle" /\ should_close' => pending_jobs' # 0

\* The tail of the handler keeps a session that closes only for the operations that
\* are left, and never takes a read out of the ring.
LEMMA EpilogueReturns ==
  ASSUME NEW jobs \in Int, NEW f, f.reads \in Int, Epilogue(jobs, f)
  PROVE  HandlerReturns /\ reads' >= f.reads
  <1>1. CASE ShouldFetch(f) /\ status' = "idle" /\ reads' = f.reads + 1
    BY <1>1 DEF HandlerReturns, ShouldFetch
  <1>2. CASE (FetchFails(f) \/ NoFetch(jobs, f)) /\ reads' = f.reads /\ pending_jobs' = jobs
    BY <1>2 DEF HandlerReturns, FetchFails, NoFetch
  <1> QED
    BY <1>1, <1>2 DEF Epilogue

\* What the ring holds after a call, where the counts are split in two.
LEMMA OneLess ==
  \A a, b, c, d \in Nat : c >= a - 1 /\ d >= b => c + d >= a + b - 1
  OBVIOUS

\* The same with the two parts exchanged.
LEMMA NoneLess ==
  \A a, b, c, d \in Nat : c >= a /\ d >= b - 1 => c + d >= a + b - 1
  OBVIOUS

\* Every counter of the ring is a number.
LEMMA RingCounts ==
  TypeOK => /\ timers_armed \in Nat /\ timers_fired \in Nat /\ timers_canceled \in Nat
            /\ timeout_removes \in Nat /\ recv_removes \in Nat /\ reads \in Nat
            /\ b2n(recv # "none") \in 0 .. 1
            /\ Others \in Nat /\ InFlight \in Nat
            /\ InFlight = Others + reads
            /\ pending_jobs \in Int
  <1> SUFFICES ASSUME TypeOK
               PROVE  /\ timers_armed \in Nat /\ timers_fired \in Nat
                      /\ timers_canceled \in Nat /\ timeout_removes \in Nat
                      /\ recv_removes \in Nat /\ reads \in Nat
                      /\ b2n(recv # "none") \in 0 .. 1
                      /\ Others \in Nat /\ InFlight \in Nat
                      /\ InFlight = Others + reads
                      /\ pending_jobs \in Int
    OBVIOUS
  <1>1. /\ timers_armed \in Nat /\ timers_fired \in Nat /\ timers_canceled \in Nat
        /\ timeout_removes \in Nat /\ recv_removes \in Nat /\ reads \in Nat
    BY Zenon DEF TypeOK
  <1>2. b2n(recv # "none") \in 0 .. 1
    BY CountOne
  <1>3. pending_jobs \in Int
    BY SessionAssumption DEF TypeOK
  <1> QED
    BY <1>1, <1>2, <1>3 DEF Others, InFlight

\* The counters after a step, where the invariant holds too.
LEMMA RingCountsNext ==
  ASSUME TypeOK'
  PROVE  /\ reads' \in Nat /\ Others' \in Nat /\ InFlight' \in Nat
         /\ InFlight' = Others' + reads'
  <1>1. /\ timers_armed' \in Nat /\ timers_fired' \in Nat /\ timers_canceled' \in Nat
        /\ timeout_removes' \in Nat /\ recv_removes' \in Nat /\ reads' \in Nat
    BY Zenon DEF TypeOK
  <1>2. b2n(recv' # "none") \in 0 .. 1
    BY CountOne
  <1> QED
    BY <1>1, <1>2 DEF Others, InFlight

-----------------------------------------------------------------------------
(* One step of the job for each call of the handler. *)

\* A call that takes at most one operation out of the ring is a step of the job.
LEMMA HandlerIsJob ==
  ASSUME SessionInv, SessionInv', status \in {"new", "idle"}, HandlerReturns,
         status = "idle" => Others' + reads' >= Others + reads - 1
  PROVE  Job!Next
  <1>0. status = "idle" => InFlight' >= InFlight - 1
    <2>1. /\ timers_armed' \in Nat /\ timers_fired' \in Nat /\ timers_canceled' \in Nat
          /\ timeout_removes' \in Nat /\ recv_removes' \in Nat /\ reads' \in Nat
      BY Zenon DEF SessionInv, TypeOK
    <2>2. /\ timers_armed \in Nat /\ timers_fired \in Nat /\ timers_canceled \in Nat
          /\ timeout_removes \in Nat /\ recv_removes \in Nat /\ reads \in Nat
      BY Zenon DEF SessionInv, TypeOK
    <2>3. b2n(recv # "none") \in 0 .. 1 /\ b2n(recv' # "none") \in 0 .. 1
      BY CountOne
    <2> QED BY <2>1, <2>2, <2>3 DEF InFlight, Others
  <1>1. /\ InFlight' \in Nat
        /\ status' \in {"idle", "closed"} => pending_jobs' = InFlight'
    BY RingCountsNext DEF SessionInv, JobsMatchRing, Running
  <1>2. CASE status' = "error"
    BY <1>2 DEF Job!Next, Job!Fail
  <1>3. CASE status' = "closed"
    <2>1. InFlight' = 0
      BY <1>3 DEF SessionInv, ClosedMeansQuiet
    <2> QED
      BY <1>0, <1>1, <1>3, <2>1 DEF Job!Next, Job!Start, Job!Complete, Job!Returns
  <1>4. CASE status' = "idle"
    <2>1. InFlight' # 0
      <3>1. CASE should_close'
        BY <1>1, <1>4, <3>1 DEF HandlerReturns
      <3>2. CASE ~should_close'
        <4>1. recv' = "posted"
          BY <1>4, <3>2 DEF SessionInv, WaitingIsTimed
        <4>2. b2n(recv' # "none") = 1
          BY <4>1 DEF b2n
        <4>3. /\ timers_armed' \in Nat /\ timers_fired' \in Nat
              /\ timers_canceled' \in Nat /\ timeout_removes' \in Nat
              /\ recv_removes' \in Nat /\ reads' \in Nat
          BY Zenon DEF SessionInv, TypeOK
        <4> QED
          BY <4>2, <4>3 DEF InFlight
      <3> QED BY <3>1, <3>2
    <2> QED
      BY <1>0, <1>1, <1>4, <2>1 DEF Job!Next, Job!Start, Job!Complete, Job!Returns
  <1> QED
    BY <1>2, <1>3, <1>4 DEF HandlerReturns

\* A call that leaves the reads to the tail.
LEMMA FetchStateIsJob ==
  ASSUME SessionInv, SessionInv', status \in {"new", "idle"},
         NEW jobs \in Int, Epilogue(jobs, FetchState),
         status = "idle" => Others' >= Others - 1
  PROVE  Job!Next
  <1>1. FetchState.reads = reads
    BY DEF FetchState
  <1>2. reads \in Nat /\ Others \in Nat /\ InFlight = Others + reads
    BY RingCounts DEF SessionInv
  <1>3. /\ reads' \in Nat /\ Others' \in Nat /\ InFlight' = Others' + reads'
    BY RingCountsNext DEF SessionInv
  <1>4. HandlerReturns /\ reads' >= reads
    BY <1>1, <1>2, EpilogueReturns
  <1>5. status = "idle" => Others' + reads' >= Others + reads - 1
    BY <1>2, <1>3, <1>4, OneLess, Zenon
  <1> QED
    BY <1>4, <1>5, HandlerIsJob

\* The jobs the cases pass to the tail.
LEMMA JobsPlusInt ==
  ASSUME SessionInv, NEW k \in Int
  PROVE  JobsPlus(k) \in Int
  BY SessionAssumption, RingCounts DEF SessionInv, JobsPlus, WrapJobs

\* EVENT_START.
LEMMA StartIsJob ==
  ASSUME SessionInv, SessionInv', Start
  PROVE  Job!Next
  <1>1. b2n(SendsOack) + b2n(is_request_valid) \in Int
    BY DEF b2n
  <1> QED
    BY <1>1, JobsPlusInt, FetchStateIsJob DEF Start

\* A completion that is only counted.
LEMMA CompletionIsJob ==
  ASSUME SessionInv, SessionInv', status = "idle", OnlyEpilogue,
         Others' >= Others - 1
  PROVE  Job!Next
  BY JobsPlusInt, FetchStateIsJob DEF OnlyEpilogue

\* on_timeout: a timer ends; giving up adds a removal, resending a timer.
LEMMA TimeoutIsJob ==
  ASSUME SessionInv, SessionInv', TimeoutHandled
  PROVE  Job!Next
  <1>1. CASE EmptyRetransmission
    BY <1>1 DEF TimeoutHandled, SessionInv, NeverHung
  <1>2. CASE ~EmptyRetransmission
    <2>1. Epilogue(JobsPlus(0), FetchState)
      BY <1>2 DEF TimeoutHandled
    <2>2. /\ timers_armed \in Nat /\ timers_fired \in Nat /\ timers_canceled \in Nat
          /\ timeout_removes \in Nat /\ recv_removes \in Nat
          /\ b2n(recv # "none") \in 0 .. 1
      BY RingCounts DEF SessionInv
    <2>3. /\ timers_fired' = timers_fired - 1
          /\ timers_canceled' = timers_canceled /\ timeout_removes' = timeout_removes
      BY DEF TimeoutHandled
    <2>4. /\ timers_armed' \in {timers_armed, timers_armed + 1}
          /\ recv_removes' \in {recv_removes, recv_removes + 1}
          /\ (recv' # "none") = (recv # "none")
      BY DEF TimeoutHandled, GiveUp, Retransmit, recvVars
    <2>5. Others' >= Others - 1
      <3>1. b2n(recv' # "none") = b2n(recv # "none")
        BY <2>4
      <3> QED
        BY <2>2, <2>3, <2>4, <3>1 DEF Others
    <2>6. status = "idle"
      BY DEF TimeoutHandled
    <2> QED
      BY <2>1, <2>5, <2>6, JobsPlusInt, FetchStateIsJob
  <1> QED BY <1>1, <1>2

\* A packet: its receive is taken out of the ring, an ACK removes a timer.
LEMMA PacketIsJob ==
  ASSUME SessionInv, SessionInv', NEW p, PacketReceived(p)
  PROVE  Job!Next
  <1>1. status = "idle" /\ recv = "posted" /\ recv_removes' = recv_removes
    BY DEF PacketReceived
  <1>2. /\ timers_armed \in Nat /\ timers_fired \in Nat /\ timers_canceled \in Nat
        /\ timeout_removes \in Nat /\ recv_removes \in Nat
        /\ b2n(recv # "none") \in 0 .. 1
    BY RingCounts DEF SessionInv
  <1>3. b2n(recv' # "none") \in 0 .. 1
    BY CountOne
  <1>4. ASSUME UNCHANGED timerVars
        PROVE  Others' >= Others - 1
    BY <1>1, <1>2, <1>3, <1>4 DEF Others, timerVars
  <1>5. CASE Ignore
    BY <1>1, <1>4, <1>5, JobsPlusInt, FetchStateIsJob DEF Ignore
  <1>6. CASE UnexpectedPeer(p)
    BY <1>1, <1>4, <1>6, JobsPlusInt, FetchStateIsJob DEF UnexpectedPeer
  <1>7. CASE Abort(p)
    BY <1>1, <1>4, <1>7, JobsPlusInt, FetchStateIsJob DEF Abort
  <1>8. CASE AckReceived(p)
    <2> DEFINE removed == b2n(timers_armed > 0)
               rearm == b2n(ShouldRearm(window_begin'))
    <2>1. removed \in 0 .. 1 /\ rearm \in 0 .. 1 /\ b2n(~should_close') \in 0 .. 1
      BY DEF b2n
    <2>2. /\ timers_armed' = timers_armed - removed + rearm
          /\ timers_canceled' = timers_canceled + removed
          /\ timeout_removes' = timeout_removes + 1
          /\ timers_fired' = timers_fired
      BY <1>8 DEF AckReceived
    <2>3. Epilogue(JobsPlus(rearm + b2n(~should_close')), FetchState)
      BY <1>8 DEF AckReceived
    <2> HIDE DEF removed, rearm
    <2>4. Others' >= Others - 1
      BY <1>1, <1>2, <1>3, <2>1, <2>2 DEF Others
    <2>5. rearm + b2n(~should_close') \in Int
      BY <2>1
    <2> QED
      BY <1>1, <2>3, <2>4, <2>5, JobsPlusInt, FetchStateIsJob
  <1>9. CASE DataReceived(p)
    <2>1. -1 + b2n(~should_close') \in Int
      BY DEF b2n
    <2>2. /\ UNCHANGED timerVars
          /\ Epilogue(JobsPlus(-1 + b2n(~should_close')), FetchState)
      BY <1>9 DEF DataReceived
    <2> QED
      BY <1>1, <1>4, <2>1, <2>2, JobsPlusInt, FetchStateIsJob
  <1>10. CASE WriteFails(p)
    BY <1>1, <1>10 DEF WriteFails, Job!Next, Job!Fail
  <1> QED
    BY <1>5, <1>6, <1>7, <1>8, <1>9, <1>10 DEF PacketReceived, on_packet_received

\* The completion of a read: one read less, and at most one timer more.
LEMMA ReadIsJob ==
  ASSUME SessionInv, SessionInv', DataAvailable
  PROVE  Job!Next
  <1>1. status = "idle" /\ UNCHANGED <<timers_fired, timers_canceled, timeout_removes, recv,
                                       recv_removes>>
    BY DEF DataAvailable, recvVars
  <1>2. /\ timers_armed \in Nat /\ timers_fired \in Nat /\ timers_canceled \in Nat
        /\ timeout_removes \in Nat /\ recv_removes \in Nat /\ reads \in Nat
        /\ b2n(recv # "none") \in 0 .. 1 /\ InFlight = Others + reads
        /\ Others \in Nat
    BY RingCounts DEF SessionInv
  <1>3. /\ reads' \in Nat /\ Others' \in Nat /\ InFlight' = Others' + reads'
    BY RingCountsNext DEF SessionInv
  <1>4. ASSUME NEW jobs \in Int, NEW size, NEW incomplete, NEW slots, NEW offset,
               Epilogue(jobs, Fetched(size, incomplete, slots, offset)),
               timers_armed' >= timers_armed
        PROVE  Job!Next
    <2>1. Fetched(size, incomplete, slots, offset).reads = reads - 1
      BY DEF Fetched
    <2>2. HandlerReturns /\ reads' >= reads - 1
      BY <1>2, <1>4, <2>1, EpilogueReturns
    <2>3. timers_armed' \in Nat
      BY DEF SessionInv, TypeOK
    <2>4. Others' >= Others
      BY <1>1, <1>2, <1>4, <2>3 DEF Others
    <2>5. Others' + reads' >= Others + reads - 1
      BY <1>2, <1>3, <2>2, <2>4, NoneLess, Zenon
    <2> QED
      BY <1>1, <2>2, <2>5, HandlerIsJob
  <1>5. ASSUME NEW size, NEW incomplete, NEW slots, NEW offset,
               SendBlock(Fetched(size, incomplete, slots, offset))
        PROVE  Job!Next
    <2> DEFINE alone == b2n(window_begin = next_data_packet_to_send)
    <2>1. alone \in 0 .. 1
      BY DEF b2n
    <2>2. /\ timers_armed' = timers_armed + alone
          /\ Epilogue(JobsPlus(-1 + alone), Fetched(size, incomplete, slots, offset))
      BY <1>5 DEF SendBlock
    <2> HIDE DEF alone
    <2>3. timers_armed' >= timers_armed /\ -1 + alone \in Int
      BY <1>2, <2>1, <2>2
    <2> QED
      BY <1>4, <2>2, <2>3, JobsPlusInt
  <1>6. CASE ReadFailed
    <2>1. timers_armed' >= timers_armed
      BY <1>2, <1>6 DEF ReadFailed
    <2> QED BY <1>4, <1>6, <2>1, JobsPlusInt DEF ReadFailed
  <1>7. CASE NetasciiBlockReady
    BY <1>5, <1>7 DEF NetasciiBlockReady
  <1>8. ASSUME NEW n \in ReadSizes, ReadIncomplete(n)
        PROVE  Job!Next
    <2>1. timers_armed' >= timers_armed
      BY <1>2, <1>8 DEF ReadIncomplete
    <2>2. Epilogue(JobsPlus(-1), Fetched(last_block_size + n, TRUE, ReadInto(n),
                                         file_offset + n))
      BY <1>8 DEF ReadIncomplete
    <2>3. JobsPlus(-1) \in Int
      BY JobsPlusInt
    <2> QED BY <1>4, <2>1, <2>2, <2>3, Zenon
  <1>9. ASSUME NEW n \in ReadSizes, ReadComplete(n)
        PROVE  Job!Next
    BY <1>5, <1>9 DEF ReadComplete
  <1> QED
    BY <1>6, <1>7, <1>8, <1>9 DEF DataAvailable

\* A timer that fires stays in the ring until its completion is handled.
LEMMA TimerStutters ==
  ASSUME SessionInv, TimerFires
  PROVE  UNCHANGED Job!jobVars
  <1>1. timers_armed \in Nat /\ timers_fired \in Nat
    BY RingCounts DEF SessionInv
  <1>2. timers_armed' + timers_fired' = timers_armed + timers_fired
    BY <1>1 DEF TimerFires
  <1>3. UNCHANGED <<status, timers_canceled, timeout_removes, recv, recv_removes, reads>>
    BY DEF TimerFires, controlVars, fetchVars, recvVars
  <1>4. InFlight' = InFlight
    BY <1>2, <1>3 DEF InFlight
  <1> QED
    BY <1>3, <1>4 DEF Job!jobVars

\* Every step of the session is one of the job, or none.
LEMMA StepIsJob ==
  ASSUME SessionInv, SessionInv', [SessionNext]_sessionVars
  PROVE  [Job!Next]_(Job!jobVars)
  <1>1. CASE Start
    BY <1>1, StartIsJob
  <1>2. CASE TimeoutHandled
    BY <1>2, TimeoutIsJob
  <1>0. /\ timers_armed \in Nat /\ timers_fired \in Nat /\ timers_canceled \in Nat
        /\ timeout_removes \in Nat /\ recv_removes \in Nat
        /\ b2n(recv # "none") \in 0 .. 1 /\ b2n(recv' # "none") \in 0 .. 1
    BY RingCounts, CountOne DEF SessionInv
  <1>3. CASE TimeoutIgnored \/ TimeoutCanceled \/ TimeoutRemoved \/ RecvRemoved
    <2>1. Others' >= Others - 1
      BY <1>0, <1>3 DEF TimeoutIgnored, TimeoutCanceled, TimeoutRemoved, RecvRemoved,
         Others, timerVars, recvVars
    <2> QED
      BY <1>3, <2>1, CompletionIsJob
         DEF TimeoutIgnored, TimeoutCanceled, TimeoutRemoved, RecvRemoved
  <1>4. CASE RecvCanceled \/ PacketDropped
    <2>1. Others' >= Others - 1
      BY <1>0, <1>4 DEF RecvCanceled, PacketDropped, RecvDropped, Others, timerVars
    <2> QED
      BY <1>4, <2>1, CompletionIsJob DEF RecvCanceled, PacketDropped, RecvDropped
  <1>5. CASE DataAvailable
    BY <1>5, ReadIsJob
  <1>6. CASE PacketArrives
    BY <1>6, PacketIsJob DEF PacketArrives
  <1>7. CASE TimerFires
    BY <1>7, TimerStutters
  <1>8. CASE SyscallFailure
    BY <1>8 DEF SyscallFailure, Job!Next, Job!Fail
  <1>9. CASE UNCHANGED sessionVars
    BY <1>9 DEF sessionVars, controlVars, fetchVars, timerVars, recvVars, Job!jobVars, InFlight
  <1> QED
    BY <1>1, <1>2, <1>3, <1>4, <1>5, <1>6, <1>7, <1>8, <1>9
       DEF SessionNext, RingEvent, Done

\* What tftp_session_handle_event promises to the worker: the call that leaves nothing
\* in the ring, and no other, returns that the session is closed, so that its slot is
\* given back once and at the right time.
THEOREM SessionImplementsJob == SessionSpec => SessionIsJob
  <1>1. SessionInit => Job!Init
    <2>1. SessionInit => InFlight = 0
      BY DEF SessionInit, InFlight, b2n
    <2> QED BY <2>1 DEF SessionInit, Job!Init
  <1>2. SessionInv /\ SessionInv' /\ [SessionNext]_sessionVars
          => [Job!Next]_(Job!jobVars)
    BY StepIsJob
  <1> QED
    BY <1>1, <1>2, SessionInvariant, PTL DEF SessionSpec, SessionIsJob, Job!Spec
=============================================================================
