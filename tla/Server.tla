------------------------------- MODULE Server -------------------------------
(***************************************************************************)
(* The server around the sessions: the main thread, which takes a job slot *)
(* of the least busy worker, receives a request into it and submits it to  *)
(* the worker's ring, and the workers, which handle the completions of     *)
(* their rings.                                                            *)
(*                                                                         *)
(* A session is what the workers see of it: operations in the ring, each   *)
(* completion of which may submit more, and a session that closes when     *)
(* none is left (ServerSession shows that).                                *)
(*                                                                         *)
(* pending_requests is a plain uint8_t that the main thread and the worker *)
(* both update, so an update is a load and a store with whatever the other *)
(* thread does in between.                                                 *)
(***************************************************************************)
EXTENDS Integers, FiniteSets, FiniteSetsExt

CONSTANTS
  Setups,         \* the servers that are modelled
  PendMod         \* modulus of pending_requests (256)

\* workers_number, max_jobs (sessions of one worker); bounds on the requests that arrive
\* and on the operations a session submits after EVENT_START; a statistics callback is
\* configured; requests that parse_request_metadata refuses arrive; submissions, system
\* calls and sessions may fail.
ServerSetup == [workers: Nat \ {0}, jobs: Nat \ {0}, requests: Nat, events: Nat,
                metrics: BOOLEAN, bad_requests: BOOLEAN, faults: BOOLEAN]

ASSUME ServerAssumption ==
  /\ Setups \subseteq ServerSetup
  /\ PendMod \in Nat /\ PendMod > 1

VARIABLE setup    \* the server's configuration; never changes

Worker == 1 .. setup.workers
Slot == 1 .. setup.jobs

\* The main thread and what it shares.
VARIABLES
  mpc,              \* where the main thread is
  scanned,          \* get_least_busy_worker: workers looked at so far
  worker,           \* the worker chosen, or the one worker_pool_destroy is at
  job,              \* the slot worker_pool_get_job returned
  mreg,             \* the value of pending_requests the main thread loaded
  should_stop, shutdown,
  elapsed,          \* the statistics interval is over
  requests          \* requests that may still arrive

\* The workers, their slots and their rings.
VARIABLES
  available_jobs,   \* the semaphores
  is_active,        \* of each slot
  ops,              \* operations of each slot's session in the ring
  wakes,            \* nops without an event in the ring
  life,             \* operations each session may still submit
  pending_requests,
  wpc,              \* where each worker is
  event,            \* the slot whose event the worker handles, 0 for none
  submits,          \* submissions left in the handler
  wreg              \* the value of pending_requests the worker loaded

mainVars == <<mpc, scanned, worker, job, mreg, should_stop, shutdown, elapsed, requests>>
workerVars == <<wpc, event, submits, wreg>>
ringVars == <<ops, wakes, life, pending_requests>>
slotVars == <<available_jobs, is_active>>
vars == <<setup, mainVars, workerVars, ringVars, slotVars>>

Wrap(n) == (n + PendMod) % PendMod

\* Mutant: the semaphore starts with a slot too many.
InitialJobsOffByOne == setup.jobs + 1

InitialJobs == setup.jobs

ServerInit ==
  /\ setup \in Setups
  /\ mpc = "loop" /\ scanned = 0 /\ worker = 1 /\ job = 1 /\ mreg = 0
  /\ should_stop = FALSE /\ shutdown = FALSE /\ elapsed = FALSE
  /\ requests = setup.requests
  /\ available_jobs = [w \in Worker |-> InitialJobs]
  /\ is_active = [w \in Worker |-> [s \in Slot |-> FALSE]]
  /\ ops = [w \in Worker |-> [s \in Slot |-> 0]]
  /\ life = [w \in Worker |-> [s \in Slot |-> 0]]
  /\ wakes = [w \in Worker |-> 0]
  /\ pending_requests = [w \in Worker |-> 0]
  /\ wpc = [w \in Worker |-> "check"] /\ event = [w \in Worker |-> 0]
  /\ submits = [w \in Worker |-> 0] /\ wreg = [w \in Worker |-> 0]

Alive == mpc \notin {"exited", "stopped"}

-----------------------------------------------------------------------------
(* tftp_server_start *)

Goto(pc) == mpc' = pc
MainOnly == UNCHANGED <<workerVars, ringVars, slotVars>>

\* while (!should_stop): look for a slot, or leave the loop.
LoopHead ==
  /\ mpc = "loop"
  /\ Goto(IF should_stop THEN "destroy" ELSE "scan")
  /\ scanned' = 0 /\ worker' = 1
  /\ MainOnly
  /\ UNCHANGED <<job, mreg, should_stop, shutdown, elapsed, requests>>

Busy(w) == setup.jobs - available_jobs[w]

\* get_least_busy_worker reads one semaphore after the other; mreg keeps the least
\* count so far.
ScanWorker ==
  LET w == scanned + 1
      better == scanned = 0 \/ Busy(w) < mreg
  IN  /\ mpc = "scan"
      /\ scanned' = w
      /\ worker' = IF better THEN w ELSE worker
      /\ mreg' = IF better THEN Busy(w) ELSE mreg
      /\ Goto(IF Busy(w) = 0 \/ w = setup.workers THEN "sem" ELSE "scan")
      /\ MainOnly
      /\ UNCHANGED <<job, should_stop, shutdown, elapsed, requests>>

FreeSlots(w) == { s \in Slot : ~is_active[w][s] }

\* worker_pool_get_job: sem_wait, repeated when interrupted.
TakeSemaphore ==
  /\ mpc = "sem" /\ available_jobs[worker] > 0
  /\ available_jobs' = [available_jobs EXCEPT ![worker] = @ - 1]
  /\ Goto("find")
  /\ UNCHANGED <<scanned, worker, job, mreg, should_stop, shutdown, elapsed, requests,
                 is_active, workerVars, ringVars>>

\* The first inactive slot; tftp_session_init and the request buffer are in it.
FindSlot ==
  /\ mpc = "find" /\ FreeSlots(worker) # {}
  /\ job' = Min(FreeSlots(worker))
  /\ Goto("time")
  /\ MainOnly
  /\ UNCHANGED <<scanned, worker, mreg, should_stop, shutdown, elapsed, requests>>

\* How long to wait for a request.  When the interval is over already there is no
\* recvmsg: bytes_recvd is 0, which counts as a packet received, and the empty
\* address in it is refused.
CheckTime ==
  /\ mpc = "time"
  /\ Goto(IF setup.metrics /\ elapsed THEN "loop" ELSE "recv")
  /\ MainOnly
  /\ UNCHANGED <<scanned, worker, job, mreg, should_stop, shutdown, elapsed, requests>>

RequestReceived ==
  /\ mpc = "recv" /\ requests > 0
  /\ requests' = requests - 1
  /\ Goto("start")
  /\ MainOnly
  /\ UNCHANGED <<scanned, worker, job, mreg, should_stop, shutdown, elapsed>>

\* parse_request_metadata refuses the packet.
RequestRefused ==
  /\ setup.bad_requests
  /\ mpc = "recv" /\ requests > 0
  /\ requests' = requests - 1
  /\ Goto("loop")
  /\ MainOnly
  /\ UNCHANGED <<scanned, worker, job, mreg, should_stop, shutdown, elapsed>>

\* recvmsg times out: the statistics callback runs and a new interval starts.
MetricsTimeout ==
  /\ setup.metrics /\ mpc = "recv" /\ elapsed
  /\ elapsed' = FALSE
  /\ Goto("loop")
  /\ MainOnly
  /\ UNCHANGED <<scanned, worker, job, mreg, should_stop, shutdown, requests>>

\* recvmsg fails for good: tftp_server_start returns false and the process ends.
ReceiveFails ==
  /\ setup.faults /\ mpc = "recv"
  /\ Goto("exited")
  /\ MainOnly
  /\ UNCHANGED <<scanned, worker, job, mreg, should_stop, shutdown, elapsed, requests>>

\* worker_pool_start_job under the statistics mutex.
StartJob ==
  /\ mpc = "start"
  /\ is_active' = [is_active EXCEPT ![worker][job] = TRUE]
  /\ Goto("submit")
  /\ UNCHANGED <<scanned, worker, job, mreg, should_stop, shutdown, elapsed, requests,
                 available_jobs, workerVars, ringVars>>

StartLockFails ==
  /\ setup.faults /\ mpc = "start"
  /\ should_stop' = TRUE
  /\ Goto("loop")
  /\ MainOnly
  /\ UNCHANGED <<scanned, worker, job, mreg, shutdown, elapsed, requests>>

\* dispatcher_submit puts EVENT_START into the ring ...
SubmitStart ==
  /\ mpc = "submit"
  /\ ops' = [ops EXCEPT ![worker][job] = @ + 1]
  /\ life' = [life EXCEPT ![worker][job] = setup.events]
  /\ Goto("load")
  /\ UNCHANGED <<scanned, worker, job, mreg, should_stop, shutdown, elapsed, requests,
                 slotVars, workerVars, wakes, pending_requests>>

SubmitFails ==
  /\ setup.faults /\ mpc = "submit"
  /\ is_active' = [is_active EXCEPT ![worker][job] = FALSE]
  /\ Goto("loop")
  /\ UNCHANGED <<scanned, worker, job, mreg, should_stop, shutdown, elapsed, requests,
                 available_jobs, workerVars, ringVars>>

\* ... and counts it.
CountLoad ==
  /\ mpc \in {"load", "dload"}
  /\ mreg' = pending_requests[worker]
  /\ Goto(IF mpc = "load" THEN "store" ELSE "dstore")
  /\ MainOnly
  /\ UNCHANGED <<scanned, worker, job, should_stop, shutdown, elapsed, requests>>

CountStore ==
  /\ mpc \in {"store", "dstore"}
  /\ pending_requests' = [pending_requests EXCEPT ![worker] = Wrap(mreg + 1)]
  /\ Goto(IF mpc = "store" THEN "loop" ELSE "join")
  /\ mreg' = 0
  /\ UNCHANGED <<scanned, worker, job, should_stop, shutdown, elapsed, requests, slotVars,
                 workerVars, ops, wakes, life>>

-----------------------------------------------------------------------------
(* tftp_server_destroy *)

Destroy ==
  /\ mpc = "destroy"
  /\ shutdown' = TRUE
  /\ worker' = 1
  /\ Goto("wake")
  /\ MainOnly
  /\ UNCHANGED <<scanned, job, mreg, should_stop, elapsed, requests>>

\* worker_destroy: a nop without an event wakes the worker, which is then joined.
WakeWorker ==
  /\ mpc = "wake"
  /\ wakes' = [wakes EXCEPT ![worker] = @ + 1]
  /\ Goto("dload")
  /\ UNCHANGED <<scanned, worker, job, mreg, should_stop, shutdown, elapsed, requests,
                 slotVars, workerVars, ops, life, pending_requests>>

JoinWorker ==
  /\ mpc = "join" /\ wpc[worker] = "gone"
  /\ worker' = IF worker < setup.workers THEN worker + 1 ELSE worker
  /\ Goto(IF worker < setup.workers THEN "wake" ELSE "stopped")
  /\ MainOnly
  /\ UNCHANGED <<scanned, job, mreg, should_stop, shutdown, elapsed, requests>>

-----------------------------------------------------------------------------
(* worker_routine *)

At(w, pc) == wpc[w] = pc
Step(w, pc) == wpc' = [wpc EXCEPT ![w] = pc]

\* while (!shutdown || pending_requests != 0)
CheckShutdown(w) ==
  /\ At(w, "check")
  /\ Step(w, IF ~shutdown \/ pending_requests[w] # 0 THEN "wait" ELSE "gone")
  /\ UNCHANGED <<mainVars, ringVars, slotVars, event, submits, wreg>>

\* dispatcher_wait_event takes a completion and begins to count it off.
WaitEvent(w) ==
  /\ At(w, "wait")
  /\ \/ \E s \in Slot :
          /\ ops[w][s] > 0
          /\ ops' = [ops EXCEPT ![w][s] = @ - 1]
          /\ event' = [event EXCEPT ![w] = s]
          /\ UNCHANGED wakes
     \/ /\ wakes[w] > 0
        /\ wakes' = [wakes EXCEPT ![w] = @ - 1]
        /\ event' = [event EXCEPT ![w] = 0]
        /\ UNCHANGED ops
  /\ wreg' = [wreg EXCEPT ![w] = pending_requests[w]]
  /\ Step(w, "dec")
  /\ UNCHANGED <<mainVars, slotVars, life, pending_requests, submits>>

CountOff(w) ==
  /\ At(w, "dec")
  /\ pending_requests' = [pending_requests EXCEPT ![w] = Wrap(wreg[w] - 1)]
  /\ wreg' = [wreg EXCEPT ![w] = 0]
  /\ Step(w, IF event[w] = 0 THEN "check" ELSE "handle")
  /\ UNCHANGED <<mainVars, slotVars, ops, wakes, life, event, submits>>

\* tftp_session_handle_event submits n operations.
HandleEvent(w) ==
  LET s == event[w]
  IN  /\ At(w, "handle")
      /\ \E n \in 0 .. life[w][s] :
           /\ submits' = [submits EXCEPT ![w] = n]
           /\ life' = [life EXCEPT ![w][s] = @ - n]
      /\ Step(w, "submit")
      /\ UNCHANGED <<mainVars, slotVars, ops, wakes, pending_requests, event, wreg>>

SessionSubmits(w) ==
  /\ At(w, "submit") /\ submits[w] > 0
  /\ ops' = [ops EXCEPT ![w][event[w]] = @ + 1]
  /\ submits' = [submits EXCEPT ![w] = @ - 1]
  /\ wreg' = [wreg EXCEPT ![w] = pending_requests[w]]
  /\ Step(w, "inc")
  /\ UNCHANGED <<mainVars, slotVars, wakes, life, pending_requests, event>>

SessionCounts(w) ==
  /\ At(w, "inc")
  /\ pending_requests' = [pending_requests EXCEPT ![w] = Wrap(wreg[w] + 1)]
  /\ wreg' = [wreg EXCEPT ![w] = 0]
  /\ Step(w, "submit")
  /\ UNCHANGED <<mainVars, slotVars, ops, wakes, life, event, submits>>

\* Mutant: a session is over after its first event.
TerminatedEarly(w) == TRUE

\* A session with nothing in flight is closed: its slot is free for the main thread.
Terminated(w) == ops[w][event[w]] = 0

\* Mutant: the slot is not given back.
SessionHandledKeepsSlot(w) ==
  /\ At(w, "submit") /\ submits[w] = 0
  /\ Step(w, IF Terminated(w) THEN "post" ELSE "check")
  /\ UNCHANGED <<mainVars, ringVars, slotVars, event, submits, wreg>>

SessionHandled(w) ==
  /\ At(w, "submit") /\ submits[w] = 0
  /\ Step(w, IF Terminated(w) THEN "post" ELSE "check")
  /\ is_active' = IF Terminated(w) THEN [is_active EXCEPT ![w][event[w]] = FALSE]
                                   ELSE is_active
  /\ UNCHANGED <<mainVars, ringVars, available_jobs, event, submits, wreg>>

\* Mutant: the semaphore is not incremented.
PostForgotten(w) ==
  /\ At(w, "post")
  /\ Step(w, "check")
  /\ UNCHANGED <<mainVars, ringVars, slotVars, event, submits, wreg>>

PostSemaphore(w) ==
  /\ At(w, "post")
  /\ available_jobs' = [available_jobs EXCEPT ![w] = @ + 1]
  /\ Step(w, "check")
  /\ UNCHANGED <<mainVars, ringVars, is_active, event, submits, wreg>>

\* A session fails: the worker ends the process.
SessionFails(w) ==
  /\ setup.faults /\ At(w, "handle")
  /\ mpc' = "exited"
  /\ UNCHANGED <<scanned, worker, job, mreg, should_stop, shutdown, elapsed, requests,
                 workerVars, ringVars, slotVars>>

WorkerStep(w) ==
  \/ CheckShutdown(w) \/ WaitEvent(w) \/ CountOff(w) \/ HandleEvent(w)
  \/ SessionSubmits(w) \/ SessionCounts(w) \/ SessionHandled(w) \/ PostSemaphore(w)

-----------------------------------------------------------------------------
(* The environment. *)

IntervalElapses ==
  /\ setup.metrics /\ ~elapsed /\ mpc \in {"loop", "sem", "time", "recv"}
  /\ elapsed' = TRUE
  /\ MainOnly
  /\ UNCHANGED <<mpc, scanned, worker, job, mreg, should_stop, shutdown, requests>>

\* The signal handler of the program calls tftp_server_stop.  A recvmsg under way is
\* interrupted; one that begins later is not.
StopSignal ==
  /\ ~should_stop
  /\ should_stop' = TRUE
  /\ Goto(IF mpc = "recv" THEN "loop" ELSE mpc)
  /\ MainOnly
  /\ UNCHANGED <<scanned, worker, job, mreg, shutdown, elapsed, requests>>

MainStep ==
  \/ LoopHead \/ ScanWorker \/ TakeSemaphore \/ FindSlot \/ CheckTime
  \/ MetricsTimeout \/ StartJob \/ SubmitStart \/ CountLoad \/ CountStore
  \/ Destroy \/ WakeWorker \/ JoinWorker

MainFault == ReceiveFails \/ StartLockFails \/ SubmitFails

Over == ~Alive /\ UNCHANGED vars

ServerNext ==
  \/ /\ Alive
     /\ UNCHANGED setup
     /\ \/ MainStep \/ RequestReceived \/ RequestRefused \/ MainFault
        \/ IntervalElapses \/ StopSignal
        \/ \E w \in Worker : WorkerStep(w) \/ SessionFails(w)
  \/ Over

ServerSpec == ServerInit /\ [][ServerNext]_vars

\* The threads run and the sessions' operations complete.
ServerFairness ==
  /\ WF_vars(Alive /\ UNCHANGED setup /\ MainStep)
  /\ \A w \in 1 .. Max({ s.workers : s \in Setups }) :
       WF_vars(Alive /\ w \in Worker /\ UNCHANGED setup /\ WorkerStep(w))

FairServerSpec == ServerSpec /\ ServerFairness

-----------------------------------------------------------------------------
(* Properties. *)

\* Every variable keeps its type; no semaphore exceeds the slots of its worker.
ServerTypeOK ==
  /\ worker \in Worker /\ job \in Slot /\ scanned \in 0 .. setup.workers
  /\ available_jobs \in [Worker -> 0 .. setup.jobs]
  /\ pending_requests \in [Worker -> 0 .. PendMod - 1]
  /\ ops \in [Worker -> [Slot -> Nat]] /\ wakes \in [Worker -> Nat]
  /\ \A w \in Worker : event[w] \in Slot \cup {0}

\* The main thread has a slot in its hands.
HoldsSlot == mpc \in {"time", "recv", "start", "submit"}

\* The slot that the main thread initialises and receives a request into belongs to
\* no session: nothing in the ring refers to it and the worker does not touch it.
SlotIsFree ==
  HoldsSlot =>
    /\ ops[worker][job] = 0
    /\ ~(event[worker] = job /\ wpc[worker] \in {"dec", "handle", "submit", "inc"})

\* The search for an inactive slot always finds one: unreachable() is not reached.
SearchSucceeds == mpc = "find" => FreeSlots(worker) # {}

\* Slots that neither a session uses nor the main thread, nor a worker about to post.
IdleSlots(w) ==
  Cardinality(FreeSlots(w))
  - (IF mpc \in {"find", "time", "recv", "start"} /\ worker = w THEN 1 ELSE 0)
  - (IF wpc[w] = "post" THEN 1 ELSE 0)

\* Nothing makes the main thread leave a slot it has taken.
SlotsAreKept == ~setup.metrics /\ ~setup.bad_requests /\ ~setup.faults

\* The semaphore counts the slots that are free, for as long as the server serves.  It
\* does not if a statistics timeout, a refused request or a failure costs a slot.
SemaphoreCountsJobs ==
  SlotsAreKept /\ Alive /\ ~should_stop => \A w \in Worker : available_jobs[w] = IdleSlots(w)

\* A semaphore never promises a slot that does not exist.
NoOverbooking == \A w \in Worker : available_jobs[w] <= IdleSlots(w)

\* A worker that has ended has left no session behind.
SessionsAwaited ==
  \A w \in Worker : Alive /\ wpc[w] = "gone" => \A s \in Slot : ops[w][s] = 0

\* The main thread always comes back to wait for requests, until it is told to stop,
\* if it does not lose slots.
KeepsListening == SlotsAreKept => []<>(mpc = "recv" \/ should_stop \/ ~Alive)

\* Whenever the statistics interval is over the callback runs.
CallbackIsPeriodic == elapsed ~> (~elapsed \/ should_stop \/ ~Alive)
=============================================================================
