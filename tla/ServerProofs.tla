---------------------------- MODULE ServerProofs ----------------------------
(***************************************************************************)
(* For every number of workers and of slots, and every interleaving of the *)
(* main thread and the workers: a slot in use is never handed out, a free  *)
(* one is always found, and the semaphores never promise one too many.     *)
(***************************************************************************)
EXTENDS Server, FiniteSetTheorems, WellFoundedInduction, TLAPS

(* The inductive invariant. *)

MainPC == {"loop", "scan", "sem", "find", "time", "recv", "start", "submit", "load",
           "store", "destroy", "wake", "dload", "dstore", "join", "exited", "stopped"}
WorkerPC == {"check", "wait", "dec", "handle", "submit", "inc", "post", "gone"}

\* Every variable has its type.
MainTyped ==
  /\ setup \in Setups
  /\ mpc \in MainPC
  /\ worker \in Worker /\ job \in Slot /\ scanned \in 0 .. setup.workers
  /\ mpc = "scan" => scanned < setup.workers
  /\ mreg \in Int

SlotsTyped ==
  /\ available_jobs \in [Worker -> Nat]
  /\ is_active \in [Worker -> [Slot -> BOOLEAN]]

RingsTyped ==
  /\ ops \in [Worker -> [Slot -> Nat]] /\ life \in [Worker -> [Slot -> Nat]]
  /\ wakes \in [Worker -> Nat]
  /\ pending_requests \in [Worker -> 0 .. PendMod - 1]

WorkersTyped ==
  /\ wpc \in [Worker -> WorkerPC]
  /\ event \in [Worker -> 0 .. setup.jobs]
  /\ submits \in [Worker -> Nat] /\ wreg \in [Worker -> Int]
  /\ \A w \in Worker : wpc[w] \in {"handle", "submit", "inc"} => event[w] # 0

\* The worker has taken an event of slot s out of the ring and is not done with it.
Handles(w, s) == event[w] = s /\ wpc[w] \in {"dec", "handle", "submit", "inc"}

\* A slot that the ring or the worker refers to is active.
UsedIsActive ==
  \A w \in Worker : \A s \in Slot : ops[w][s] > 0 \/ Handles(w, s) => is_active[w][s]

\* The slot the main thread holds becomes active just before its session starts.
HeldIsFresh ==
  /\ mpc \in {"time", "recv", "start"} => ~is_active[worker][job]
  /\ mpc = "submit" => /\ is_active[worker][job]
                       /\ ops[worker][job] = 0
                       /\ ~Handles(worker, job)

ServerInv ==
  /\ MainTyped /\ SlotsTyped /\ RingsTyped /\ WorkersTyped
  /\ UsedIsActive /\ HeldIsFresh
  /\ NoOverbooking /\ SemaphoreCountsJobs

-----------------------------------------------------------------------------
(* Sets of slots. *)

\* The relation < on the naturals as a set of pairs has no infinite descent.
LEMMA LessWellFounded == IsWellFoundedOn({p \in Nat \X Nat : p[1] < p[2]}, Nat)
  BY NatLessThanWellFounded DEF OpToRel

\* A set of naturals that is not empty has a least element, which Min returns.
LEMMA MinIsElement ==
  ASSUME NEW T, T \subseteq Nat, T # {}
  PROVE  Min(T) \in T
  <1>1. PICK x \in T : \A y \in T : ~(<<y, x>> \in {p \in Nat \X Nat : p[1] < p[2]})
    BY LessWellFounded, WFMin, Zenon
  <1>2. ASSUME NEW y \in T PROVE x =< y
    <2>1. x \in Nat /\ y \in Nat
      OBVIOUS
    <2>2. <<y, x>> \in {p \in Nat \X Nat : p[1] < p[2]} <=> y < x
      BY <2>1
    <2> QED BY <1>1, <2>1, <2>2
  <1> QED
    BY <1>2 DEF Min

\* The number of inactive slots is at most that of the slots, and zero only if all are
\* active.
LEMMA FreeCount ==
  ASSUME MainTyped, NEW w \in Worker
  PROVE  /\ IsFiniteSet(FreeSlots(w))
         /\ Cardinality(FreeSlots(w)) \in 0 .. setup.jobs
         /\ Cardinality(FreeSlots(w)) > 0 => FreeSlots(w) # {}
  <1>1. setup.jobs \in Nat
    BY ServerAssumption DEF MainTyped, ServerSetup
  <1>2. IsFiniteSet(Slot) /\ Cardinality(Slot) = setup.jobs
    <2>1. /\ IsFiniteSet(1 .. setup.jobs)
          /\ Cardinality(1 .. setup.jobs) = IF 1 > setup.jobs THEN 0 ELSE setup.jobs - 1 + 1
      <3>1. 1 \in Int /\ setup.jobs \in Int
        BY <1>1
      <3> QED BY <3>1, FS_Interval, SMTT(30)
    <2> QED BY <1>1, <2>1 DEF Slot
  <1>3. FreeSlots(w) \in SUBSET Slot
    BY DEF FreeSlots
  <1>4. IsFiniteSet(FreeSlots(w)) /\ Cardinality(FreeSlots(w)) <= setup.jobs
    BY <1>2, <1>3, FS_Subset
  <1>5. Cardinality(FreeSlots(w)) \in Nat
    BY <1>4, FS_CardinalityType
  <1> QED
    BY <1>1, <1>4, <1>5, FS_EmptySet

-----------------------------------------------------------------------------
(* Typing. *)

\* The sizes of a configuration are numbers.
LEMMA SetupFacts ==
  ASSUME MainTyped
  PROVE  setup.workers \in Nat \ {0} /\ setup.jobs \in Nat \ {0} /\ setup.events \in Nat
  BY ServerAssumption DEF MainTyped, ServerSetup

\* pending_requests stays within its type.
LEMMA WrapTyped == \A n \in Int : Wrap(n) \in 0 .. PendMod - 1
  BY ServerAssumption DEF Wrap

\* The configuration never changes, and neither do the sets made from it.
LEMMA SameSetup ==
  ASSUME UNCHANGED setup
  PROVE  Worker' = Worker /\ Slot' = Slot
  BY DEF Worker, Slot

\* What a step leaves alone keeps its types.
LEMMA TypeFrames ==
  ASSUME UNCHANGED setup
  PROVE  /\ SlotsTyped /\ UNCHANGED slotVars => SlotsTyped'
         /\ RingsTyped /\ UNCHANGED ringVars => RingsTyped'
         /\ WorkersTyped /\ UNCHANGED workerVars => WorkersTyped'
  BY SameSetup DEF SlotsTyped, RingsTyped, WorkersTyped, slotVars, ringVars, workerVars, Handles

\* The main thread keeps the type of its own variables.
LEMMA MainKeepsMain ==
  ASSUME MainTyped, SlotsTyped, RingsTyped, UNCHANGED setup,
         \/ MainStep \/ RequestReceived \/ RequestRefused \/ MainFault
         \/ IntervalElapses \/ StopSignal
  PROVE  MainTyped'
  <1>0. Worker' = Worker /\ Slot' = Slot /\ setup \in Setups
        /\ setup.workers \in Nat \ {0} /\ setup.jobs \in Nat
    BY SetupFacts, SameSetup DEF MainTyped
  <1>1. CASE LoopHead
    <2>1. 1 \in Worker
      BY <1>0 DEF Worker
    <2> QED BY <1>0, <1>1, <2>1 DEF LoopHead, Goto, MainPC, MainTyped
  <1>2. CASE ScanWorker
    <2>1. scanned + 1 \in 1 .. setup.workers /\ scanned + 1 \in Worker
      BY <1>0, <1>2 DEF ScanWorker, MainTyped, Worker
    <2>2. Busy(scanned + 1) \in Int
      <3>1. available_jobs[scanned + 1] \in Nat
        BY <2>1 DEF SlotsTyped
      <3> QED BY <1>0, <3>1 DEF Busy
    <2>3. scanned + 1 = setup.workers \/ scanned + 1 < setup.workers
      BY <1>0, <2>1
    <2>4. mpc' \in {"scan", "sem"} /\ (mpc' = "scan" => scanned + 1 # setup.workers)
      BY <1>2 DEF ScanWorker, Goto
    <2>5. scanned' = scanned + 1 /\ worker' \in {worker, scanned + 1}
          /\ mreg' \in {mreg, Busy(scanned + 1)} /\ job' = job
      BY <1>2 DEF ScanWorker
    <2> QED
      BY <1>0, <2>1, <2>2, <2>3, <2>4, <2>5 DEF MainTyped, MainPC
  <1>3. CASE FindSlot
    <2>1. FreeSlots(worker) \subseteq Nat /\ FreeSlots(worker) \subseteq Slot
      BY <1>0 DEF FreeSlots, Slot
    <2>2. Min(FreeSlots(worker)) \in Slot
      BY <1>3, <2>1, MinIsElement DEF FindSlot
    <2> QED
      BY <1>0, <1>3, <2>2 DEF FindSlot, Goto, MainTyped, MainPC
  <1>4. CASE TakeSemaphore \/ CheckTime \/ RequestReceived \/ RequestRefused \/ MetricsTimeout
             \/ ReceiveFails \/ StartLockFails \/ IntervalElapses \/ StopSignal
    BY <1>0, <1>4 DEF TakeSemaphore, CheckTime, RequestReceived, RequestRefused,
       MetricsTimeout, ReceiveFails, StartLockFails, IntervalElapses, StopSignal, Goto,
       MainTyped, MainPC
  <1>5. CASE StartJob \/ SubmitFails \/ SubmitStart \/ WakeWorker \/ CountStore
    BY <1>0, <1>5 DEF StartJob, SubmitFails, SubmitStart, WakeWorker, CountStore, Goto,
       MainTyped, MainPC
  <1>6. CASE CountLoad
    <2>1. pending_requests[worker] \in Int
      BY ServerAssumption DEF RingsTyped, MainTyped
    <2> QED BY <1>0, <1>6, <2>1 DEF CountLoad, Goto, MainTyped, MainPC
  <1>7. CASE Destroy
    <2>1. 1 \in Worker
      BY <1>0 DEF Worker
    <2> QED BY <1>0, <1>7, <2>1 DEF Destroy, Goto, MainTyped, MainPC
  <1>8. CASE JoinWorker
    <2>1. worker \in Worker /\ (worker < setup.workers => worker + 1 \in Worker)
      BY <1>0 DEF MainTyped, Worker
    <2> QED BY <1>0, <1>8, <2>1 DEF JoinWorker, Goto, MainTyped, MainPC
  <1> QED
    BY <1>1, <1>2, <1>3, <1>4, <1>5, <1>6, <1>7, <1>8 DEF MainStep, MainFault

\* It keeps those of the slots, the rings and the workers.
LEMMA MainKeepsOthers ==
  ASSUME MainTyped, SlotsTyped, RingsTyped, WorkersTyped, UNCHANGED setup,
         \/ MainStep \/ RequestReceived \/ RequestRefused \/ MainFault
         \/ IntervalElapses \/ StopSignal
  PROVE  SlotsTyped' /\ RingsTyped' /\ WorkersTyped'
  <1>0. Worker' = Worker /\ Slot' = Slot /\ worker \in Worker /\ job \in Slot
        /\ setup.events \in Nat
    BY SetupFacts, SameSetup DEF MainTyped
  <1>1. UNCHANGED workerVars
    BY DEF MainStep, LoopHead, ScanWorker, TakeSemaphore, FindSlot, CheckTime,
       RequestReceived, RequestRefused, MetricsTimeout, MainFault, ReceiveFails,
       StartLockFails, SubmitFails, IntervalElapses, StopSignal, StartJob, SubmitStart,
       CountLoad, CountStore, Destroy, WakeWorker, JoinWorker, MainOnly
  <1>2. SlotsTyped'
    <2>1. CASE UNCHANGED slotVars
      BY <2>1, TypeFrames
    <2>2. CASE TakeSemaphore
      <3>1. available_jobs[worker] - 1 \in Nat
        BY <1>0, <2>2 DEF TakeSemaphore, SlotsTyped
      <3> QED BY <1>0, <2>2, <3>1 DEF TakeSemaphore, SlotsTyped
    <2>3. CASE StartJob
      BY <1>0, <2>3 DEF StartJob, SlotsTyped
    <2>4. CASE SubmitFails
      BY <1>0, <2>4 DEF SubmitFails, SlotsTyped
    <2> QED
      BY <2>1, <2>2, <2>3, <2>4
         DEF MainStep, LoopHead, ScanWorker, FindSlot, CheckTime,
       RequestReceived, RequestRefused, MetricsTimeout, MainFault, ReceiveFails,
       StartLockFails, IntervalElapses, StopSignal, SubmitStart,
       CountLoad, CountStore, Destroy, WakeWorker, JoinWorker, MainOnly
  <1>3. RingsTyped'
    <2>1. CASE UNCHANGED ringVars
      BY <2>1, TypeFrames
    <2>2. CASE SubmitStart
      BY <1>0, <2>2 DEF SubmitStart, RingsTyped
    <2>3. CASE CountStore
      <3>1. Wrap(mreg + 1) \in 0 .. PendMod - 1
        BY WrapTyped DEF MainTyped
      <3> QED BY <1>0, <2>3, <3>1 DEF CountStore, RingsTyped
    <2>4. CASE WakeWorker
      BY <1>0, <2>4 DEF WakeWorker, RingsTyped
    <2> QED
      BY <2>1, <2>2, <2>3, <2>4
         DEF MainStep, LoopHead, ScanWorker, TakeSemaphore, FindSlot, CheckTime,
       RequestReceived, RequestRefused, MetricsTimeout, MainFault, ReceiveFails,
       StartLockFails, SubmitFails, IntervalElapses, StopSignal, StartJob,
       CountLoad, Destroy, JoinWorker, MainOnly
  <1> QED
    BY <1>1, <1>2, <1>3, TypeFrames

\* So does every step of a worker.
LEMMA WorkerKeepsTypes ==
  ASSUME MainTyped, SlotsTyped, RingsTyped, WorkersTyped, UNCHANGED setup,
         NEW w \in Worker, WorkerStep(w) \/ SessionFails(w)
  PROVE  MainTyped' /\ SlotsTyped' /\ RingsTyped' /\ WorkersTyped'
  <1>0. /\ Worker' = Worker /\ Slot' = Slot
        /\ setup.jobs \in Nat
    BY SetupFacts, SameSetup
  <1>1. MainTyped'
    BY <1>0 DEF MainTyped, MainPC, SessionFails, WorkerStep, CheckShutdown, WaitEvent,
       CountOff, HandleEvent, SessionSubmits, SessionCounts, SessionHandled,
       PostSemaphore, mainVars
  <1>2. SlotsTyped'
    <2>1. CASE UNCHANGED slotVars
      BY <2>1, TypeFrames
    <2>2. CASE SessionHandled(w)
      BY <1>0, <2>2 DEF SessionHandled, SlotsTyped
    <2>3. CASE PostSemaphore(w)
      BY <1>0, <2>3 DEF PostSemaphore, SlotsTyped
    <2> QED
      BY <2>1, <2>2, <2>3
         DEF SessionFails, WorkerStep, CheckShutdown, WaitEvent, CountOff, HandleEvent,
             SessionSubmits, SessionCounts
  <1>3. wpc[w] \in {"handle", "submit", "inc"} => event[w] \in Slot
    BY <1>0 DEF WorkersTyped, Slot
  <1>4. RingsTyped'
    <2>1. CASE UNCHANGED ringVars
      BY <2>1, TypeFrames
    <2>2. CASE WaitEvent(w)
      <3>1. CASE \E s \in Slot : ops[w][s] > 0 /\ ops' = [ops EXCEPT ![w][s] = @ - 1]
                                 /\ UNCHANGED wakes
        <4>1. PICK s \in Slot : ops[w][s] > 0 /\ ops' = [ops EXCEPT ![w][s] = @ - 1]
                                /\ UNCHANGED wakes
          BY <3>1
        <4>2. ops[w][s] - 1 \in Nat
          BY <4>1 DEF RingsTyped
        <4> QED
          BY <1>0, <2>2, <4>1, <4>2 DEF WaitEvent, RingsTyped
      <3>2. CASE wakes[w] > 0 /\ wakes' = [wakes EXCEPT ![w] = @ - 1] /\ UNCHANGED ops
        <4>1. wakes[w] - 1 \in Nat
          BY <3>2 DEF RingsTyped
        <4> QED
          BY <1>0, <2>2, <3>2, <4>1 DEF WaitEvent, RingsTyped
      <3> QED
        BY <2>2, <3>1, <3>2 DEF WaitEvent
    <2>3. CASE CountOff(w) \/ SessionCounts(w)
      <3>1. Wrap(wreg[w] - 1) \in 0 .. PendMod - 1 /\ Wrap(wreg[w] + 1) \in 0 .. PendMod - 1
        BY WrapTyped DEF WorkersTyped
      <3> QED BY <1>0, <2>3, <3>1 DEF CountOff, SessionCounts, RingsTyped
    <2>4. CASE HandleEvent(w)
      <3> DEFINE s == event[w]
      <3>1. s \in Slot
        BY <1>3, <2>4 DEF HandleEvent, At
      <3>2. PICK n \in 0 .. life[w][s] : life' = [life EXCEPT ![w][s] = @ - n]
        BY <2>4 DEF HandleEvent
      <3>3. life[w][s] - n \in Nat
        BY <3>1, <3>2 DEF RingsTyped
      <3> QED BY <1>0, <2>4, <3>1, <3>2, <3>3 DEF HandleEvent, RingsTyped
    <2>5. CASE SessionSubmits(w)
      <3>1. event[w] \in Slot
        BY <1>3, <2>5 DEF SessionSubmits, At
      <3> QED BY <1>0, <2>5, <3>1 DEF SessionSubmits, RingsTyped
    <2> QED
      BY <2>1, <2>2, <2>3, <2>4, <2>5
         DEF SessionFails, WorkerStep, CheckShutdown, SessionHandled, PostSemaphore
  <1>5. WorkersTyped'
    <2>0. /\ wpc \in [Worker -> WorkerPC] /\ event \in [Worker -> 0 .. setup.jobs]
          /\ submits \in [Worker -> Nat] /\ wreg \in [Worker -> Int]
          /\ \A v \in Worker : wpc[v] \in {"handle", "submit", "inc"} => event[v] # 0
      BY DEF WorkersTyped
    <2>1. CASE SessionFails(w)
      BY <2>1, TypeFrames DEF SessionFails
    <2>2. CASE CheckShutdown(w) \/ PostSemaphore(w) \/ SessionHandled(w)
      <3>1. wpc' \in {[wpc EXCEPT ![w] = pc] : pc \in {"wait", "gone", "check", "post"}}
            /\ UNCHANGED <<event, submits, wreg>>
        BY <2>2 DEF CheckShutdown, PostSemaphore, SessionHandled, Step
      <3> QED BY <1>0, <2>0, <3>1 DEF WorkersTyped, WorkerPC
    <2>3. CASE WaitEvent(w)
      <3>1. PICK e \in 0 .. setup.jobs : event' = [event EXCEPT ![w] = e]
        BY <1>0, <2>3 DEF WaitEvent, Slot
      <3>2. pending_requests[w] \in Int
        BY ServerAssumption DEF RingsTyped
      <3>3. wreg' = [wreg EXCEPT ![w] = pending_requests[w]]
            /\ wpc' = [wpc EXCEPT ![w] = "dec"] /\ UNCHANGED submits
        BY <2>3 DEF WaitEvent, Step
      <3> QED BY <1>0, <2>0, <3>1, <3>2, <3>3 DEF WorkersTyped, WorkerPC
    <2>4. CASE CountOff(w)
      <3>1. wpc' = [wpc EXCEPT ![w] = IF event[w] = 0 THEN "check" ELSE "handle"]
            /\ wreg' = [wreg EXCEPT ![w] = 0] /\ UNCHANGED <<event, submits>>
        BY <2>4 DEF CountOff, Step
      <3> QED BY <1>0, <2>0, <3>1 DEF WorkersTyped, WorkerPC
    <2>5. CASE HandleEvent(w)
      <3>1. wpc[w] = "handle" /\ event[w] \in Slot
        BY <1>3, <2>5 DEF HandleEvent, At
      <3>2. PICK n \in 0 .. life[w][event[w]] : submits' = [submits EXCEPT ![w] = n]
        BY <2>5 DEF HandleEvent
      <3>3. n \in Nat
        BY <3>1, <3>2 DEF RingsTyped
      <3>4. wpc' = [wpc EXCEPT ![w] = "submit"] /\ UNCHANGED <<event, wreg>>
        BY <2>5 DEF HandleEvent, Step
      <3> QED BY <1>0, <2>0, <3>1, <3>2, <3>3, <3>4 DEF WorkersTyped, WorkerPC
    <2>6. CASE SessionSubmits(w)
      <3>1. wpc[w] = "submit" /\ submits[w] > 0 /\ submits' = [submits EXCEPT ![w] = @ - 1]
            /\ wreg' = [wreg EXCEPT ![w] = pending_requests[w]]
            /\ wpc' = [wpc EXCEPT ![w] = "inc"] /\ UNCHANGED event
        BY <2>6 DEF SessionSubmits, Step, At
      <3>2. pending_requests[w] \in Int /\ submits[w] - 1 \in Nat
        BY <2>0, <3>1, ServerAssumption DEF RingsTyped
      <3> QED BY <1>0, <2>0, <3>1, <3>2 DEF WorkersTyped, WorkerPC
    <2>7. CASE SessionCounts(w)
      <3>1. wpc[w] = "inc" /\ wpc' = [wpc EXCEPT ![w] = "submit"]
            /\ wreg' = [wreg EXCEPT ![w] = 0] /\ UNCHANGED <<event, submits>>
        BY <2>7 DEF SessionCounts, Step, At
      <3> QED BY <1>0, <2>0, <3>1 DEF WorkersTyped, WorkerPC
    <2> QED
      BY <2>1, <2>2, <2>3, <2>4, <2>5, <2>6, <2>7 DEF WorkerStep
  <1> QED
    BY <1>1, <1>2, <1>4, <1>5

-----------------------------------------------------------------------------
(* Slots in use. *)

\* A session of the main thread's slot begins with nothing in the ring; a slot that the
\* ring or the worker refers to stays active until neither does.
LEMMA MainKeepsUse ==
  ASSUME MainTyped, SlotsTyped, RingsTyped, WorkersTyped, UsedIsActive, HeldIsFresh,
         UNCHANGED setup,
         \/ MainStep \/ RequestReceived \/ RequestRefused \/ MainFault
         \/ IntervalElapses \/ StopSignal
  PROVE  UsedIsActive' /\ HeldIsFresh'
  <1>0. Worker' = Worker /\ Slot' = Slot /\ worker \in Worker /\ job \in Slot
    BY SameSetup DEF MainTyped
  <1>1. UNCHANGED workerVars
    BY DEF MainStep, LoopHead, ScanWorker, TakeSemaphore, FindSlot, CheckTime,
       RequestReceived, RequestRefused, MetricsTimeout, MainFault, ReceiveFails,
       StartLockFails, SubmitFails, IntervalElapses, StopSignal, StartJob, SubmitStart,
       CountLoad, CountStore, Destroy, WakeWorker, JoinWorker, MainOnly
  <1>2. \A w \in Worker : \A s \in Slot : Handles(w, s)' = Handles(w, s)
    BY <1>1 DEF Handles, workerVars
  <1>3. CASE StartJob
    <2>1. \A w \in Worker : \A s \in Slot :
            is_active'[w][s] = (is_active[w][s] \/ (w = worker /\ s = job))
      BY <1>0, <1>3 DEF StartJob, SlotsTyped
    <2>2. UNCHANGED <<ops, worker, job>> /\ mpc = "start" /\ mpc' = "submit"
      BY <1>3 DEF StartJob, Goto, ringVars
    <2>3. ops[worker][job] \in Nat /\ ~is_active[worker][job]
      BY <1>0, <2>2 DEF HeldIsFresh, RingsTyped
    <2>4. ops[worker][job] = 0 /\ ~Handles(worker, job)
      BY <1>0, <2>3 DEF UsedIsActive
    <2>5. UsedIsActive'
      BY <1>0, <1>2, <2>1, <2>2 DEF UsedIsActive
    <2>6. HeldIsFresh'
      BY <1>0, <1>2, <2>1, <2>2, <2>4 DEF HeldIsFresh
    <2> QED BY <2>5, <2>6
  <1>4. CASE SubmitFails
    <2>1. \A w \in Worker : \A s \in Slot :
            is_active'[w][s] = (is_active[w][s] /\ ~(w = worker /\ s = job))
      BY <1>0, <1>4 DEF SubmitFails, SlotsTyped
    <2>2. UNCHANGED ops /\ mpc = "submit" /\ mpc' = "loop"
      BY <1>4 DEF SubmitFails, Goto, ringVars
    <2>3. ops[worker][job] = 0 /\ ~Handles(worker, job)
      BY <2>2 DEF HeldIsFresh
    <2>4. ASSUME NEW w \in Worker, NEW s \in Slot, ops'[w][s] > 0 \/ Handles(w, s)'
          PROVE  is_active'[w][s]
      <3>1. ~(w = worker /\ s = job)
        BY <1>2, <2>2, <2>3, <2>4
      <3>2. is_active[w][s]
        BY <1>2, <2>2, <2>4 DEF UsedIsActive
      <3> QED BY <2>1, <3>1, <3>2
    <2>5. UsedIsActive'
      BY <1>0, <2>4 DEF UsedIsActive
    <2> QED BY <2>2, <2>5 DEF HeldIsFresh
  <1>5. CASE SubmitStart
    <2>1. \A w \in Worker : \A s \in Slot :
            ops'[w][s] > 0 => ops[w][s] > 0 \/ (w = worker /\ s = job)
      BY <1>0, <1>5 DEF SubmitStart, RingsTyped
    <2>2. UNCHANGED is_active /\ mpc = "submit" /\ mpc' = "load"
      BY <1>5 DEF SubmitStart, Goto, slotVars
    <2>3. is_active[worker][job]
      BY <2>2 DEF HeldIsFresh
    <2>4. ASSUME NEW w \in Worker, NEW s \in Slot, ops'[w][s] > 0 \/ Handles(w, s)'
          PROVE  is_active'[w][s]
      <3>1. CASE w = worker /\ s = job
        BY <2>2, <2>3, <3>1
      <3>2. CASE ~(w = worker /\ s = job)
        BY <1>2, <2>1, <2>2, <2>4, <3>2 DEF UsedIsActive
      <3> QED BY <3>1, <3>2
    <2>5. UsedIsActive'
      BY <1>0, <2>4 DEF UsedIsActive
    <2> QED BY <2>2, <2>5 DEF HeldIsFresh
  <1>6. CASE FindSlot
    <2>1. FreeSlots(worker) \subseteq Nat
      BY <1>0 DEF FreeSlots, Slot
    <2>2. job' \in FreeSlots(worker) /\ UNCHANGED <<worker, ops, is_active>> /\ mpc' = "time"
      BY <1>6, <2>1, MinIsElement DEF FindSlot, Goto, MainOnly, ringVars, slotVars
    <2>3. UsedIsActive'
      BY <1>0, <1>2, <2>2 DEF UsedIsActive
    <2> QED BY <2>2, <2>3 DEF HeldIsFresh, FreeSlots
  <1>7. CASE /\ UNCHANGED <<ops, is_active>>
             /\ mpc' \in {"time", "recv", "start"} =>
                  mpc \in {"time", "recv", "start"} /\ UNCHANGED <<worker, job>>
             /\ mpc' = "submit" => mpc = "submit" /\ UNCHANGED <<worker, job>>
    <2>1. UsedIsActive'
      BY <1>0, <1>2, <1>7 DEF UsedIsActive
    <2>2. HeldIsFresh'
      BY <1>0, <1>2, <1>7 DEF HeldIsFresh
    <2> QED BY <2>1, <2>2
  <1> QED
    BY <1>3, <1>4, <1>5, <1>6, <1>7
       DEF MainStep, LoopHead, ScanWorker, TakeSemaphore, CheckTime, Goto,
       RequestReceived, RequestRefused, MetricsTimeout, MainFault, ReceiveFails,
       StartLockFails, IntervalElapses, StopSignal, CountLoad, CountStore, Destroy,
       WakeWorker, JoinWorker, MainOnly, ringVars, slotVars

\* The workers keep both, too: a session submits only to its own slot, and its slot is
\* given back only when the ring has nothing of it.
LEMMA WorkerKeepsUse ==
  ASSUME MainTyped, SlotsTyped, RingsTyped, WorkersTyped, UsedIsActive, HeldIsFresh,
         UNCHANGED setup, NEW w \in Worker, WorkerStep(w) \/ SessionFails(w)
  PROVE  UsedIsActive' /\ HeldIsFresh'
  <1>0. Worker' = Worker /\ Slot' = Slot /\ worker \in Worker /\ job \in Slot
    BY SameSetup DEF MainTyped
  <1>1. UNCHANGED <<worker, job>> /\ (mpc' = mpc \/ mpc' = "exited")
    BY DEF WorkerStep, CheckShutdown, WaitEvent, CountOff, HandleEvent, SessionSubmits,
       SessionCounts, SessionHandled, PostSemaphore, SessionFails, mainVars
  \* It is enough that a slot is used after the step only if it was before, and that
  \* only a slot that is not used any more becomes inactive.
  <1>2. ASSUME \A v \in Worker : \A s \in Slot :
                 /\ ops'[v][s] > 0 \/ Handles(v, s)' => ops[v][s] > 0 \/ Handles(v, s)
                 /\ is_active'[v][s] => is_active[v][s]
                 /\ is_active[v][s] /\ ~is_active'[v][s] =>
                      Handles(v, s) /\ ~(ops'[v][s] > 0 \/ Handles(v, s)')
                 /\ ops'[v][s] \in Nat
        PROVE  UsedIsActive' /\ HeldIsFresh'
    <2>1. UsedIsActive'
      BY <1>0, <1>2 DEF UsedIsActive
    <2>2. CASE mpc' \in {"time", "recv", "start"}
      <3>1. ~is_active[worker][job]
        BY <1>1, <2>2 DEF HeldIsFresh
      <3>2. ~is_active'[worker][job]
        BY <1>0, <1>2, <3>1
      <3> QED BY <1>1, <2>1, <2>2, <3>2 DEF HeldIsFresh
    <2>3. CASE mpc' = "submit"
      <3>1. is_active[worker][job] /\ ops[worker][job] = 0 /\ ~Handles(worker, job)
        BY <1>1, <2>3 DEF HeldIsFresh
      <3>2. ASSUME NEW v \in Worker, NEW s \in Slot, v = worker, s = job
            PROVE  is_active'[v][s] /\ ops'[v][s] = 0 /\ ~Handles(v, s)'
        BY <1>2, <3>1, <3>2
      <3>3. worker' \in Worker /\ job' \in Slot
        BY <1>0, <1>1
      <3> QED BY <1>1, <2>1, <2>3, <3>2, <3>3 DEF HeldIsFresh
    <2> QED BY <2>1, <2>2, <2>3 DEF HeldIsFresh
  <1>3. \A v \in Worker : \A s \in Slot : ops[v][s] \in Nat /\ is_active[v][s] \in BOOLEAN
    BY DEF RingsTyped, SlotsTyped
  <1>4. wpc \in [Worker -> WorkerPC] /\ event \in [Worker -> 0 .. setup.jobs]
        /\ (wpc[w] \in {"handle", "submit", "inc"} => event[w] \in Slot)
    BY SetupFacts DEF WorkersTyped, Slot
  <1>5. CASE SessionFails(w)
    BY <1>2, <1>3, <1>5 DEF SessionFails, workerVars, ringVars, slotVars, Handles
  <1>6. CASE CheckShutdown(w) \/ PostSemaphore(w)
    <2>1. UNCHANGED <<ops, is_active, event>> /\ wpc[w] \in {"check", "post"}
          /\ \E pc \in {"wait", "gone", "check"} : wpc' = [wpc EXCEPT ![w] = pc]
      BY <1>6 DEF CheckShutdown, PostSemaphore, At, Step, ringVars, slotVars
    <2> QED BY <1>2, <1>3, <1>4, <2>1 DEF Handles
  <1>7. CASE WaitEvent(w)
    <2>1. wpc[w] = "wait" /\ wpc' = [wpc EXCEPT ![w] = "dec"] /\ UNCHANGED is_active
      BY <1>7 DEF WaitEvent, At, Step, slotVars
    <2>2. CASE \E s \in Slot : /\ ops[w][s] > 0 /\ ops' = [ops EXCEPT ![w][s] = @ - 1]
                               /\ event' = [event EXCEPT ![w] = s]
      <3>1. PICK s \in Slot : /\ ops[w][s] > 0 /\ ops' = [ops EXCEPT ![w][s] = @ - 1]
                              /\ event' = [event EXCEPT ![w] = s]
        BY <2>2
      <3>2. \A v \in Worker : \A t \in Slot :
              ops'[v][t] = IF v = w /\ t = s THEN ops[w][s] - 1 ELSE ops[v][t]
        BY <3>1 DEF RingsTyped
      <3> QED BY <1>2, <1>3, <1>4, <2>1, <3>1, <3>2 DEF Handles
    <2>3. CASE event' = [event EXCEPT ![w] = 0] /\ UNCHANGED ops
      <3>1. 0 \notin Slot
        BY DEF Slot
      <3> QED BY <1>2, <1>3, <1>4, <2>1, <2>3, <3>1 DEF Handles
    <2> QED BY <1>7, <2>2, <2>3 DEF WaitEvent
  <1>8. CASE CountOff(w) \/ HandleEvent(w) \/ SessionCounts(w)
    <2>1. UNCHANGED <<ops, is_active, event>> /\ wpc[w] \in {"dec", "handle", "inc"}
          /\ \E pc \in {"check", "handle", "submit"} : wpc' = [wpc EXCEPT ![w] = pc]
      BY <1>8 DEF CountOff, HandleEvent, SessionCounts, At, Step, slotVars
    <2> QED BY <1>2, <1>3, <1>4, <2>1 DEF Handles
  <1>9. CASE SessionSubmits(w)
    <2>1. wpc[w] = "submit" /\ wpc' = [wpc EXCEPT ![w] = "inc"]
          /\ UNCHANGED <<is_active, event>> /\ event[w] \in Slot
      BY <1>4, <1>9 DEF SessionSubmits, At, Step, slotVars
    <2>2. \A v \in Worker : \A t \in Slot :
            ops'[v][t] = IF v = w /\ t = event[w] THEN ops[v][t] + 1 ELSE ops[v][t]
      BY <1>9, <2>1 DEF SessionSubmits, RingsTyped
    <2> QED BY <1>2, <1>3, <1>4, <2>1, <2>2 DEF Handles
  <1>10. CASE SessionHandled(w)
    <2>1. wpc[w] = "submit" /\ UNCHANGED <<ops, event>> /\ event[w] \in Slot
          /\ wpc' = [wpc EXCEPT ![w] = IF Terminated(w) THEN "post" ELSE "check"]
      BY <1>4, <1>10 DEF SessionHandled, At, Step, ringVars
    <2>2. \A v \in Worker : \A t \in Slot :
            is_active'[v][t] = (is_active[v][t] /\ ~(Terminated(w) /\ v = w /\ t = event[w]))
      BY <1>10, <2>1 DEF SessionHandled, SlotsTyped
    <2>3. Terminated(w) <=> ops[w][event[w]] = 0
      BY DEF Terminated
    <2>4. \A v \in Worker : \A t \in Slot : Handles(v, t)' <=> v # w /\ Handles(v, t)
      BY <1>4, <2>1 DEF Handles
    <2>5. Handles(w, event[w])
      BY <2>1 DEF Handles
    <2> QED BY <1>2, <1>3, <2>1, <2>2, <2>3, <2>4, <2>5
  <1> QED
    BY <1>5, <1>6, <1>7, <1>8, <1>9, <1>10 DEF WorkerStep

-----------------------------------------------------------------------------
(* Booking. *)

\* The slot of a worker that the main thread has taken and not yet marked active, and
\* the one the worker has made inactive and not yet posted.
Held(w) == IF mpc \in {"find", "time", "recv", "start"} /\ worker = w THEN 1 ELSE 0
Posting(w) == IF wpc[w] = "post" THEN 1 ELSE 0

\* The main thread gives up its slot, and the semaphore is never told, or the process ends.
Drops ==
  \/ mpc \in {"time", "recv", "start", "submit"} /\ mpc' = "loop"
  \/ mpc' = "exited"

\* What a step does to the books of worker v: the slots that are idle and the semaphore
\* change by the same amount, unless a slot is given up; then the former grows.
Balances(v) ==
  /\ IdleSlots(v) \in Int /\ IdleSlots(v)' \in Int
  /\ available_jobs[v] \in Int /\ available_jobs'[v] \in Int
  /\ IdleSlots(v) - available_jobs[v] <= IdleSlots(v)' - available_jobs'[v]
  /\ ~Drops => IdleSlots(v) - available_jobs[v] = IdleSlots(v)' - available_jobs'[v]

\* It is enough to account for the changes d, h, p and a of the free slots, the slot held,
\* the slot to be posted and the semaphore.
LEMMA BalanceByParts ==
  ASSUME MainTyped, SlotsTyped, MainTyped', SlotsTyped', UNCHANGED setup, NEW v \in Worker,
         NEW d \in Int, NEW h \in Int, NEW p \in Int, NEW a \in Int,
         Cardinality(FreeSlots(v)') = Cardinality(FreeSlots(v)) + d,
         Held(v)' = Held(v) + h,
         Posting(v)' = Posting(v) + p,
         available_jobs'[v] = available_jobs[v] + a,
         d - h - p >= a,
         ~Drops => d - h - p = a
  PROVE  Balances(v)
  <1>1. Cardinality(FreeSlots(v)) \in Int
    BY FreeCount
  <1>3. available_jobs[v] \in Int
    BY DEF SlotsTyped
  <1>4. Held(v) \in Int /\ Posting(v) \in Int
    BY DEF Held, Posting
  <1>5. IdleSlots(v) = Cardinality(FreeSlots(v)) - Held(v) - Posting(v)
    BY DEF IdleSlots, Held, Posting
  <1>6. IdleSlots(v)' = Cardinality(FreeSlots(v)') - Held(v)' - Posting(v)'
    BY DEF IdleSlots, Held, Posting
  <1>7. IdleSlots(v)' = IdleSlots(v) + (d - h - p) /\ IdleSlots(v) \in Int
    BY <1>1, <1>4, <1>5, <1>6
  <1>8. ASSUME NEW i \in Int, NEW e \in Int, NEW b \in Int
        PROVE  /\ e >= a => i - b <= (i + e) - (b + a)
               /\ e = a => i - b = (i + e) - (b + a)
    OBVIOUS
  <1>9. d - h - p \in Int
    OBVIOUS
  <1> QED
    BY <1>3, <1>7, <1>8, <1>9 DEF Balances

\* A step that leaves the semaphores and the activity of the slots alone.
LEMMA BalanceOfFrames ==
  ASSUME MainTyped, SlotsTyped, MainTyped', SlotsTyped', UNCHANGED setup, NEW v \in Worker,
         UNCHANGED slotVars, Posting(v)' = Posting(v),
         mpc \in {"find", "time", "recv", "start"} =>
           UNCHANGED worker /\ (mpc' \in {"find", "time", "recv", "start"} \/ Drops),
         mpc' \in {"find", "time", "recv", "start"} =>
           mpc \in {"find", "time", "recv", "start"}
  PROVE  Balances(v)
  <1>1. FreeSlots(v)' = FreeSlots(v) /\ available_jobs'[v] = available_jobs[v]
    BY SameSetup DEF FreeSlots, slotVars
  <1>2. Cardinality(FreeSlots(v)) \in Int /\ available_jobs[v] \in Int
    BY FreeCount DEF SlotsTyped
  <1>3. PICK h \in {0, -1} : Held(v)' = Held(v) + h /\ (~Drops => h = 0)
    BY DEF Held
  <1>4. Posting(v)' = Posting(v) + 0
    BY DEF Posting
  <1>5. Cardinality(FreeSlots(v)') = Cardinality(FreeSlots(v)) + 0
        /\ available_jobs'[v] = available_jobs[v] + 0
    BY <1>1, <1>2
  <1>6. 0 - h - 0 >= 0 /\ (~Drops => 0 - h - 0 = 0) /\ h \in Int
    BY <1>3
  <1> QED
    BY <1>3, <1>4, <1>5, <1>6, BalanceByParts

\* What one slot more or less does to the number of free slots.
LEMMA FreeSlotChanges ==
  ASSUME MainTyped, SlotsTyped, UNCHANGED setup,
         NEW w \in Worker, NEW s \in Slot, NEW b \in BOOLEAN, is_active[w][s] = ~b,
         is_active' = [is_active EXCEPT ![w][s] = b]
  PROVE  \A v \in Worker :
           Cardinality(FreeSlots(v)') =
             Cardinality(FreeSlots(v)) + (IF v # w THEN 0 ELSE IF b THEN -1 ELSE 1)
  <1>0. Slot' = Slot
    BY SameSetup
  <1> TAKE v \in Worker
  <1>1. IsFiniteSet(FreeSlots(v)) /\ Cardinality(FreeSlots(v)) \in Int
    BY FreeCount
  <1>2. \A t \in Slot : is_active'[v][t] = IF v = w /\ t = s THEN b ELSE is_active[v][t]
    BY DEF SlotsTyped
  <1>3. CASE v # w
    <2>1. FreeSlots(v)' = FreeSlots(v)
      BY <1>0, <1>2, <1>3 DEF FreeSlots
    <2> QED BY <1>1, <1>3, <2>1
  <1>4. CASE v = w /\ b
    <2>1. FreeSlots(v)' = FreeSlots(v) \ {s} /\ s \in FreeSlots(v)
      BY <1>0, <1>2, <1>4 DEF FreeSlots
    <2> QED BY <1>1, <1>4, <2>1, FS_RemoveElement
  <1>5. CASE v = w /\ ~b
    <2>1. FreeSlots(v)' = FreeSlots(v) \cup {s} /\ s \notin FreeSlots(v)
      BY <1>0, <1>2, <1>5 DEF FreeSlots
    <2> QED BY <1>1, <1>5, <2>1, FS_AddElement
  <1> QED BY <1>3, <1>4, <1>5

\* The main thread books every slot it takes.
LEMMA MainBalances ==
  ASSUME MainTyped, SlotsTyped, RingsTyped, WorkersTyped, HeldIsFresh, UNCHANGED setup,
         MainTyped', SlotsTyped',
         \/ MainStep \/ RequestReceived \/ RequestRefused \/ MainFault
         \/ IntervalElapses \/ StopSignal
  PROVE  \A v \in Worker : Balances(v)
  <1> TAKE v \in Worker
  <1>0. Worker' = Worker /\ worker \in Worker /\ job \in Slot
    BY SameSetup DEF MainTyped
  <1>1. Posting(v)' = Posting(v) /\ Posting(v)' = Posting(v) + 0
    BY DEF Posting, workerVars, MainStep, LoopHead, ScanWorker, TakeSemaphore, FindSlot,
       CheckTime, RequestReceived, RequestRefused, MetricsTimeout, MainFault, ReceiveFails,
       StartLockFails, SubmitFails, IntervalElapses, StopSignal, StartJob, SubmitStart,
       CountLoad, CountStore, Destroy, WakeWorker, JoinWorker, MainOnly
  <1>2. Cardinality(FreeSlots(v)) \in Int /\ available_jobs[v] \in Int
    BY FreeCount DEF SlotsTyped
  <1>3. CASE TakeSemaphore
    <2>1. UNCHANGED <<worker, is_active>> /\ mpc = "sem" /\ mpc' = "find"
      BY <1>3 DEF TakeSemaphore, Goto
    <2>2. FreeSlots(v)' = FreeSlots(v)
      BY <2>1, SameSetup DEF FreeSlots
    <2>3. Cardinality(FreeSlots(v)') = Cardinality(FreeSlots(v)) + 0
      BY <1>2, <2>2
    <2> DEFINE h == IF v = worker THEN 1 ELSE 0
    <2>4. Held(v)' = Held(v) + h
      BY <2>1 DEF Held
    <2>5. available_jobs'[v] = available_jobs[v] + (0 - h)
      BY <1>2, <1>3 DEF TakeSemaphore, SlotsTyped
    <2>6. h \in Int /\ 0 - h \in Int /\ 0 - h - 0 = 0 - h /\ 0 - h - 0 >= 0 - h
      OBVIOUS
    <2> HIDE DEF h
    <2> QED BY <1>1, <2>3, <2>4, <2>5, <2>6, BalanceByParts
  <1>4. CASE StartJob
    <2>1. UNCHANGED <<worker, available_jobs>> /\ mpc = "start" /\ mpc' = "submit"
      BY <1>4 DEF StartJob, Goto
    <2> DEFINE h == IF v = worker THEN -1 ELSE 0
    <2>2. is_active[worker][job] = ~TRUE
      BY <1>0, <2>1 DEF HeldIsFresh, SlotsTyped
    <2>3. Cardinality(FreeSlots(v)') = Cardinality(FreeSlots(v)) + h
      BY <1>0, <1>4, <2>2, FreeSlotChanges DEF StartJob
    <2>4. Held(v)' = Held(v) + h
      BY <2>1 DEF Held
    <2>5. available_jobs'[v] = available_jobs[v] + 0
      BY <1>2, <2>1
    <2>6. h \in Int /\ h - h - 0 = 0 /\ h - h - 0 >= 0
      OBVIOUS
    <2> HIDE DEF h
    <2> QED BY <1>1, <2>3, <2>4, <2>5, <2>6, BalanceByParts
  <1>5. CASE SubmitFails
    <2>1. UNCHANGED <<worker, available_jobs>> /\ mpc = "submit" /\ mpc' = "loop" /\ Drops
      BY <1>5 DEF SubmitFails, Goto, Drops
    <2> DEFINE d == IF v = worker THEN 1 ELSE 0
    <2>2. is_active[worker][job] = ~FALSE
      BY <1>0, <2>1 DEF HeldIsFresh, SlotsTyped
    <2>3. Cardinality(FreeSlots(v)') = Cardinality(FreeSlots(v)) + d
      BY <1>0, <1>5, <2>2, FreeSlotChanges DEF SubmitFails
    <2>4. Held(v)' = Held(v) + 0
      BY <2>1 DEF Held
    <2>5. available_jobs'[v] = available_jobs[v] + 0
      BY <1>2, <2>1
    <2>6. d \in Int /\ 0 \in Int /\ d - 0 - 0 >= 0 /\ (~Drops => d - 0 - 0 = 0)
      BY <2>1
    <2> HIDE DEF d
    <2> QED BY <1>1, <2>3, <2>4, <2>5, <2>6, BalanceByParts, Zenon
  <1>6. CASE ~(TakeSemaphore \/ StartJob \/ SubmitFails)
    <2>1. UNCHANGED slotVars
      BY <1>6 DEF MainStep, LoopHead, ScanWorker, FindSlot, CheckTime,
       RequestReceived, RequestRefused, MetricsTimeout, MainFault, ReceiveFails,
       StartLockFails, IntervalElapses, StopSignal, SubmitStart,
       CountLoad, CountStore, Destroy, WakeWorker, JoinWorker, MainOnly
    <2>2. /\ mpc \in {"find", "time", "recv", "start"} =>
               UNCHANGED worker /\ (mpc' \in {"find", "time", "recv", "start"} \/ Drops)
          /\ mpc' \in {"find", "time", "recv", "start"} =>
               mpc \in {"find", "time", "recv", "start"}
      BY <1>6 DEF MainStep, LoopHead, ScanWorker, FindSlot, CheckTime,
       RequestReceived, RequestRefused, MetricsTimeout, MainFault, ReceiveFails,
       StartLockFails, IntervalElapses, StopSignal, SubmitStart,
       CountLoad, CountStore, Destroy, WakeWorker, JoinWorker, Drops, Goto
    <2> QED BY <1>1, <2>1, <2>2, BalanceOfFrames
  <1> QED
    BY <1>3, <1>4, <1>5, <1>6

\* A worker gives back every slot it has made inactive.
LEMMA WorkerBalances ==
  ASSUME MainTyped, SlotsTyped, RingsTyped, WorkersTyped, UsedIsActive, UNCHANGED setup,
         MainTyped', SlotsTyped', NEW w \in Worker, WorkerStep(w) \/ SessionFails(w)
  PROVE  \A v \in Worker : Balances(v)
  <1> TAKE v \in Worker
  <1>0. wpc \in [Worker -> WorkerPC] /\ (wpc[w] = "submit" => event[w] \in Slot)
    BY SetupFacts DEF WorkersTyped, Slot
  <1>1. Cardinality(FreeSlots(v)) \in Int /\ available_jobs[v] \in Int
    BY FreeCount DEF SlotsTyped
  <1>2. CASE SessionFails(w)
    <2>1. Posting(v)' = Posting(v) /\ UNCHANGED <<slotVars, worker>> /\ mpc' = "exited" /\ Drops
      BY <1>2 DEF SessionFails, Posting, workerVars, Drops
    <2> QED BY <2>1, BalanceOfFrames
  <1>3. ASSUME WorkerStep(w)
        PROVE  UNCHANGED <<mpc, worker>> /\ Held(v)' = Held(v) + 0
    BY <1>3 DEF Held, WorkerStep, CheckShutdown, WaitEvent, CountOff, HandleEvent,
       SessionSubmits, SessionCounts, SessionHandled, PostSemaphore, mainVars
  <1>4. ASSUME NEW pc \in WorkerPC \ {"post"}, wpc[w] # "post", UNCHANGED slotVars,
               wpc' = [wpc EXCEPT ![w] = pc], WorkerStep(w)
        PROVE  Balances(v)
    <2>1. Posting(v)' = Posting(v)
      BY <1>0, <1>4 DEF Posting
    <2> QED BY <1>3, <1>4, <2>1, BalanceOfFrames
  <1>5. CASE SessionHandled(w) /\ Terminated(w)
    <2> DEFINE d == IF v = w THEN 1 ELSE 0
    <2>1. wpc[w] = "submit" /\ wpc' = [wpc EXCEPT ![w] = "post"] /\ event[w] \in Slot
          /\ is_active' = [is_active EXCEPT ![w][event[w]] = FALSE]
          /\ UNCHANGED available_jobs
      BY <1>0, <1>5 DEF SessionHandled, At, Step
    <2>2. is_active[w][event[w]] = ~FALSE
      BY <2>1 DEF UsedIsActive, Handles, SlotsTyped
    <2>3. Cardinality(FreeSlots(v)') = Cardinality(FreeSlots(v)) + d
      BY <2>1, <2>2, FreeSlotChanges
    <2>4. Posting(v)' = Posting(v) + d
      BY <1>0, <2>1 DEF Posting
    <2>5. Held(v)' = Held(v) + 0
      BY <1>3, <1>5 DEF WorkerStep
    <2>6. available_jobs'[v] = available_jobs[v] + 0
      BY <1>1, <2>1
    <2>7. d \in Int /\ d - 0 - d = 0 /\ d - 0 - d >= 0
      OBVIOUS
    <2> HIDE DEF d
    <2> QED BY <2>3, <2>4, <2>5, <2>6, <2>7, BalanceByParts
  <1>6. CASE SessionHandled(w) /\ ~Terminated(w)
    <2>1. wpc[w] = "submit" /\ wpc' = [wpc EXCEPT ![w] = "check"] /\ UNCHANGED slotVars
      BY <1>6 DEF SessionHandled, At, Step, slotVars
    <2> QED BY <1>4, <1>6, <2>1 DEF WorkerPC, WorkerStep
  <1>7. CASE PostSemaphore(w)
    <2> DEFINE a == IF v = w THEN 1 ELSE 0
    <2>1. wpc[w] = "post" /\ wpc' = [wpc EXCEPT ![w] = "check"] /\ UNCHANGED is_active
      BY <1>7 DEF PostSemaphore, At, Step
    <2>2. FreeSlots(v)' = FreeSlots(v)
      BY <2>1, SameSetup DEF FreeSlots
    <2>3. Cardinality(FreeSlots(v)') = Cardinality(FreeSlots(v)) + 0
      BY <1>1, <2>2
    <2>4. Posting(v)' = Posting(v) + (0 - a)
      BY <1>0, <2>1 DEF Posting
    <2>5. Held(v)' = Held(v) + 0
      BY <1>3, <1>7 DEF WorkerStep
    <2>6. available_jobs'[v] = available_jobs[v] + a
      BY <1>1, <1>7 DEF PostSemaphore, SlotsTyped
    <2>7. a \in Int /\ 0 - a \in Int /\ 0 - 0 - (0 - a) = a /\ 0 - 0 - (0 - a) >= a
      OBVIOUS
    <2> HIDE DEF a
    <2> QED BY <2>3, <2>4, <2>5, <2>6, <2>7, BalanceByParts
  <1>8. CASE CheckShutdown(w) \/ WaitEvent(w) \/ CountOff(w) \/ HandleEvent(w)
             \/ SessionSubmits(w) \/ SessionCounts(w)
    <2>1. UNCHANGED slotVars /\ wpc[w] # "post"
          /\ \E pc \in WorkerPC \ {"post"} : wpc' = [wpc EXCEPT ![w] = pc]
      BY <1>8 DEF CheckShutdown, WaitEvent, CountOff, HandleEvent, SessionSubmits,
         SessionCounts, At, Step, WorkerPC
    <2> QED BY <1>4, <1>8, <2>1 DEF WorkerStep
  <1> QED
    BY <1>2, <1>5, <1>6, <1>7, <1>8 DEF WorkerStep

\* A step that gives up no slot keeps what the semaphores say, and none makes them
\* promise a slot too many.
LEMMA BalanceKeepsBooks ==
  ASSUME MainTyped, NoOverbooking, SemaphoreCountsJobs, UNCHANGED setup,
         \A v \in Worker : Balances(v),
         SlotsAreKept /\ Alive' /\ ~should_stop' => Alive /\ ~should_stop /\ ~Drops
  PROVE  NoOverbooking' /\ SemaphoreCountsJobs'
  <1>0. Worker' = Worker /\ (SlotsAreKept' <=> SlotsAreKept)
    BY SameSetup DEF SlotsAreKept
  <1>1. ASSUME NEW v \in Worker
        PROVE  /\ available_jobs'[v] <= IdleSlots(v)'
               /\ SlotsAreKept /\ Alive' /\ ~should_stop' => available_jobs'[v] = IdleSlots(v)'
    <2>1. Balances(v) /\ available_jobs[v] <= IdleSlots(v)
      BY DEF NoOverbooking
    <2>2. SlotsAreKept /\ Alive' /\ ~should_stop' => available_jobs[v] = IdleSlots(v) /\ ~Drops
      BY DEF SemaphoreCountsJobs
    <2>3. \A i, j, a, b \in Int : /\ a <= i /\ i - a <= j - b => b <= j
                                  /\ a = i /\ i - a = j - b => b = j
      OBVIOUS
    <2> QED BY <2>1, <2>2, <2>3, Zenon DEF Balances
  <1> QED
    BY <1>0, <1>1, Zenon DEF NoOverbooking, SemaphoreCountsJobs

-----------------------------------------------------------------------------
(* The theorems. *)

\* A server that has just started.
LEMMA InitEstablishesServerInv == ServerInit => ServerInv
  <1> SUFFICES ASSUME ServerInit PROVE ServerInv
    OBVIOUS
  <1>1. setup \in Setups /\ setup.workers \in Nat \ {0} /\ setup.jobs \in Nat \ {0}
    BY ServerAssumption DEF ServerInit, ServerSetup
  <1>2. MainTyped
    BY <1>1 DEF ServerInit, MainTyped, MainPC, Worker, Slot
  <1>3. SlotsTyped /\ RingsTyped /\ WorkersTyped
    <2>1. 0 \in 0 .. PendMod - 1 /\ 0 \in 0 .. setup.jobs
      BY <1>1, ServerAssumption
    <2> QED
      BY <1>1, <2>1 DEF ServerInit, InitialJobs, SlotsTyped, RingsTyped, WorkersTyped, WorkerPC
  <1>4. UsedIsActive /\ HeldIsFresh
    BY DEF ServerInit, UsedIsActive, HeldIsFresh, Handles
  <1>5. \A w \in Worker : available_jobs[w] = setup.jobs /\ IdleSlots(w) = setup.jobs
    <2> TAKE w \in Worker
    <2>1. FreeSlots(w) = 1 .. setup.jobs
      BY DEF ServerInit, FreeSlots, Slot
    <2>2. Cardinality(FreeSlots(w)) = setup.jobs
      BY <1>1, <2>1, FS_Interval
    <2> QED BY <1>1, <2>2 DEF ServerInit, InitialJobs, IdleSlots
  <1> QED
    BY <1>1, <1>2, <1>3, <1>4, <1>5 DEF ServerInv, NoOverbooking, SemaphoreCountsJobs

\* Every step of every thread keeps the invariant.
LEMMA NextKeepsServerInv == ServerInv /\ [ServerNext]_vars => ServerInv'
  <1> SUFFICES ASSUME ServerInv, [ServerNext]_vars PROVE ServerInv'
    OBVIOUS
  <1> USE DEF ServerInv
  <1>1. CASE UNCHANGED vars
    BY <1>1 DEF vars, mainVars, workerVars, ringVars, slotVars, MainTyped, SlotsTyped,
       RingsTyped, WorkersTyped, UsedIsActive, HeldIsFresh, Handles, NoOverbooking,
       SemaphoreCountsJobs, IdleSlots, FreeSlots, SlotsAreKept, Alive, Worker, Slot
  <1>2. ASSUME UNCHANGED setup, Alive,
               \/ MainStep \/ RequestReceived \/ RequestRefused \/ MainFault
               \/ IntervalElapses \/ StopSignal
        PROVE  ServerInv'
    <2>1. MainTyped' /\ SlotsTyped' /\ RingsTyped' /\ WorkersTyped'
      BY <1>2, MainKeepsMain, MainKeepsOthers, Zenon
    <2>2. UsedIsActive' /\ HeldIsFresh'
      BY <1>2, MainKeepsUse, Zenon
    <2>3. \A v \in Worker : Balances(v)
      BY <1>2, <2>1, MainBalances, Zenon
    <2>4. SlotsAreKept /\ Alive' /\ ~should_stop' => ~should_stop /\ ~Drops
      BY <1>2 DEF SlotsAreKept, Alive, Drops, MainStep, LoopHead, ScanWorker, TakeSemaphore,
         FindSlot, CheckTime, RequestReceived, RequestRefused, MetricsTimeout, MainFault,
         ReceiveFails, StartLockFails, SubmitFails, IntervalElapses, StopSignal, StartJob,
         SubmitStart, CountLoad, CountStore, Destroy, WakeWorker, JoinWorker, Goto
    <2> QED BY <1>2, <2>1, <2>2, <2>3, <2>4, BalanceKeepsBooks, Zenon
  <1>3. ASSUME UNCHANGED setup, Alive, NEW w \in Worker, WorkerStep(w) \/ SessionFails(w)
        PROVE  ServerInv'
    <2>1. MainTyped' /\ SlotsTyped' /\ RingsTyped' /\ WorkersTyped'
      BY <1>3, WorkerKeepsTypes, Zenon
    <2>2. UsedIsActive' /\ HeldIsFresh'
      BY <1>3, WorkerKeepsUse, Zenon
    <2>3. \A v \in Worker : Balances(v)
      BY <1>3, <2>1, WorkerBalances, Zenon
    <2>4. SlotsAreKept /\ Alive' /\ ~should_stop' => ~should_stop /\ ~Drops
      BY <1>3 DEF SlotsAreKept, Alive, Drops, WorkerStep, CheckShutdown, WaitEvent, CountOff,
         HandleEvent, SessionSubmits, SessionCounts, SessionHandled, PostSemaphore,
         SessionFails, mainVars
    <2> QED BY <1>3, <2>1, <2>2, <2>3, <2>4, BalanceKeepsBooks, Zenon
  <1> QED
    BY <1>1, <1>2, <1>3 DEF ServerNext, Over

\* The inductive invariant holds for every number of workers, of slots, of requests and
\* of operations of a session, with and without faults.
THEOREM ServerInvAlways == ServerSpec => []ServerInv
  BY InitEstablishesServerInv, NextKeepsServerInv, PTL DEF ServerSpec

\* The slot that the main thread initialises and receives a request into belongs to no
\* session: tftp_session_init never overwrites one that the ring refers to.
THEOREM SlotIsFreeAlways == ServerSpec => []SlotIsFree
  <1>1. ServerInv => SlotIsFree
    <2> SUFFICES ASSUME ServerInv, HoldsSlot
                 PROVE  ops[worker][job] = 0 /\ ~Handles(worker, job)
      BY DEF SlotIsFree, Handles
    <2>1. ops[worker][job] \in Nat /\ worker \in Worker /\ job \in Slot
      BY DEF ServerInv, MainTyped, RingsTyped
    <2>2. CASE mpc = "submit"
      BY <2>2 DEF ServerInv, HeldIsFresh
    <2>3. CASE mpc # "submit"
      BY <2>1, <2>3 DEF ServerInv, HeldIsFresh, UsedIsActive, HoldsSlot
    <2> QED BY <2>2, <2>3
  <1> QED
    BY <1>1, ServerInvAlways, PTL

\* worker_pool_get_job finds an inactive slot once it has the semaphore: its
\* unreachable() is not reached.
THEOREM SearchSucceedsAlways == ServerSpec => []SearchSucceeds
  <1>1. ServerInv => SearchSucceeds
    <2> SUFFICES ASSUME ServerInv, mpc = "find" PROVE FreeSlots(worker) # {}
      BY DEF SearchSucceeds
    <2>1. worker \in Worker /\ available_jobs[worker] \in Nat
          /\ available_jobs[worker] <= IdleSlots(worker)
      BY DEF ServerInv, MainTyped, SlotsTyped, NoOverbooking
    <2>2. Cardinality(FreeSlots(worker)) \in Nat
      BY <2>1, FreeCount DEF ServerInv
    <2>3. Cardinality(FreeSlots(worker)) > 0
      BY <2>1, <2>2 DEF IdleSlots
    <2> QED BY <2>1, <2>3, FreeCount DEF ServerInv
  <1> QED
    BY <1>1, ServerInvAlways, PTL

\* A semaphore never promises a slot that does not exist, whatever goes wrong.
THEOREM NoOverbookingAlways == ServerSpec => []NoOverbooking
  <1>1. ServerInv => NoOverbooking
    BY DEF ServerInv
  <1> QED
    BY <1>1, ServerInvAlways, PTL

\* While the server serves and nothing makes the main thread leave a slot behind, the
\* semaphores count exactly the slots that are free.
THEOREM SemaphoreCountsJobsAlways == ServerSpec => []SemaphoreCountsJobs
  <1>1. ServerInv => SemaphoreCountsJobs
    BY DEF ServerInv
  <1> QED
    BY <1>1, ServerInvAlways, PTL

\* Every variable keeps its type; no semaphore exceeds the slots of its worker.
THEOREM ServerTypesAlways == ServerSpec => []ServerTypeOK
  <1>1. ServerInv => ServerTypeOK
    <2> SUFFICES ASSUME ServerInv PROVE ServerTypeOK
      OBVIOUS
    <2> USE DEF ServerInv
    <2>1. setup.jobs \in Nat
      BY SetupFacts
    <2>2. ASSUME NEW w \in Worker PROVE available_jobs[w] \in 0 .. setup.jobs
      <3>1. Cardinality(FreeSlots(w)) \in 0 .. setup.jobs
        BY FreeCount
      <3>2. IdleSlots(w) \in Int /\ IdleSlots(w) <= setup.jobs
        BY <2>1, <3>1 DEF IdleSlots
      <3>3. available_jobs[w] \in Nat /\ available_jobs[w] <= IdleSlots(w)
        BY DEF SlotsTyped, NoOverbooking
      <3> QED BY <2>1, <3>2, <3>3
    <2>3. available_jobs \in [Worker -> 0 .. setup.jobs]
      BY <2>2 DEF SlotsTyped
    <2>4. \A w \in Worker : event[w] \in Slot \cup {0}
      BY <2>1 DEF WorkersTyped, Slot
    <2> QED BY <2>3, <2>4 DEF ServerTypeOK, MainTyped, RingsTyped
  <1> QED
    BY <1>1, ServerInvAlways, PTL
=============================================================================
