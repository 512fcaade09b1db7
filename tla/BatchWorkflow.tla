----------------------------- MODULE BatchWorkflow -----------------------------
(***************************************************************************)
(* The persistent batch driver, VarDctBatchEncoder                         *)
(* (src/src/codestream/batch_workflow.cpp).                                *)
(*                                                                         *)
(* Callers run Encode and Shutdown, one at a time under encode_mutex_; the *)
(* driver's workers share the images of the active batch through two       *)
(* atomics, next_index_ and terminal_index_, and work_mutex_.  Everybody   *)
(* needs a participant slot of the execution domain to compute, and a      *)
(* batch needs its memory envelope, which a job outside the driver may     *)
(* hold.  The two budgets are modules of their own; here a slot or the     *)
(* envelope is just free or taken.  A critical section is one action, and  *)
(* so is a run of steps on what only one thread can see.                   *)
(***************************************************************************)
EXTENDS Integers, Sequences, FiniteSets

CONSTANTS Callers,      \* threads that call Encode and Shutdown
          Jobs,         \* single-image encodes that share the domain
          None,         \* nobody
          MaxInFlight,  \* max_in_flight_, the number of workers
          Slots,        \* the domain's participant limit
          Batches,      \* request arrays, as sequences of "good" and "bad"
          Wrap          \* size_t counters count modulo Wrap

Workers == 0 .. MaxInFlight - 1

ASSUME BatchAssumption ==
  /\ MaxInFlight \in Nat \ {0} /\ Slots \in Nat \ {0}
  /\ Wrap \in Nat /\ Wrap > 1
  /\ Batches \subseteq Seq({"good", "bad"})
  /\ Workers \cap (Callers \cup Jobs \cup {None}) = {}
  /\ Callers \cap Jobs = {} /\ None \notin Callers \cup Jobs
  /\ IsFiniteSet(Callers) /\ IsFiniteSet(Jobs)

VARIABLES closing,        \* closing_
          stopping,       \* stopping_
          driver,         \* the holder of encode_mutex_
          generation,     \* generation_
          remaining,      \* remaining_workers_
          in_flight,      \* in_flight_
          next_index,     \* next_index_, from 1
          terminal,       \* terminal_index_, 0 for the maximum
          status,         \* the candidate results of the active batch
          call,           \* where each caller is
          worker,         \* where each worker is
          job,            \* where each outside job is
          cpu,            \* who has a participant slot
          memory          \* who has the domain's memory envelope

shared == <<generation, remaining, in_flight, next_index, terminal, status>>
vars == <<closing, stopping, driver, shared, call, worker, job, cpu, memory>>

Outside == [at |-> "outside", asked |-> <<>>, answer |-> "none", results |-> <<>>,
            inside |-> FALSE, closed |-> FALSE]

-------------------------------------------------------------------------------
(* Slots *)

Free == Cardinality(cpu) < Slots

Take(t) == Free /\ cpu' = cpu \cup {t}
Drop(t) == cpu' = cpu \ {t}

GoesTo(c, place) == call' = [call EXCEPT ![c].at = place]

(* Leaving Encode unwinds its locals: the slot, the envelope and, last, the *)
(* lock.                                                                   *)
Returns(c, answer, results) ==
  /\ call' = [call EXCEPT ![c].at = "returned", ![c].answer = answer,
                          ![c].results = results]
  /\ Drop(c)
  /\ memory' = IF memory = c THEN None ELSE memory
  /\ driver' = IF driver = c THEN None ELSE driver

-------------------------------------------------------------------------------
(* Encode, up to the dispatch of the batch *)

(* The public entry: its thread takes part in no CPU domain yet. *)
Encode(c, batch) ==
  /\ call[c].at = "outside" /\ ~call[c].inside
  /\ call' = [call EXCEPT ![c].at = "arriving", ![c].asked = batch]
  /\ UNCHANGED <<closing, stopping, driver, shared, worker, job, cpu, memory>>

CheckClosing(c) ==
  /\ call[c].at = "arriving"
  /\ IF closing
       THEN Returns(c, "unavailable", <<>>)
       ELSE GoesTo(c, "queued") /\ UNCHANGED <<driver, cpu, memory>>
  /\ UNCHANGED <<closing, stopping, shared, worker, job>>

LockDriver(c) ==
  /\ call[c].at = "queued" /\ driver = None
  /\ driver' = c
  /\ GoesTo(c, "locked")
  /\ UNCHANGED <<closing, stopping, shared, worker, job, cpu, memory>>

(* CheckOpen, relying on the check that was made before the lock *)
SkipCheckOpen(c) ==
  /\ call[c].at = "locked"
  /\ GoesTo(c, "plan")
  /\ UNCHANGED <<closing, stopping, driver, shared, worker, job, cpu, memory>>

(* The call becomes active here, or finds the driver closed while it queued. *)
CheckOpen(c) ==
  /\ call[c].at = "locked"
  /\ IF closing
       THEN Returns(c, "unavailable", <<>>)
       ELSE GoesTo(c, "plan") /\ UNCHANGED <<driver, cpu, memory>>
  /\ UNCHANGED <<closing, stopping, shared, worker, job>>

(* PlanBatch takes part in the CPU domain ... *)
BeginPlan(c) ==
  /\ call[c].at = "plan"
  /\ Take(c)
  /\ GoesTo(c, "planning")
  /\ UNCHANGED <<closing, stopping, driver, shared, worker, job, memory>>

(* EndPlan, going to memory admission with the slot in hand *)
EndPlanKeepingSlot(c) ==
  /\ call[c].at = "planning"
  /\ GoesTo(c, "admit")
  /\ UNCHANGED <<closing, stopping, driver, shared, worker, job, cpu, memory>>

(* ... and gives its slot back before the batch waits for memory. *)
EndPlan(c) ==
  /\ call[c].at = "planning"
  /\ Drop(c)
  /\ GoesTo(c, "admit")
  /\ UNCHANGED <<closing, stopping, driver, shared, worker, job, memory>>

(* WorkflowAdmission::Start; an empty batch has no backing. *)
Admit(c) ==
  /\ call[c].at = "admit"
  /\ IF call[c].asked = <<>> THEN UNCHANGED memory
                             ELSE memory = None /\ memory' = c
  /\ GoesTo(c, "start")
  /\ UNCHANGED <<closing, stopping, driver, shared, worker, job, cpu>>

StartCpu(c) ==
  /\ call[c].at = "start"
  /\ Take(c)
  /\ GoesTo(c, "prepare")
  /\ UNCHANGED <<closing, stopping, driver, shared, worker, job, memory>>

(* Planning, admission, the CPU scope or an allocation failed. *)
Abandon(c) ==
  /\ call[c].at \in {"planning", "admit", "start", "prepare"}
  /\ Returns(c, "error", <<>>)
  /\ UNCHANGED <<closing, stopping, shared, worker, job>>

PublishEmpty(c) ==
  /\ call[c].at = "prepare" /\ call[c].asked = <<>>
  /\ Returns(c, "published", <<>>)
  /\ UNCHANGED <<closing, stopping, shared, worker, job>>

Planned(batch) ==
  [i \in 1 .. Len(batch) |-> IF batch[i] = "good" THEN "pending" ELSE "invalid"]

(* How many work slots a plan may give the batch: at least one if there is  *)
(* anything to encode (BatchWorkflowStorageAccumulator::Finish).           *)
WorkSlots(batch) ==
  LET encodable == Cardinality({i \in 1 .. Len(batch) : batch[i] = "good"}) IN
  IF encodable = 0 THEN {0}
                   ELSE {n \in 1 .. MaxInFlight : n <= encodable}

(* Dispatch, counting only the workers that the plan has work slots for *)
DispatchToInFlight(c) ==
  /\ call[c].at = "prepare" /\ call[c].asked # <<>>
  /\ status' = Planned(call[c].asked)
  /\ in_flight' \in WorkSlots(call[c].asked)
  /\ terminal' = 0
  /\ next_index' = 1
  /\ remaining' = in_flight'
  /\ generation' = (generation + 1) % Wrap
  /\ GoesTo(c, "notify")
  /\ UNCHANGED <<closing, stopping, driver, worker, job, cpu, memory>>

(* The batch is handed to every worker in one critical section ... *)
Dispatch(c) ==
  /\ call[c].at = "prepare" /\ call[c].asked # <<>>
  /\ status' = Planned(call[c].asked)
  /\ in_flight' \in WorkSlots(call[c].asked)
  /\ terminal' = 0
  /\ next_index' = 1
  /\ remaining' = MaxInFlight
  /\ generation' = (generation + 1) % Wrap
  /\ GoesTo(c, "notify")
  /\ UNCHANGED <<closing, stopping, driver, worker, job, cpu, memory>>

(* work_available_.notify_all() *)
NotifyWorkers ==
  worker' = [w \in Workers |-> IF worker[w].at = "asleep"
                                 THEN [worker[w] EXCEPT !.at = "awake"]
                                 ELSE worker[w]]

(* Notify, waiting for the images with the slot in hand *)
NotifyKeepingSlot(c) ==
  /\ call[c].at = "notify"
  /\ NotifyWorkers
  /\ GoesTo(c, "wait")
  /\ UNCHANGED <<closing, stopping, driver, shared, job, cpu, memory>>

(* ... which are notified without the lock; then the caller yields its slot. *)
Notify(c) ==
  /\ call[c].at = "notify"
  /\ NotifyWorkers
  /\ Drop(c)
  /\ GoesTo(c, "wait")
  /\ UNCHANGED <<closing, stopping, driver, shared, job, memory>>

(* Wait, leaving as soon as every index has been handed out *)
WaitForIndices(c) ==
  /\ call[c].at = "wait"
  /\ GoesTo(c, IF next_index > Len(status) THEN "resume" ELSE "asleep")
  /\ UNCHANGED <<closing, stopping, driver, shared, worker, job, cpu, memory>>

Wait(c) ==
  /\ call[c].at = "wait"
  /\ GoesTo(c, IF remaining = 0 THEN "resume" ELSE "asleep")
  /\ UNCHANGED <<closing, stopping, driver, shared, worker, job, cpu, memory>>

(* The slot comes back only after work_mutex_ was released. *)
Resume(c) ==
  /\ call[c].at = "resume"
  /\ Take(c)
  /\ GoesTo(c, "collect")
  /\ UNCHANGED <<closing, stopping, driver, shared, worker, job, memory>>

(* The whole array is published, or the status of the first image that      *)
(* broke the plan is returned.                                             *)
Publish(c) ==
  /\ call[c].at = "collect"
  /\ IF terminal = 0 THEN Returns(c, "published", status)
                     ELSE Returns(c, "error", <<>>)
  /\ UNCHANGED <<closing, stopping, shared, worker, job>>

(* The caller has its answer. *)
Leave(c) ==
  /\ call[c].at = "returned"
  /\ call' = [call EXCEPT ![c] = [Outside EXCEPT !.inside = call[c].inside,
                                                 !.closed = call[c].closed]]
  /\ UNCHANGED <<closing, stopping, driver, shared, worker, job, cpu, memory>>

-------------------------------------------------------------------------------
(* Shutdown *)

(* A caller may be in a CPU execution scope of its own. *)
EnterScope(c) ==
  /\ call[c].at = "outside" /\ ~call[c].inside
  /\ Take(c)
  /\ call' = [call EXCEPT ![c].inside = TRUE]
  /\ UNCHANGED <<closing, stopping, driver, shared, worker, job, memory>>

LeaveScope(c) ==
  /\ call[c].at = "outside" /\ call[c].inside
  /\ Drop(c)
  /\ call' = [call EXCEPT ![c].inside = FALSE]
  /\ UNCHANGED <<closing, stopping, driver, shared, worker, job, memory>>

(* Shutdown, draining with the slot in hand *)
ShutdownKeepingSlot(c) ==
  /\ call[c].at = "outside" /\ ~call[c].closed
  /\ closing' = TRUE
  /\ call' = [call EXCEPT ![c].at = "closing", ![c].closed = TRUE]
  /\ UNCHANGED <<stopping, driver, shared, worker, job, cpu, memory>>

(* Shutdown yields the slot through the complete drain.  It is idempotent;  *)
(* in the model a caller calls it once.                                    *)
Shutdown(c) ==
  /\ call[c].at = "outside" /\ ~call[c].closed
  /\ closing' = TRUE
  /\ Drop(c)
  /\ call' = [call EXCEPT ![c].at = "closing", ![c].closed = TRUE]
  /\ UNCHANGED <<stopping, driver, shared, worker, job, memory>>

(* LockForShutdown, without waiting for the active call *)
BargeIn(c) ==
  /\ call[c].at = "closing"
  /\ driver' = c
  /\ GoesTo(c, "stop")
  /\ UNCHANGED <<closing, stopping, shared, worker, job, cpu, memory>>

LockForShutdown(c) ==
  /\ call[c].at = "closing" /\ driver = None
  /\ driver' = c
  /\ GoesTo(c, "stop")
  /\ UNCHANGED <<closing, stopping, shared, worker, job, cpu, memory>>

Stop(c) ==
  /\ call[c].at = "stop"
  /\ stopping' = TRUE
  /\ GoesTo(c, "stop_notify")
  /\ UNCHANGED <<closing, driver, shared, worker, job, cpu, memory>>

NotifyStop(c) ==
  /\ call[c].at = "stop_notify"
  /\ NotifyWorkers
  /\ GoesTo(c, "join")
  /\ UNCHANGED <<closing, stopping, driver, shared, job, cpu, memory>>

(* All workers are joined; the lock is released, and only then does the     *)
(* caller's own slot come back.                                            *)
Join(c) ==
  /\ call[c].at = "join"
  /\ \A w \in Workers : worker[w].at = "gone"
  /\ driver' = None
  /\ call' = [call EXCEPT ![c].at = IF call[c].inside THEN "rejoin" ELSE "returned",
                          ![c].answer = IF call[c].inside THEN "none" ELSE "closed"]
  /\ UNCHANGED <<closing, stopping, shared, worker, job, cpu, memory>>

Rejoin(c) ==
  /\ call[c].at = "rejoin"
  /\ Take(c)
  /\ call' = [call EXCEPT ![c].at = "returned", ![c].answer = "closed"]
  /\ UNCHANGED <<closing, stopping, driver, shared, worker, job, memory>>

-------------------------------------------------------------------------------
(* WorkerLoop *)

WorkerGoesTo(w, place) == worker' = [worker EXCEPT ![w].at = place]

WaitForWork(w) ==
  /\ worker[w].at = "awake"
  /\ IF stopping THEN WorkerGoesTo(w, "gone")
     ELSE IF worker[w].seen # generation
       THEN worker' = [worker EXCEPT ![w].at = "check", ![w].seen = generation]
       ELSE WorkerGoesTo(w, "asleep")
  /\ UNCHANGED <<closing, stopping, driver, shared, call, job, cpu, memory>>

Check(w) ==
  /\ worker[w].at = "check"
  /\ WorkerGoesTo(w, IF w < in_flight /\ terminal = 0 THEN "fetch" ELSE "leave")
  /\ UNCHANGED <<closing, stopping, driver, shared, call, job, cpu, memory>>

(* Fetch, as a load that another worker may repeat before the store *)
FetchUnstored(w) ==
  /\ worker[w].at = "fetch"
  /\ worker' = [worker EXCEPT
       ![w].at = IF next_index > Len(status) THEN "leave"
                 ELSE IF status[next_index] = "pending" THEN "start" ELSE "check",
       ![w].index = IF next_index > Len(status) THEN 0 ELSE next_index]
  /\ next_index' \in {next_index, next_index + 1}
  /\ UNCHANGED <<closing, stopping, driver, generation, remaining, in_flight,
                 terminal, status, call, job, cpu, memory>>

(* next_index_.fetch_add(1); the worker skips what planning has refused. *)
Fetch(w) ==
  /\ worker[w].at = "fetch"
  /\ next_index' = next_index + 1
  /\ worker' = [worker EXCEPT
       ![w].at = IF next_index > Len(status) THEN "leave"
                 ELSE IF status[next_index] = "pending" THEN "start" ELSE "check",
       ![w].index = IF next_index > Len(status) THEN 0 ELSE next_index]
  /\ UNCHANGED <<closing, stopping, driver, generation, remaining, in_flight,
                 terminal, status, call, job, cpu, memory>>

(* The image's own CPU scope; its memory is part of the batch's envelope. *)
StartImage(w) ==
  /\ worker[w].at = "start"
  /\ Take(w)
  /\ WorkerGoesTo(w, "encode")
  /\ UNCHANGED <<closing, stopping, driver, shared, call, job, memory>>

(* A wait for the GPU or for worker threads yields the slot, once in the model. *)
Yield(w) ==
  /\ worker[w].at = "encode"
  /\ Drop(w)
  /\ WorkerGoesTo(w, "blocked")
  /\ UNCHANGED <<closing, stopping, driver, shared, call, job, memory>>

Regain(w) ==
  /\ worker[w].at = "blocked"
  /\ Take(w)
  /\ WorkerGoesTo(w, "again")
  /\ UNCHANGED <<closing, stopping, driver, shared, call, job, memory>>

(* An image's result; it is terminal if the plan was exceeded or the trim   *)
(* after the image failed.  The first terminal image is remembered.        *)
ImageEnds(w, result) ==
  /\ status' = [status EXCEPT ![worker[w].index] = result]
  /\ terminal' = IF result = "terminal" /\ terminal = 0 THEN worker[w].index
                                                        ELSE terminal
  /\ Drop(w)
  /\ worker' = [worker EXCEPT ![w].at = "check", ![w].index = 0]
  /\ UNCHANGED <<closing, stopping, driver, generation, remaining, in_flight,
                 next_index, call, job, memory>>

FinishImage(w, result) ==
  /\ worker[w].at \in {"encode", "again"}
  /\ ImageEnds(w, result)

(* The image fails without a slot: it is refused, or the scope cannot start. *)
StartFails(w, result) ==
  /\ worker[w].at = "start"
  /\ ImageEnds(w, result)

(* The last worker to leave notifies the caller, with the lock held. *)
LeaveBatch(w) ==
  /\ worker[w].at = "leave"
  /\ remaining' = remaining - 1
  /\ WorkerGoesTo(w, "awake")
  /\ call' = [c \in Callers |-> IF remaining' = 0 /\ call[c].at = "asleep"
                                  THEN [call[c] EXCEPT !.at = "wait"]
                                  ELSE call[c]]
  /\ UNCHANGED <<closing, stopping, driver, generation, in_flight, next_index,
                 terminal, status, job, cpu, memory>>

(* Condition variables may return without having been notified. *)
SpuriousWake ==
  /\ \/ /\ \E c \in Callers : call[c].at = "asleep" /\ GoesTo(c, "wait")
        /\ UNCHANGED worker
     \/ /\ \E w \in Workers : worker[w].at = "asleep" /\ WorkerGoesTo(w, "awake")
        /\ UNCHANGED call
  /\ UNCHANGED <<closing, stopping, driver, shared, job, cpu, memory>>

-------------------------------------------------------------------------------
(* A single-image encode elsewhere in the domain (codestream/workflow.cpp): *)
(* memory first, then a slot.                                              *)

JobAdmit(j) ==
  /\ job[j] = "outside" /\ memory = None
  /\ memory' = j
  /\ job' = [job EXCEPT ![j] = "start"]
  /\ UNCHANGED <<closing, stopping, driver, shared, call, worker, cpu>>

JobStart(j) ==
  /\ job[j] = "start"
  /\ Take(j)
  /\ job' = [job EXCEPT ![j] = "encode"]
  /\ UNCHANGED <<closing, stopping, driver, shared, call, worker, memory>>

(* It yields the slot to a wait of its own, once in the model, and keeps    *)
(* its memory.                                                             *)
JobYield(j) ==
  /\ job[j] = "encode"
  /\ Drop(j)
  /\ job' = [job EXCEPT ![j] = "blocked"]
  /\ UNCHANGED <<closing, stopping, driver, shared, call, worker, memory>>

JobRegain(j) ==
  /\ job[j] = "blocked"
  /\ Take(j)
  /\ job' = [job EXCEPT ![j] = "again"]
  /\ UNCHANGED <<closing, stopping, driver, shared, call, worker, memory>>

JobDone(j) ==
  /\ job[j] \in {"encode", "again"}
  /\ Drop(j)
  /\ memory' = None
  /\ job' = [job EXCEPT ![j] = "outside"]
  /\ UNCHANGED <<closing, stopping, driver, shared, call, worker>>

-------------------------------------------------------------------------------
Init ==
  /\ closing = FALSE /\ stopping = FALSE
  /\ driver = None
  /\ generation = 0 /\ remaining = 0 /\ in_flight = 0
  /\ next_index = 0 /\ terminal = 0 /\ status = <<>>
  /\ call = [c \in Callers |-> Outside]
  /\ worker = [w \in Workers |-> [at |-> "awake", seen |-> 0, index |-> 0]]
  /\ job = [j \in Jobs |-> "outside"]
  /\ cpu = {} /\ memory = None

(* A caller waits for a slot or for memory, and may fail to get it. *)
Obtain(c) == BeginPlan(c) \/ Admit(c) \/ StartCpu(c) \/ Resume(c) \/ Rejoin(c)

(* What a caller inside the driver does while it runs; entering is up to it. *)
Advance(c) == \/ CheckClosing(c) \/ CheckOpen(c) \/ EndPlan(c) \/ PublishEmpty(c)
              \/ Dispatch(c) \/ Notify(c) \/ Wait(c) \/ Publish(c) \/ Leave(c)
              \/ LeaveScope(c) \/ Stop(c) \/ NotifyStop(c) \/ Join(c)

Lock(c) == LockDriver(c) \/ LockForShutdown(c)

(* A worker waits for its slot ... *)
ObtainSlot(w) == StartImage(w) \/ Regain(w)

(* ... and runs.  That its image fails for want of one is a step apart.    *)
Work(w) == \/ WaitForWork(w) \/ Check(w) \/ Fetch(w) \/ Yield(w) \/ LeaveBatch(w)
           \/ \E r \in {"ok", "failed", "terminal"} : FinishImage(w, r)

(* A job that has its memory *)
JobObtains(j) == JobStart(j) \/ JobRegain(j)
JobRuns(j) == JobYield(j) \/ JobDone(j)

Next == \/ \E c \in Callers : \/ \E b \in Batches : Encode(c, b)
                              \/ Obtain(c) \/ Advance(c) \/ Lock(c) \/ Abandon(c)
                              \/ EnterScope(c) \/ Shutdown(c)
        \/ \E w \in Workers : \/ ObtainSlot(w) \/ Work(w)
                              \/ \E r \in {"failed", "terminal"} : StartFails(w, r)
        \/ SpuriousWake
        \/ \E j \in Jobs : JobAdmit(j) \/ JobObtains(j) \/ JobRuns(j)

Spec == Init /\ [][Next]_vars

(* Every thread that can run does, and a caller leaves its own scope.  Who  *)
(* waits for a slot or for memory gets it if it comes free again and again, *)
(* since both budgets serve in FIFO order; nobody is made to fail instead. *)
(* A mutex is only known to be granted when it stays free.                 *)
Fairness ==
  /\ \A c \in Callers : SF_vars(Obtain(c)) /\ WF_vars(Advance(c)) /\ WF_vars(Lock(c))
  /\ \A w \in Workers : SF_vars(ObtainSlot(w)) /\ WF_vars(Work(w))
  /\ \A j \in Jobs : SF_vars(JobObtains(j)) /\ WF_vars(JobRuns(j))

FairSpec == Spec /\ Fairness

-------------------------------------------------------------------------------
(* Properties *)

CallAt == {"outside", "arriving", "queued", "locked", "plan", "planning", "admit",
           "start", "prepare", "notify", "wait", "asleep", "resume", "collect",
           "returned", "closing", "stop", "stop_notify", "join", "rejoin"}

InBatch == {"check", "fetch", "start", "encode", "blocked", "again", "leave"}

Results == {"pending", "invalid", "ok", "failed", "terminal"}

(* Every variable has its type; the unsigned remaining_workers_ is never    *)
(* decremented below zero.                                                 *)
TypeOK ==
  /\ closing \in BOOLEAN /\ stopping \in BOOLEAN
  /\ driver \in Callers \cup {None}
  /\ generation \in 0 .. Wrap - 1 /\ remaining \in 0 .. MaxInFlight
  /\ in_flight \in 0 .. MaxInFlight /\ next_index \in Nat /\ terminal \in Nat
  /\ status \in Seq(Results)
  /\ call \in [Callers -> [at : CallAt, asked : Batches \cup {<<>>},
                           answer : {"none", "unavailable", "error", "published", "closed"},
                           results : Seq(Results), inside : BOOLEAN, closed : BOOLEAN]]
  /\ worker \in [Workers -> [at : InBatch \cup {"awake", "asleep", "gone"},
                             seen : 0 .. Wrap - 1, index : Nat]]
  /\ job \in [Jobs -> {"outside", "start", "encode", "blocked", "again"}]
  /\ cpu \subseteq Callers \cup Workers \cup Jobs /\ Cardinality(cpu) <= Slots
  /\ memory \in Callers \cup Jobs \cup {None}

Encoding(w) == worker[w].at \in {"start", "encode", "blocked", "again"}

(* An image is encoded by one worker only, and only while it has no result. *)
EachImageOnce ==
  /\ \A w \in Workers : Encoding(w) => status[worker[w].index] = "pending"
  /\ \A v, w \in Workers : Encoding(v) /\ Encoding(w) /\ v # w =>
                             worker[v].index # worker[w].index

(* The workers' job borrows the caller's arrays: whoever works on it works  *)
(* on the present generation, the caller is still waiting, and the         *)
(* remaining workers are those that have yet to leave it.                  *)
JobOutlivesWorkers ==
  /\ \A w \in Workers : worker[w].at \in InBatch =>
       /\ worker[w].seen = generation
       /\ driver # None /\ call[driver].at \in {"notify", "wait", "asleep"}
  /\ remaining = Cardinality({w \in Workers :
                    worker[w].at \in InBatch \/ worker[w].seen # generation})

(* Workers are told to stop only when no batch is left that they would      *)
(* abandon.                                                                *)
StopsOnlyWhenDrained ==
  stopping => /\ remaining = 0
              /\ \A c \in Callers : call[c].at \notin
                   {"plan", "planning", "admit", "start", "prepare", "notify",
                    "wait", "asleep", "resume", "collect"}

(* Nobody who waits for the driver, for memory, for the images or for the   *)
(* workers' end keeps a slot that the one waited for may need.             *)
NobodyBlocksWithSlot ==
  /\ \A c \in Callers : call[c].at \in {"queued", "closing", "admit", "wait", "asleep",
                                        "stop", "stop_notify", "join"} => c \notin cpu
  /\ \A w \in Workers : worker[w].at \in {"awake", "asleep", "blocked", "gone"} =>
                          w \notin cpu

(* The call has passed the check that linearizes it against Shutdown, and   *)
(* has not returned.                                                        *)
Active(c) == call[c].at \in {"plan", "planning", "admit", "start", "prepare", "notify",
                             "wait", "asleep", "resume", "collect"}

Abstract ==
  INSTANCE BatchDriver
    WITH open    <- ~closing,
         active  <- IF driver # None /\ Active(driver) THEN driver ELSE None,
         asked   <- [c \in Callers |-> call[c].asked],
         outcome <- [c \in Callers |->
                       [is |-> CASE call[c].answer # "none" -> call[c].answer
                                 [] call[c].at = "outside" -> "none"
                                 [] call[c].at \in {"closing", "stop", "stop_notify",
                                                   "join", "rejoin"} -> "closing"
                                 [] OTHER -> "pending",
                        results |-> call[c].results]]

(* The driver carries out its calls one at a time; it publishes a result    *)
(* for every image or leaves the caller's array alone, starts no call once *)
(* it is closed, and Shutdown returns only after the last call.            *)
ImplementsBatchDriver == Abstract!Spec

(* A call that was activated before the driver was closed runs to its end,  *)
(* on however few slots and whoever else wants them, if whoever waits for  *)
(* a slot gets one in the end.                                             *)
ActiveCallReturns == \A c \in Callers : Active(c) ~> call[c].at = "returned"

(* Shutdown returns, also to a caller that came with the domain's only slot *)
(* and has to be given it back.                                            *)
ShutdownReturns ==
  \A c \in Callers : call[c].at = "closing" ~>
                       call[c].at = "returned" /\ call[c].answer = "closed"
===============================================================================
