----------------------------- MODULE ParallelWork -----------------------------
(***************************************************************************)
(* Fork and join inside an encode (src/core/parallel_work_internal.h,        *)
(* cpu_execution.h, codestream/entropy_readiness_internal.h).  An image      *)
(* takes a slot of the CPU domain, then tokenizes its DC groups: under the   *)
(* early schedule as one of two branches, with the workers of the DC stage   *)
(* reserved beforehand, otherwise in a stage of its own.  Each stage is a    *)
(* call of RunParallelWork; a worker of one call may run another.           *)
(***************************************************************************)
EXTENDS Queues, FiniteSets, Functions

CONSTANTS Image,
          Limit,              \* participants of the domain
          JobLimit,           \* participants of each image
          Participants,       \* DesiredDcTokenizationParticipants
          Ceiling,            \* DesiredSectionParticipants
          Count               \* DC groups, the tasks of the DC stage

ASSUME LimitsAssumption ==
  IsFiniteSet(Image) /\ Limit \in Nat \ {0} /\ JobLimit \in [Image -> 1 .. Limit]
    /\ {Participants, Ceiling, Count} \subseteq Nat \ {0} /\ Participants <= Ceiling

VARIABLES queue,              \* images waiting for a slot of the domain
          image,              \* where the image is
          permit,             \* the image's caller holds a slot of the domain
          group,              \* CpuWorkerGroup of each call: slots, and how many were taken
          call,               \* RunParallelWork
          thread,             \* the threads of an image
          terminated          \* std::terminate was called

vars == <<queue, image, permit, group, call, thread, terminated>>

Stages == {"branches", "dc"}
BranchTasks == {1, 2}         \* DC and AC
Tasks(k) == IF k = "branches" THEN BranchTasks ELSE 1 .. Count

(* The image's caller, the workers of the DC stage and that of the branches. *)
Caller == 0
Branch == Ceiling
Threads == Caller .. Branch
Nobody == -1
Workers(k) == IF k = "branches" THEN {Branch} ELSE 1 .. Ceiling - 1
StageOf(t) == IF t = Branch THEN "branches" ELSE "dc"

NoGroup == [domain |-> 0, job |-> 0, taken |-> 0]
NoCall == [at |-> "none"]
NoThread == [at |-> "none", slot |-> "none"]

Slotted(i) == {t \in Threads : thread[i][t].slot # "none"}
Unclaimed(i, kind) == (group[i]["branches"][kind] - group[i]["branches"].taken)
                        + (group[i]["dc"][kind] - group[i]["dc"].taken)

(* CpuBudget's Protected: what an image holds of the domain, the domain's    *)
(* sum of these, and that of the image's own budget                        *)
Holds(i) == (IF permit[i] THEN 1 ELSE 0) + Unclaimed(i, "domain") + Cardinality(Slotted(i))
Protected == SumFunction([i \in Image |-> Holds(i)])
JobProtected(i) == 1 + Unclaimed(i, "job") + Cardinality(Slotted(i))

Smaller(m, n) == IF m < n THEN m ELSE n

-------------------------------------------------------------------------------
(* CpuExecutionScope::Start, and the caller's return from a suspension *)
Queue(i) == queue' = Append(queue, i)

Start(i) ==
  /\ image[i] = "start"
  /\ image' = [image EXCEPT ![i] = "queued"]
  /\ Queue(i)
  /\ UNCHANGED <<permit, group, call, thread, terminated>>

Acquire(i) ==
  /\ queue # <<>> /\ Head(queue) = i /\ Protected < Limit
  /\ queue' = Tail(queue)
  /\ permit' = [permit EXCEPT ![i] = TRUE]
  /\ image' = [image EXCEPT ![i] = IF @ = "queued" THEN "reserve" ELSE @]
  /\ UNCHANGED <<group, call, thread, terminated>>

(* CpuWorkerGroup's grant: the image's budget first, then what the domain    *)
(* has free, never past a waiter; the image keeps no more than the domain.  *)
Grant(i, participants) ==
  LET job == Smaller(participants - 1, JobLimit[i] - JobProtected(i))
  IN IF queue # <<>> THEN 0 ELSE Smaller(job, Limit - Protected)

Slots(n) == [domain |-> n, job |-> n, taken |-> 0]

(* With no worker granted the stage is a serial loop. *)
Begin(k, by, workers) ==
  [at |-> IF workers = 0 THEN "serial" ELSE "launch", by |-> by, launched |-> 0, next |-> 1,
   runner |-> [n \in Tasks(k) |-> Nobody], status |-> [n \in Tasks(k) |-> "none"],
   result |-> "none"]

(* Both groups of the branches receive the domain's slots, one the image's *)
SplitDomainOnly(i, n) ==
  [group EXCEPT ![i] = [k \in Stages |-> IF k = "branches" THEN [Slots(1) EXCEPT !.job = n]
                                          ELSE [Slots(n - 1) EXCEPT !.job = 0]]]

(* SplitWorkers *)
SplitWorkers(i, n) ==
  [group EXCEPT ![i] = [k \in Stages |-> Slots(IF k = "branches" THEN 1 ELSE n - 1)]]

(* EntropyReadinessAdmission: the whole DC target and a second branch, or    *)
(* nothing; the caller then runs both branches.                             *)
AdmitEarly(i) ==
  /\ image[i] = "reserve"
  /\ LET n == Grant(i, Participants + 1)
     IN IF Participants < Ceiling /\ n = Participants
          THEN /\ group' = SplitWorkers(i, n)
               /\ call' = [call EXCEPT ![i]["branches"] = Begin("branches", Caller, 1)]
               /\ image' = [image EXCEPT ![i] = "early"]
          ELSE image' = [image EXCEPT ![i] = "plain"] /\ UNCHANGED <<group, call>>
  /\ UNCHANGED <<queue, permit, thread, terminated>>

(* A stage on its own, as the DC stage is then and every other one. *)
StartStage(i) ==
  /\ image[i] = "plain"
  /\ LET n == Grant(i, Smaller(Ceiling, Count))
     IN /\ group' = [group EXCEPT ![i]["dc"] = Slots(n)]
        /\ call' = [call EXCEPT ![i]["dc"] = Begin("dc", Caller, n)]
  /\ image' = [image EXCEPT ![i] = "stage"]
  /\ UNCHANGED <<queue, permit, thread, terminated>>

-------------------------------------------------------------------------------
(* RunParallelWork *)
Spawned(i, k) == group[i][k].domain
Participates(i, t) == IF t = Caller THEN permit[i] ELSE thread[i][t].slot = "active"
Worker(k, n) == IF k = "branches" THEN Branch ELSE n

Launch(i, k) ==
  /\ call[i][k].at = "launch" /\ call[i][k].launched < Spawned(i, k)
  /\ call' = [call EXCEPT ![i][k].launched = @ + 1]
  /\ thread' = [thread EXCEPT ![i][Worker(k, call[i][k].launched + 1)].at = "starting"]
  /\ UNCHANGED <<queue, image, permit, group, terminated>>

(* The caller takes part once every worker was launched. *)
Participate(i, k) ==
  /\ call[i][k].at = "launch" /\ call[i][k].launched = Spawned(i, k)
  /\ call' = [call EXCEPT ![i][k].at = "loop"]
  /\ UNCHANGED <<queue, image, permit, group, thread, terminated>>

(* JoinCpuWorkers: the whole join is a suspension, which a worker spends on  *)
(* its slot and the image's caller without one.                             *)
JoinCpuWorkers(i, k, after) ==
  /\ call' = [call EXCEPT ![i][k] = [@ EXCEPT !.at = after, !.next = Cardinality(Tasks(k)) + 1]]
  /\ IF call[i][k].launched = 0
       THEN UNCHANGED <<permit, thread>>
       ELSE IF call[i][k].by = Caller
         THEN permit' = [permit EXCEPT ![i] = FALSE] /\ UNCHANGED thread
         ELSE thread' = [thread EXCEPT ![i][call[i][k].by].slot = "suspended"] /\ UNCHANGED permit

(* The launch loop is left without joining what runs already *)
ReturnFromLaunch(i, k) ==
  /\ call[i][k].at = "launch" /\ call[i][k].launched < Spawned(i, k)
  /\ call' = [call EXCEPT ![i][k].at = "done", ![i][k].result = "launch_failed"]
  /\ UNCHANGED <<queue, image, permit, group, thread, terminated>>

(* A worker that cannot be launched: no task is handed out any more. *)
LaunchFails(i, k) ==
  /\ call[i][k].at = "launch" /\ call[i][k].launched < Spawned(i, k)
  /\ \E after \in {"stop", "stop_retry"} :
       /\ after = "stop_retry" => image[i] = "stage"
       /\ JoinCpuWorkers(i, k, after)
  /\ UNCHANGED <<queue, image, group, terminated>>

(* run_worker: CpuWorkerScope takes a slot of both budgets.  *)
Take(i, t) ==
  LET k == StageOf(t) IN
  /\ thread[i][t].at = "starting"
  /\ IF group[i][k].taken < Smaller(group[i][k].domain, group[i][k].job)
       THEN /\ group' = [group EXCEPT ![i][k].taken = @ + 1]
            /\ thread' = [thread EXCEPT ![i][t] = [at |-> "loop", slot |-> "active"]]
            /\ UNCHANGED terminated
       ELSE terminated' = TRUE /\ UNCHANGED <<group, thread>>
  /\ UNCHANGED <<queue, image, permit, call>>

(* The thread is in the loop of call k. *)
InLoop(i, k, t) ==
  /\ Participates(i, t)
  /\ IF t \in Workers(k) THEN thread[i][t].at = "loop"
     ELSE call[i][k].at = "loop" /\ call[i][k].by = t

Running(i, k, t) == {n \in Tasks(k) : call[i][k].runner[n] = t}

(* next_index.fetch_add; the DC branch enters the DC stage. *)
FetchTask(i, k, t) ==
  /\ InLoop(i, k, t) /\ Running(i, k, t) = {}
  /\ call[i][k].next \in Tasks(k)
  /\ LET n       == call[i][k].next
         fetched == [call EXCEPT ![i][k] = [@ EXCEPT !.next = n + 1, !.runner[n] = t]]
     IN call' = IF k = "branches" /\ n = 1
                  THEN [fetched EXCEPT ![i]["dc"] = Begin("dc", t, Spawned(i, "dc"))]
                  ELSE fetched
  /\ UNCHANGED <<queue, image, permit, group, thread, terminated>>

Statuses == {"ok", "error"}

(* A task returns a status, or throws one; the nested call's is the branch's. *)
FinishTask(i, k, t) ==
  /\ InLoop(i, k, t)
  /\ \E n \in Running(i, k, t), status \in Statuses :
       /\ k = "branches" /\ n = 1 => /\ call[i]["dc"].at = "done"
                                     /\ status = "ok" => call[i]["dc"].result = "ok"
       /\ LET finished == [call EXCEPT ![i][k] =
                             [@ EXCEPT !.status[n] = status, !.runner[n] = Nobody]]
          IN call' = IF k = "branches" /\ n = 1
                       THEN [finished EXCEPT ![i]["dc"] = NoCall] ELSE finished
  /\ UNCHANGED <<queue, image, permit, group, thread, terminated>>

Drained(i, k, t) ==
  InLoop(i, k, t) /\ Running(i, k, t) = {} /\ call[i][k].next \notin Tasks(k)

(* The worker's scope ends, its slots go back to the budgets. *)
Exit(i, k, t) ==
  /\ t \in Workers(k) /\ Drained(i, k, t)
  /\ thread' = [thread EXCEPT ![i][t] = NoThread]
  /\ UNCHANGED <<queue, image, permit, group, call, terminated>>

JoinAfterLoop(i, k) ==
  /\ call[i][k].at = "loop" /\ Drained(i, k, call[i][k].by)
  /\ JoinCpuWorkers(i, k, "join")
  /\ UNCHANGED <<queue, image, group, terminated>>

Alive(i, k) == {t \in Workers(k) : thread[i][t].at # "none"}

(* A worker's suspension ends without ResumeWorker *)
ResumeCallers(i, k) ==
  /\ call[i][k].at \in {"join", "stop", "stop_retry"} /\ call[i][k].by = Caller
  /\ ~permit[i] /\ Alive(i, k) = {} /\ i \notin Members(queue)
  /\ Queue(i)
  /\ UNCHANGED <<image, permit, group, call, thread, terminated>>

(* Every worker was joined: a worker resumes on its slot, the caller queues. *)
Resume(i, k) ==
  /\ call[i][k].at \in {"join", "stop", "stop_retry"}
  /\ ~Participates(i, call[i][k].by) /\ Alive(i, k) = {}
  /\ IF call[i][k].by = Caller
       THEN i \notin Members(queue) /\ Queue(i) /\ UNCHANGED thread
       ELSE thread' = [thread EXCEPT ![i][call[i][k].by].slot = "active"] /\ UNCHANGED queue
  /\ UNCHANGED <<image, permit, group, call, terminated>>

(* The first error among the statuses, or the launch's; after a launch that  *)
(* failed every task is retried by the caller where the stage asks for it.   *)
Conclude(i, k) ==
  /\ call[i][k].at \in {"join", "stop", "stop_retry"}
  /\ Participates(i, call[i][k].by) /\ Alive(i, k) = {}
  /\ call' = [call EXCEPT ![i][k] =
       CASE @.at = "join" ->
              [@ EXCEPT !.at = "done",
                        !.result = IF \E n \in Tasks(k) : call[i][k].status[n] = "error"
                                     THEN "error" ELSE "ok"]
         [] @.at = "stop" -> [@ EXCEPT !.at = "done", !.result = "launch_failed"]
         [] OTHER -> [@ EXCEPT !.at = "serial", !.next = 1,
                               !.status = [n \in Tasks(k) |-> "none"]]]
  /\ UNCHANGED <<queue, image, permit, group, thread, terminated>>

(* The serial loop returns at the first error. *)
RunSerially(i) ==
  /\ call[i]["dc"].at = "serial" /\ Participates(i, call[i]["dc"].by)
  /\ LET n == call[i]["dc"].next
     IN IF n \notin Tasks("dc")
          THEN call' = [call EXCEPT ![i]["dc"] = [@ EXCEPT !.at = "done", !.result = "ok"]]
          ELSE \E status \in Statuses :
            call' = [call EXCEPT ![i]["dc"] =
              IF status = "ok" THEN [@ EXCEPT !.next = n + 1, !.status[n] = status]
              ELSE [@ EXCEPT !.at = "done", !.result = status, !.status[n] = status]]
  /\ UNCHANGED <<queue, image, permit, group, thread, terminated>>

(* The groups and then the image's scope end. *)
Finish(i) ==
  /\ \/ image[i] = "early" /\ call[i]["branches"].at = "done"
     \/ image[i] = "stage" /\ call[i]["dc"].at = "done"
  /\ permit[i]
  /\ group' = [group EXCEPT ![i] = [k \in Stages |-> NoGroup]]
  /\ permit' = [permit EXCEPT ![i] = FALSE]
  /\ call' = [call EXCEPT ![i] = [k \in Stages |-> NoCall]]
  /\ image' = [image EXCEPT ![i] = "done"]
  /\ UNCHANGED <<queue, thread, terminated>>

-------------------------------------------------------------------------------
Init ==
  /\ queue = <<>>
  /\ image = [i \in Image |-> "start"]
  /\ permit = [i \in Image |-> FALSE]
  /\ group = [i \in Image |-> [k \in Stages |-> NoGroup]]
  /\ call = [i \in Image |-> [k \in Stages |-> NoCall]]
  /\ thread = [i \in Image |-> [t \in Threads |-> NoThread]]
  /\ terminated = FALSE

Admission(i) == Start(i) \/ Acquire(i) \/ AdmitEarly(i) \/ StartStage(i) \/ Finish(i)

CallingThread(i, k) ==
  \/ Launch(i, k) \/ LaunchFails(i, k) \/ Participate(i, k)
  \/ JoinAfterLoop(i, k) \/ Resume(i, k) \/ Conclude(i, k)

Thread(i, t) ==
  \/ t # Caller /\ Take(i, t)
  \/ \E k \in Stages : FetchTask(i, k, t) \/ FinishTask(i, k, t) \/ Exit(i, k, t)

Next ==
  \E i \in Image :
    \/ Admission(i) \/ RunSerially(i)
    \/ \E k \in Stages : CallingThread(i, k)
    \/ \E t \in Threads : Thread(i, t)

(* Threads run, tasks return, and a slot that is free goes to the waiter.   *)
Fairness ==
  \A i \in Image :
    /\ WF_vars(Admission(i)) /\ WF_vars(RunSerially(i))
    /\ \A k \in Stages : WF_vars(CallingThread(i, k))
    /\ \A t \in Threads : WF_vars(Thread(i, t))

Spec == Init /\ [][Next]_vars /\ Fairness

-------------------------------------------------------------------------------
(* A call that returned is over: no thread of it runs, whatever failed to     *)
(* launch and when; it returned Ok only with every task done, each by one     *)
(* thread at a time (parallel_work_internal.h:72-117).                      *)
CallIsOver ==
  \A i \in Image, k \in Stages : call[i][k].at = "done" =>
    /\ Alive(i, k) = {}
    /\ \A n \in Tasks(k) : call[i][k].runner[n] = Nobody
    /\ call[i][k].result = "ok" => \A n \in Tasks(k) : call[i][k].status[n] = "ok"
    /\ call[i][k].result = "error" => \E n \in Tasks(k) : call[i][k].status[n] = "error"

(* What runs was admitted: a thread that holds a task of its own takes part   *)
(* with a slot, the slots never exceed either limit though joins give some    *)
(* up and take them back, and no worker was launched that finds a budget      *)
(* without its slot (cpu_execution.h:200-206).                              *)
OnlyAdmittedThreadsRun ==
  /\ ~terminated
  /\ Protected <= Limit
  /\ \A i \in Image :
       /\ JobProtected(i) <= JobLimit[i]
       /\ \A t \in Threads, k \in Stages :
            (call[i][k].at # "none" /\ Running(i, k, t) # {}) =>
              \/ Participates(i, t)
              \/ \E nested \in Stages \ {k} : call[i][nested].at # "none" /\ call[i][nested].by = t

(* Nobody waits for ever, in a join, in a nested join or for a slot. *)
EveryImageReturns == \A i \in Image : <>(image[i] = "done")

===============================================================================
