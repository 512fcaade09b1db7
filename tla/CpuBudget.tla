------------------------------- MODULE CpuBudget -------------------------------
(***************************************************************************)
(* The CPU participation domain of an ExecutionDomain                      *)
(* (src/src/core/cpu_budget.h).                                            *)
(*                                                                         *)
(* A caller acquires one permit, waiting in FIFO order; a running caller   *)
(* may reserve further slots for workers, without waiting, and each worker *)
(* takes its permit from the reservation when its thread starts.  Every    *)
(* action is one critical section of State::mutex with the notify_all that *)
(* follows it, or one step on a reservation that only its owner sees.      *)
(***************************************************************************)
EXTENDS Totals, Queues

CONSTANTS Limit,    \* the number of participants
          Permits,  \* CpuPermit objects, each with the thread that fills it
          Groups    \* CpuWorkerReservation objects

ASSUME LimitAssumption == Limit \in Nat \ {0}

ASSUME CpuAssumption == IsFiniteSet(Permits) /\ IsFiniteSet(Groups)

VARIABLES active, reserved, suspended,  \* the counters of a snapshot
          peak_active, peak_protected,
          queue,                        \* the list of waiters, first to last
          call,                         \* where each thread is in Acquire
          permit,                       \* state of each CpuPermit
          group                         \* state of each CpuWorkerReservation

vars == <<active, reserved, suspended, peak_active, peak_protected,
          queue, call, permit, group>>

Empty == [held |-> FALSE, whole |-> FALSE, count |-> 0, taken |-> 0]

-------------------------------------------------------------------------------
(* State *)

Protected == active + reserved + suspended

Larger(a, b) == IF a >= b THEN a ELSE b

UpdatePeaks == /\ peak_active' = Larger(peak_active, active')
               /\ peak_protected' = Larger(peak_protected, Protected')

NotifyAll(f) == [p \in Permits |-> IF f[p] = "asleep" THEN "awake" ELSE f[p]]

First(p) == queue # <<>> /\ Head(queue) = p

-------------------------------------------------------------------------------
(* CpuBudget::Acquire *)

Admit == /\ active' = active + 1
         /\ UNCHANGED <<reserved, suspended>>
         /\ UpdatePeaks

(* The newcomer is first and finds a slot in the critical section in which *)
(* it queued.                                                              *)
AcquireAtOnce(p) ==
  /\ permit[p] = "none" /\ call[p] = "outside"
  /\ queue = <<>> /\ Protected < Limit
  /\ Admit
  /\ permit' = [permit EXCEPT ![p] = "caller"]
  /\ UNCHANGED <<queue, call, group>>

Enqueue(p) ==
  /\ permit[p] = "none" /\ call[p] = "outside"
  /\ ~(queue = <<>> /\ Protected < Limit)
  /\ queue' = Append(queue, p)
  /\ call' = [call EXCEPT ![p] = "asleep"]
  /\ UNCHANGED <<active, reserved, suspended, peak_active, peak_protected,
                 permit, group>>

(* Leave, without telling the waiter that has become the first *)
LeaveSilently(p) ==
  /\ \E i \in 1 .. Len(queue) : queue[i] = p /\ queue' = Without(queue, i)
  /\ call' = [call EXCEPT ![p] = "outside"]

(* Remove the waiter from the list and notify the others. *)
Leave(p) ==
  /\ \E i \in 1 .. Len(queue) : queue[i] = p /\ queue' = Without(queue, i)
  /\ call' = NotifyAll([call EXCEPT ![p] = "outside"])

(* Wake, granting a slot to any waiter that finds one *)
WakeInAnyOrder(p) ==
  /\ call[p] = "awake"
  /\ IF Protected < Limit
       THEN Admit /\ Leave(p) /\ permit' = [permit EXCEPT ![p] = "caller"]
       ELSE /\ call' = [call EXCEPT ![p] = "asleep"]
            /\ UNCHANGED <<active, reserved, suspended, peak_active,
                           peak_protected, queue, permit>>
  /\ UNCHANGED group

(* The waiter evaluates its predicate with the lock held. *)
Wake(p) ==
  /\ call[p] = "awake"
  /\ IF First(p) /\ Protected < Limit
       THEN Admit /\ Leave(p) /\ permit' = [permit EXCEPT ![p] = "caller"]
       ELSE /\ call' = [call EXCEPT ![p] = "asleep"]
            /\ UNCHANGED <<active, reserved, suspended, peak_active,
                           peak_protected, queue, permit>>
  /\ UNCHANGED group

(* A condition variable may return without having been notified. *)
SpuriousWake(p) ==
  /\ call[p] = "asleep"
  /\ call' = [call EXCEPT ![p] = "awake"]
  /\ UNCHANGED <<active, reserved, suspended, peak_active, peak_protected,
                 queue, permit, group>>

(* Cancel, leaving the waiter linked as an exception would *)
CancelLinked(p) ==
  /\ call[p] # "outside"
  /\ call' = NotifyAll([call EXCEPT ![p] = "outside"])
  /\ UNCHANGED <<active, reserved, suspended, peak_active, peak_protected,
                 queue, permit, group>>

(* The stop_token was triggered, or the wait threw. *)
Cancel(p) ==
  /\ call[p] # "outside"
  /\ Leave(p)
  /\ UNCHANGED <<active, reserved, suspended, peak_active, peak_protected,
                 permit, group>>

-------------------------------------------------------------------------------
(* CpuPermit *)

SuspendWorker(p) ==
  /\ permit[p] = "worker"
  /\ active' = active - 1
  /\ suspended' = suspended + 1
  /\ permit' = [permit EXCEPT ![p] = "suspended"]
  /\ UNCHANGED <<reserved, peak_active, peak_protected, queue, call, group>>

ResumeWorker(p) ==
  /\ permit[p] = "suspended"
  /\ suspended' = suspended - 1
  /\ active' = active + 1
  /\ permit' = [permit EXCEPT ![p] = "worker"]
  /\ UNCHANGED <<reserved, queue, call, group>>
  /\ UpdatePeaks

(* ResetPermit, taking every holder for an active one *)
ResetActivePermit(p) ==
  /\ permit[p] \in {"caller", "worker", "suspended"}
  /\ active' = active - 1
  /\ permit' = [permit EXCEPT ![p] = "none"]
  /\ call' = NotifyAll(call)
  /\ UNCHANGED <<reserved, suspended, peak_active, peak_protected, queue, group>>

ResetPermit(p) ==
  /\ permit[p] \in {"caller", "worker", "suspended"}
  /\ IF permit[p] = "suspended"
       THEN suspended' = suspended - 1 /\ UNCHANGED active
       ELSE active' = active - 1 /\ UNCHANGED suspended
  /\ permit' = [permit EXCEPT ![p] = "none"]
  /\ call' = NotifyAll(call)
  /\ UNCHANGED <<reserved, peak_active, peak_protected, queue, group>>

-------------------------------------------------------------------------------
(* CpuWorkerReservation *)

(* TryReserveWorkers, looking at the slots but not at the queue *)
TryReserveBypassing(g, maximum) ==
  LET free  == Limit - Protected
      count == IF maximum < free THEN maximum ELSE free IN
  /\ ~group[g].held
  /\ count > 0
  /\ reserved' = reserved + count
  /\ UNCHANGED <<active, suspended>>
  /\ UpdatePeaks
  /\ group' = [group EXCEPT ![g] = [held |-> TRUE, whole |-> TRUE,
                                    count |-> count, taken |-> 0]]
  /\ UNCHANGED <<queue, call, permit>>

(* TryReserveWorkers, granting all that was asked for *)
TryReserveUnclipped(g, maximum) ==
  /\ ~group[g].held
  /\ queue = <<>>
  /\ Protected < Limit
  /\ reserved' = reserved + maximum
  /\ UNCHANGED <<active, suspended>>
  /\ UpdatePeaks
  /\ group' = [group EXCEPT ![g] = [held |-> TRUE, whole |-> TRUE,
                                    count |-> maximum, taken |-> 0]]
  /\ UNCHANGED <<queue, call, permit>>

(* At most maximum slots, as far as they are free, and none while anyone is *)
(* queued.                                                                 *)
TryReserveWorkers(g, maximum) ==
  LET free  == Limit - Protected
      count == IF maximum < free THEN maximum ELSE free IN
  /\ ~group[g].held
  /\ queue = <<>>
  /\ count > 0
  /\ reserved' = reserved + count
  /\ UNCHANGED <<active, suspended>>
  /\ UpdatePeaks
  /\ group' = [group EXCEPT ![g] = [held |-> TRUE, whole |-> TRUE,
                                    count |-> count, taken |-> 0]]
  /\ UNCHANGED <<queue, call, permit>>

(* The owner splits a grant that no worker has drawn on.  A part is not     *)
(* split again (codestream/entropy_readiness_internal.h, the only caller). *)
SplitOff(g, h, n) ==
  /\ group[g].held /\ group[g].whole /\ group[g].taken = 0 /\ n <= group[g].count
  /\ ~group[h].held
  /\ group' = [group EXCEPT ![g].count = @ - n,
                            ![h] = [held |-> TRUE, whole |-> FALSE,
                                    count |-> n, taken |-> 0]]
  /\ UNCHANGED <<active, reserved, suspended, peak_active, peak_protected,
                 queue, call, permit>>

(* KeepAtMost: the excess goes back before any worker starts. *)
KeepAtMost(g, maximum) ==
  /\ group[g].held /\ group[g].taken = 0 /\ maximum < group[g].count
  /\ reserved' = reserved - (group[g].count - maximum)
  /\ group' = [group EXCEPT ![g] = IF maximum = 0 THEN Empty
                                   ELSE [group[g] EXCEPT !.count = maximum]]
  /\ call' = NotifyAll(call)
  /\ UNCHANGED <<active, suspended, peak_active, peak_protected, queue, permit>>

(* Take: a starting worker first claims one of the slots, by a compare and  *)
(* exchange on taken_ ...                                                  *)
Claim(g, p) ==
  /\ group[g].taken < group[g].count
  /\ permit[p] = "none" /\ call[p] = "outside"
  /\ group' = [group EXCEPT ![g].taken = @ + 1]
  /\ permit' = [permit EXCEPT ![p] = "claiming"]
  /\ UNCHANGED <<active, reserved, suspended, peak_active, peak_protected,
                 queue, call>>

(* FinishTake, recording no peak *)
FinishTakeUnrecorded(p) ==
  /\ permit[p] = "claiming"
  /\ reserved' = reserved - 1
  /\ active' = active + 1
  /\ permit' = [permit EXCEPT ![p] = "worker"]
  /\ UNCHANGED <<suspended, peak_active, peak_protected, queue, call, group>>

(* ... and then, with the lock, turns the reserved slot into an active one. *)
FinishTake(p) ==
  /\ permit[p] = "claiming"
  /\ reserved' = reserved - 1
  /\ active' = active + 1
  /\ permit' = [permit EXCEPT ![p] = "worker"]
  /\ UNCHANGED <<suspended, queue, call, group>>
  /\ UpdatePeaks

(* ResetGroup, releasing the slots that workers have taken as well *)
ResetWholeGroup(g) ==
  /\ group[g].held
  /\ reserved' = reserved - group[g].count
  /\ group' = [group EXCEPT ![g] = Empty]
  /\ call' = NotifyAll(call)
  /\ UNCHANGED <<active, suspended, peak_active, peak_protected, queue, permit>>

(* Slots nobody claimed are released; claimed ones outlive the reservation. *)
ResetGroup(g) ==
  /\ group[g].held
  /\ reserved' = reserved - (group[g].count - group[g].taken)
  /\ group' = [group EXCEPT ![g] = Empty]
  /\ call' = NotifyAll(call)
  /\ UNCHANGED <<active, suspended, peak_active, peak_protected, queue, permit>>

-------------------------------------------------------------------------------
Init == /\ active = 0 /\ reserved = 0 /\ suspended = 0
        /\ peak_active = 0 /\ peak_protected = 0
        /\ queue = <<>>
        /\ call = [p \in Permits |-> "outside"]
        /\ permit = [p \in Permits |-> "none"]
        /\ group = [g \in Groups |-> Empty]

(* Asking for slots *)
Admission == \/ \E p \in Permits : \/ AcquireAtOnce(p) \/ Enqueue(p) \/ Wake(p)
                                   \/ SpuriousWake(p) \/ Cancel(p)
             \/ \E g \in Groups, n \in 1 .. Limit : TryReserveWorkers(g, n)

(* Using and returning slots *)
Holding == \/ \E p \in Permits : \/ SuspendWorker(p) \/ ResumeWorker(p)
                                 \/ ResetPermit(p) \/ FinishTake(p)
           \/ \E g \in Groups : \/ \E n \in 0 .. Limit : KeepAtMost(g, n)
                                \/ \E p \in Permits : Claim(g, p)
                                \/ ResetGroup(g)
           \/ \E g, h \in Groups, n \in 1 .. Limit : SplitOff(g, h, n)

Next == Admission \/ Holding

Spec == Init /\ [][Next]_vars

(* A woken thread runs, a worker that claimed a slot takes it, and permits  *)
(* and reservations, which are scoped objects, go out of scope.            *)
Fairness ==
  /\ \A p \in Permits : /\ WF_vars(Wake(p))
                        /\ WF_vars(FinishTake(p))
                        /\ WF_vars(ResetPermit(p))
  /\ \A g \in Groups : WF_vars(ResetGroup(g))

FairSpec == Spec /\ Fairness

-------------------------------------------------------------------------------
(* Properties *)

Reservation == {r \in [held : BOOLEAN, whole : BOOLEAN,
                       count : 0 .. Limit, taken : 0 .. Limit] :
                  r.taken <= r.count /\ (~r.held => r.count = 0)}

(* Every variable has its type: no counter, all of them unsigned in the     *)
(* code, is ever taken below zero.                                         *)
TypeOK ==
  /\ active \in Nat /\ reserved \in Nat /\ suspended \in Nat
  /\ peak_active \in Nat /\ peak_protected \in Nat
  /\ queue \in Seq(Permits)
  /\ call \in [Permits -> {"outside", "asleep", "awake"}]
  /\ permit \in [Permits -> {"none", "caller", "claiming", "worker", "suspended"}]
  /\ group \in [Groups -> Reservation]

(* The assertion in UpdatePeaks: active, reserved and suspended slots       *)
(* together stay within the domain's limit.                                *)
WithinLimit == Protected <= Limit

Holders(S) == {p \in Permits : permit[p] \in S}

Unclaimed == [g \in Groups |-> group[g].count - group[g].taken]

(* The counters are the permits' and reservations' own account of           *)
(* themselves: no slot is lost or released twice by splits, trims, claims, *)
(* suspensions and resets, in whatever order owner and workers do them.    *)
CountersMatchHolders ==
  /\ active = Cardinality(Holders({"caller", "worker"}))
  /\ suspended = Cardinality(Holders({"suspended"}))
  /\ reserved = SumOver(Unclaimed, Groups) + Cardinality(Holders({"claiming"}))

(* The peaks cover the present counters and never pass the limit, although  *)
(* only the steps that may raise a counter record them.                    *)
PeaksCoverCounters ==
  /\ active <= peak_active /\ Protected <= peak_protected
  /\ peak_active <= peak_protected /\ peak_protected <= Limit

(* The list holds exactly the threads inside Acquire, each once, and none   *)
(* of them has a permit already.                                           *)
QueueHoldsWaiters ==
  /\ Distinct(queue)
  /\ Members(queue) = {p \in Permits : call[p] # "outside"}
  /\ \A p \in Members(queue) : permit[p] = "none"

(* No lost wakeup: the first waiter never sleeps beside a free slot. *)
NoLostWakeup ==
  \A p \in Permits : call[p] = "asleep" /\ First(p) => Protected = Limit

Waiting == [i \in 1 .. Len(queue) |-> [who |-> queue[i], amount |-> 1]]

Abstract == INSTANCE FifoAdmission
              WITH Requesters <- Permits, Capacity <- Limit,
                   Amounts <- 1 .. Limit, granted <- Protected, waiting <- Waiting

(* The CPU domain is a FIFO admission controller: workers reserve only slots *)
(* that are free and never bypass a queued caller, and resuming a worker or *)
(* taking a reserved slot needs no new capacity.                           *)
ImplementsFifoAdmission == Abstract!Spec

(* A queued or resuming caller is served (or gives up): as long as holders  *)
(* release their slots nobody overtakes it for ever.                       *)
EveryWaiterLeaves ==
  \A p \in Permits : call[p] # "outside" ~> call[p] = "outside"
===============================================================================
