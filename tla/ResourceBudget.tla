---------------------------- MODULE ResourceBudget ----------------------------
(***************************************************************************)
(* The managed-memory domain of an ExecutionDomain                         *)
(* (src/src/core/resource_budget.h).                                       *)
(*                                                                         *)
(* A caller admits a complete work envelope with Reserve, waiting in FIFO  *)
(* order; within the envelope it authorises allocations by tickets, which  *)
(* outlive the envelope (idle caches, published results).  Every action    *)
(* below is one critical section of BudgetState::mutex together with the   *)
(* notify_all that follows it.  Calls that return an error before they     *)
(* change anything are steps that do not happen.                           *)
(***************************************************************************)
EXTENDS Totals, Queues

CONSTANTS Limit,         \* the bytes of the domain
          Callers,       \* threads that call ResourceBudget::Reserve
          Reservations,  \* ReservationState objects
          Tickets,       \* ResourceAllocation handles
          Classes,       \* the ResourceClass values in use
          All,           \* names the total, beside the classes, in a snapshot
          None,          \* the null ReservationState
          Sizes          \* byte counts that callers ask for

ASSUME LimitAssumption == Limit \in Nat \ {0}

ASSUME BudgetAssumption ==
  /\ Sizes \subseteq 1 .. Limit
  /\ IsFiniteSet(Tickets) /\ IsFiniteSet(Reservations)
  /\ All \notin Classes
  /\ None \notin Reservations

VARIABLES usage,              \* ResourceUsage of the total and of each class
          reserved_unbacked,  \* admitted bytes that no backing uses
          open_reservations,
          peak_backing,
          peak_committed,
          queue,              \* the list of waiters, first to last
          call,               \* where each caller is in Reserve
          reservation,        \* ReservationState of each envelope
          ticket              \* state of each ResourceAllocation

vars == <<usage, reserved_unbacked, open_reservations, peak_backing,
          peak_committed, queue, call, reservation, ticket>>

ledger == <<usage, reserved_unbacked, open_reservations, peak_backing,
            peak_committed>>

Scopes == Classes \cup {All}

NoUsage == [live_requested |-> 0, live |-> 0, idle |-> 0, pending |-> 0,
            backing_count |-> 0, pending_count |-> 0]

NoTicket == [phase |-> "none", owner |-> None, capacity |-> 0,
             requested |-> 0, class |-> All]

Closed == [open |-> FALSE, capacity |-> 0, charged |-> 0]

Outside == [at |-> "outside", want |-> 0]

-------------------------------------------------------------------------------
(* BudgetState *)

Backing == usage[All].live + usage[All].idle

Committed == reserved_unbacked + Backing

(* Fits, forgetting what is admitted but not yet backed *)
FitsBesideBacking(n) == n <= Limit - Backing

Fits(n) == n <= Limit - Committed

Larger(a, b) == IF a >= b THEN a ELSE b

(* UpdatePeaks, recording the committed peak only *)
UpdateCommittedPeak == /\ peak_committed' = Larger(peak_committed, Committed')
                       /\ UNCHANGED peak_backing

UpdatePeaks == /\ peak_backing' = Larger(peak_backing, Backing')
               /\ peak_committed' = Larger(peak_committed, Committed')

(* changed.notify_all(), seen from the callers' states in f *)
NotifyAll(f) ==
  [c \in Callers |-> IF f[c].at = "asleep" THEN [f[c] EXCEPT !.at = "awake"]
                                           ELSE f[c]]

First(c) == queue # <<>> /\ Head(queue) = c

(* ForUsage: the total and the ticket's class change alike. *)
ForUsage(t, F(_)) ==
  [s \in Scopes |-> IF s \in {All, ticket[t].class} THEN F(usage[s])
                                                    ELSE usage[s]]

(* A ReservationState is gone once its handle is reset and no ticket is its. *)
Unused == {r \in Reservations : /\ ~reservation[r].open
                                /\ \A t \in Tickets : ticket[t].owner # r}

-------------------------------------------------------------------------------
(* Admission *)

Publish(n) ==
  /\ \E r \in Unused :
       reservation' = [reservation EXCEPT
                         ![r] = [open |-> TRUE, capacity |-> n, charged |-> 0]]
  /\ reserved_unbacked' = reserved_unbacked + n
  /\ open_reservations' = open_reservations + 1
  /\ UNCHANGED usage
  /\ UpdatePeaks

(* TryReserve, looking at the capacity but not at the queue *)
TryReserveBypassing(n) == Fits(n) /\ Publish(n) /\ UNCHANGED <<queue, call, ticket>>

(* TryReserve; also a Reserve that finds itself first and fitting when it  *)
(* queues, which grants it in the critical section that enqueued it.       *)
TryReserve(n) == /\ queue = <<>>
                 /\ Fits(n)
                 /\ Publish(n)
                 /\ UNCHANGED <<queue, call, ticket>>

(* A Reserve that has to wait: it queues first, and only then evicts idle  *)
(* storage, without the lock, if its caller supplied a way to.             *)
Enqueue(c, n, evicts) ==
  /\ call[c].at = "outside"
  /\ ~(queue = <<>> /\ Fits(n))
  /\ queue' = Append(queue, c)
  /\ call' = [call EXCEPT
                ![c] = [at |-> IF evicts THEN "evicting" ELSE "asleep", want |-> n]]
  /\ UNCHANGED <<ledger, reservation, ticket>>

(* evict_idle returned without an error: the caller is about to lock again. *)
EvictReturns(c) == /\ call[c].at = "evicting"
                   /\ call' = [call EXCEPT ![c].at = "awake"]
                   /\ UNCHANGED <<ledger, queue, reservation, ticket>>

(* Leave, without telling the waiter that has become the first *)
LeaveSilently(c) == /\ \E p \in 1 .. Len(queue) : /\ queue[p] = c
                                                  /\ queue' = Without(queue, p)
                    /\ call' = [call EXCEPT ![c] = Outside]

(* Remove the waiter from the list and notify the others. *)
Leave(c) == /\ \E p \in 1 .. Len(queue) : /\ queue[p] = c
                                          /\ queue' = Without(queue, p)
            /\ call' = NotifyAll([call EXCEPT ![c] = Outside])

(* EvictFails, leaving the waiter linked as an exception would *)
EvictFailsLinked(c) == /\ call[c].at = "evicting"
                       /\ call' = NotifyAll([call EXCEPT ![c] = Outside])
                       /\ UNCHANGED <<ledger, queue, reservation, ticket>>

(* evict_idle failed or threw *)
EvictFails(c) == /\ call[c].at = "evicting"
                 /\ Leave(c)
                 /\ UNCHANGED <<ledger, reservation, ticket>>

(* The waiter evaluates its predicate with the lock held: it is granted its *)
(* envelope or sleeps again.                                               *)
Wake(c) == /\ call[c].at = "awake"
           /\ IF First(c) /\ Fits(call[c].want)
                THEN Publish(call[c].want) /\ Leave(c)
                ELSE /\ call' = [call EXCEPT ![c].at = "asleep"]
                     /\ UNCHANGED <<ledger, queue, reservation>>
           /\ UNCHANGED ticket

(* A condition variable may return without having been notified. *)
SpuriousWake(c) == /\ call[c].at = "asleep"
                   /\ call' = [call EXCEPT ![c].at = "awake"]
                   /\ UNCHANGED <<ledger, queue, reservation, ticket>>

(* The caller's stop_token was triggered before its request was granted. *)
Cancel(c) == /\ call[c].at \in {"awake", "asleep"}
             /\ Leave(c)
             /\ UNCHANGED <<ledger, reservation, ticket>>

-------------------------------------------------------------------------------
(* ResourceReservation *)

ReduceCapacity(r, n) ==
  /\ reservation[r].open
  /\ n \in reservation[r].charged .. reservation[r].capacity
  /\ reservation' = [reservation EXCEPT ![r].capacity = n]
  /\ reserved_unbacked' = reserved_unbacked - (reservation[r].capacity - n)
  /\ call' = NotifyAll(call)
  /\ UNCHANGED <<usage, open_reservations, peak_backing, peak_committed,
                 queue, ticket>>

(* ResourceReservation::Reset; the tickets stay charged.  Nothing reads the *)
(* capacity of a closed envelope again, so the model forgets it.           *)
CloseReservation(r) ==
  /\ reservation[r].open
  /\ reserved_unbacked' =
       reserved_unbacked - (reservation[r].capacity - reservation[r].charged)
  /\ open_reservations' = open_reservations - 1
  /\ reservation' = [reservation EXCEPT
                       ![r] = [open |-> FALSE, capacity |-> 0, charged |-> @.charged]]
  /\ call' = NotifyAll(call)
  /\ UNCHANGED <<usage, peak_backing, peak_committed, queue, ticket>>

PrepareAllocation(r, t, k, asked, n) ==
  /\ reservation[r].open
  /\ ticket[t].phase = "none"
  /\ asked <= n
  /\ n <= reservation[r].capacity - reservation[r].charged
  /\ reservation' = [reservation EXCEPT ![r].charged = @ + n]
  /\ ticket' = [ticket EXCEPT ![t] =
                  [phase |-> "pending", owner |-> r, capacity |-> n,
                   requested |-> asked, class |-> k]]
  /\ usage' = [s \in Scopes |->
                 IF s \in {All, k}
                   THEN [usage[s] EXCEPT !.pending = @ + n, !.pending_count = @ + 1]
                   ELSE usage[s]]
  /\ UNCHANGED <<reserved_unbacked, open_reservations, peak_backing,
                 peak_committed, queue, call>>

-------------------------------------------------------------------------------
(* ResourceAllocation *)

Commit(t) ==
  LET n == ticket[t].capacity IN
  /\ ticket[t].phase = "pending"
  /\ usage' = ForUsage(t, LAMBDA u :
       [u EXCEPT !.pending = @ - n, !.pending_count = @ - 1,
                 !.live = @ + n, !.live_requested = @ + ticket[t].requested,
                 !.backing_count = @ + 1])
  /\ reserved_unbacked' = reserved_unbacked - n
  /\ ticket' = [ticket EXCEPT ![t].phase = "live"]
  /\ UpdatePeaks
  /\ UNCHANGED <<open_reservations, queue, call, reservation>>

(* Refused while anyone is queued, so that a cache cannot keep what an      *)
(* evicting waiter has just looked for.                                    *)
MakeIdle(t) ==
  LET n == ticket[t].capacity IN
  /\ ticket[t].phase = "live"
  /\ queue = <<>>
  /\ usage' = ForUsage(t, LAMBDA u :
       [u EXCEPT !.live_requested = @ - ticket[t].requested,
                 !.live = @ - n, !.idle = @ + n])
  /\ ticket' = [ticket EXCEPT ![t].phase = "idle"]
  /\ UNCHANGED <<reserved_unbacked, open_reservations, peak_backing,
                 peak_committed, queue, call, reservation>>

(* MakeLive, keeping the size that was requested for the previous use *)
MakeLiveKeepingRequest(t, asked) ==
  LET n == ticket[t].capacity IN
  /\ ticket[t].phase = "idle"
  /\ asked <= n
  /\ usage' = ForUsage(t, LAMBDA u :
       [u EXCEPT !.idle = @ - n, !.live = @ + n, !.live_requested = @ + asked])
  /\ ticket' = [ticket EXCEPT ![t].phase = "live"]
  /\ UNCHANGED <<reserved_unbacked, open_reservations, peak_backing,
                 peak_committed, queue, call, reservation>>

MakeLive(t, asked) ==
  LET n == ticket[t].capacity IN
  /\ ticket[t].phase = "idle"
  /\ asked <= n
  /\ usage' = ForUsage(t, LAMBDA u :
       [u EXCEPT !.idle = @ - n, !.live = @ + n, !.live_requested = @ + asked])
  /\ ticket' = [ticket EXCEPT ![t].phase = "live", ![t].requested = asked]
  /\ UNCHANGED <<reserved_unbacked, open_reservations, peak_backing,
                 peak_committed, queue, call, reservation>>

(* TransferTo, treating a closed source as if it regained the bytes *)
TransferFromClosedAsOpen(t, next) ==
  LET n    == ticket[t].capacity
      from == ticket[t].owner IN
  /\ ticket[t].phase # "none"
  /\ reservation[next].open /\ next # from
  /\ n <= reservation[next].capacity - reservation[next].charged
  /\ reservation' = [reservation EXCEPT ![from].charged = @ - n,
                                        ![next].charged = @ + n]
  /\ ticket' = [ticket EXCEPT ![t].owner = next]
  /\ call' = NotifyAll(call)
  /\ UNCHANGED <<ledger, queue>>

(* The backing moves to another admitted job.  Only the net change reaches *)
(* the ledger: an open source regains what the target gives up.            *)
TransferTo(t, next) ==
  LET n    == ticket[t].capacity
      from == ticket[t].owner IN
  /\ ticket[t].phase # "none"
  /\ reservation[next].open /\ next # from
  /\ n <= reservation[next].capacity - reservation[next].charged
  /\ reservation' = [reservation EXCEPT ![from].charged = @ - n,
                                        ![next].charged = @ + n]
  /\ reserved_unbacked' = IF reservation[from].open THEN reserved_unbacked
                                                    ELSE reserved_unbacked - n
  /\ ticket' = [ticket EXCEPT ![t].owner = next]
  /\ call' = NotifyAll(call)
  /\ UNCHANGED <<usage, open_reservations, peak_backing, peak_committed, queue>>

(* Uncharge, taking every backing for a live one *)
UnchargeAsLive(u, t) ==
  LET n == ticket[t].capacity IN
  IF ticket[t].phase = "pending"
    THEN [u EXCEPT !.pending = @ - n, !.pending_count = @ - 1]
    ELSE [u EXCEPT !.live = @ - n, !.live_requested = @ - ticket[t].requested,
                   !.backing_count = @ - 1]

(* What leaves a usage record when the ticket is reset. *)
Uncharge(u, t) ==
  LET n == ticket[t].capacity IN
  CASE ticket[t].phase = "pending" ->
         [u EXCEPT !.pending = @ - n, !.pending_count = @ - 1]
    [] ticket[t].phase = "live" ->
         [u EXCEPT !.live = @ - n, !.live_requested = @ - ticket[t].requested,
                   !.backing_count = @ - 1]
    [] ticket[t].phase = "idle" ->
         [u EXCEPT !.idle = @ - n, !.backing_count = @ - 1]

ResetTicket(t) ==
  LET n    == ticket[t].capacity
      r    == ticket[t].owner
      open == reservation[ticket[t].owner].open IN
  /\ ticket[t].phase # "none"
  /\ usage' = ForUsage(t, LAMBDA u : Uncharge(u, t))
  /\ reservation' = [reservation EXCEPT ![r].charged = @ - n]
  /\ reserved_unbacked' =
       CASE ticket[t].phase = "pending" /\ ~open -> reserved_unbacked - n
         [] ticket[t].phase # "pending" /\ open  -> reserved_unbacked + n
         [] OTHER                                -> reserved_unbacked
  /\ ticket' = [ticket EXCEPT ![t] = NoTicket]
  /\ call' = NotifyAll(call)
  /\ UNCHANGED <<open_reservations, peak_backing, peak_committed, queue>>

(* What joins a usage record when the ticket comes to it. *)
Recharge(u, t) ==
  LET n == ticket[t].capacity IN
  CASE ticket[t].phase = "pending" ->
         [u EXCEPT !.pending = @ + n, !.pending_count = @ + 1]
    [] ticket[t].phase = "live" ->
         [u EXCEPT !.live = @ + n, !.live_requested = @ + ticket[t].requested,
                   !.backing_count = @ + 1]
    [] ticket[t].phase = "idle" ->
         [u EXCEPT !.idle = @ + n, !.backing_count = @ + 1]

Reclassify(t, k) ==
  /\ ticket[t].phase # "none"
  /\ k # ticket[t].class
  /\ usage' = [usage EXCEPT ![ticket[t].class] = Uncharge(@, t),
                            ![k] = Recharge(@, t)]
  /\ ticket' = [ticket EXCEPT ![t].class = k]
  /\ UNCHANGED <<reserved_unbacked, open_reservations, peak_backing,
                 peak_committed, queue, call, reservation>>

-------------------------------------------------------------------------------
Init ==
  /\ usage = [s \in Scopes |-> NoUsage]
  /\ reserved_unbacked = 0
  /\ open_reservations = 0
  /\ peak_backing = 0 /\ peak_committed = 0
  /\ queue = <<>>
  /\ call = [c \in Callers |-> Outside]
  /\ reservation = [r \in Reservations |-> Closed]
  /\ ticket = [t \in Tickets |-> NoTicket]

Admission ==
  \/ \E n \in Sizes : TryReserve(n)
  \/ \E c \in Callers, n \in Sizes, e \in BOOLEAN : Enqueue(c, n, e)
  \/ \E c \in Callers : \/ EvictReturns(c)
                        \/ EvictFails(c)
                        \/ Wake(c)
                        \/ SpuriousWake(c)
                        \/ Cancel(c)

Holding ==
  \/ \E r \in Reservations : \/ \E n \in 0 .. Limit : ReduceCapacity(r, n)
                             \/ CloseReservation(r)
  \/ \E r \in Reservations, t \in Tickets, k \in Classes, a, n \in Sizes :
       PrepareAllocation(r, t, k, a, n)
  \/ \E t \in Tickets : \/ Commit(t)
                        \/ MakeIdle(t)
                        \/ \E a \in Sizes : MakeLive(t, a)
                        \/ \E r \in Reservations : TransferTo(t, r)
                        \/ ResetTicket(t)
                        \/ \E k \in Classes : Reclassify(t, k)

Next == Admission \/ Holding

Spec == Init /\ [][Next]_vars

-------------------------------------------------------------------------------
(* Properties *)

Usage == [live_requested : Nat, live : Nat, idle : Nat, pending : Nat,
          backing_count : Nat, pending_count : Nat]

CallStates ==
  {Outside} \cup [at : {"evicting", "asleep", "awake"}, want : Sizes]

Envelope == [open : BOOLEAN, capacity : 0 .. Limit, charged : 0 .. Limit]

TicketStates ==
  {NoTicket} \cup [phase : {"pending", "live", "idle"}, owner : Reservations,
                   capacity : Sizes, requested : Sizes, class : Classes]

(* Every variable has its type; in particular no counter of the snapshot,   *)
(* all of them unsigned in the code, is ever taken below zero.             *)
TypeOK ==
  /\ usage \in [Scopes -> Usage]
  /\ reserved_unbacked \in Nat /\ open_reservations \in Nat
  /\ peak_backing \in Nat /\ peak_committed \in Nat
  /\ queue \in Seq(Callers)
  /\ call \in [Callers -> CallStates]
  /\ reservation \in [Reservations -> Envelope]
  /\ ticket \in [Tickets -> TicketStates]

(* The promise of the domain (the assertion in UpdatePeaks): live and idle *)
(* backing and admitted-but-unused bytes together stay within the limit.   *)
WithinLimit == Committed <= Limit

InPhase(s, p) == {t \in Tickets : /\ ticket[t].phase = p
                                  /\ s \in {All, ticket[t].class}}

Capacities == [t \in Tickets |-> ticket[t].capacity]

Requests == [t \in Tickets |-> ticket[t].requested]

(* The usage record of scope s, computed from the tickets alone. *)
UsageOf(s) == [live_requested |-> SumOver(Requests, InPhase(s, "live")),
               live           |-> SumOver(Capacities, InPhase(s, "live")),
               idle           |-> SumOver(Capacities, InPhase(s, "idle")),
               pending        |-> SumOver(Capacities, InPhase(s, "pending")),
               backing_count  |-> Cardinality(InPhase(s, "live"))
                                    + Cardinality(InPhase(s, "idle")),
               pending_count  |-> Cardinality(InPhase(s, "pending"))]

(* The snapshot's usage records, in total and per class, say exactly what   *)
(* the tickets say, through moves between phases, classes and jobs.        *)
UsageMatchesTickets == \A s \in Scopes : usage[s] = UsageOf(s)

Owned(r) == {t \in Tickets : ticket[t].owner = r}

(* What an open envelope may still allocate. *)
Unspent == [r \in Reservations |->
              IF reservation[r].open
                THEN reservation[r].capacity - reservation[r].charged ELSE 0]

(* Bytes are conserved: an envelope is charged with its tickets, and the    *)
(* unbacked bytes are what open envelopes have left and pending tickets    *)
(* hold, whatever was transferred, shrunk, closed or released before.      *)
BytesAreConserved ==
  /\ \A r \in Reservations :
       reservation[r].charged = SumOver(Capacities, Owned(r))
  /\ \A r \in Reservations :
       reservation[r].open => reservation[r].charged <= reservation[r].capacity
  /\ reserved_unbacked = SumOver(Unspent, Reservations)
                           + SumOver(Capacities, InPhase(All, "pending"))
  /\ open_reservations = Cardinality({r \in Reservations : reservation[r].open})

(* The peaks cover what the snapshot shows now, and never pass the limit,   *)
(* although only Commit and Publish record them.                           *)
PeaksCoverUsage == /\ Backing <= peak_backing
                   /\ Committed <= peak_committed
                   /\ peak_backing <= peak_committed
                   /\ peak_committed <= Limit

(* No lost wakeup: a waiter never sleeps on a predicate that holds, which   *)
(* every operation that frees bytes or unblocks the head has to see to.    *)
NoLostWakeup ==
  \A c \in Callers : call[c].at = "asleep" /\ First(c) => ~Fits(call[c].want)

(* The waiters on the list are the callers inside Reserve, each once. *)
QueueHoldsWaiters ==
  /\ Distinct(queue)
  /\ Members(queue) = {c \in Callers : call[c].at # "outside"}

(* The waiting requests, oldest first. *)
Waiting == [i \in 1 .. Len(queue) |->
              [who |-> queue[i], amount |-> call[queue[i]].want]]

Abstract == INSTANCE FifoAdmission
              WITH Requesters <- Callers, Capacity <- Limit, Amounts <- Sizes,
                   granted <- Committed, waiting <- Waiting

(* The domain is a FIFO admission controller: allocations, commits, cache   *)
(* moves and transfers never grow what is committed, only an admission     *)
(* does, and no admission overtakes an older request.                      *)
ImplementsFifoAdmission == Abstract!Spec
===============================================================================
