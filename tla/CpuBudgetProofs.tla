---------------------------- MODULE CpuBudgetProofs ----------------------------
(***************************************************************************)
(* Proofs about CpuBudget, for any limit and any number of permits and     *)
(* worker reservations.                                                    *)
(***************************************************************************)
EXTENDS CpuBudget, CollectionsProofs

PermitStates == {"none", "caller", "claiming", "worker", "suspended"}

CallStates == {"outside", "asleep", "awake"}

(* The inductive invariant: types, and counters that match the holders. *)
IInv == TypeOK /\ CountersMatchHolders

Has(b, S) == IF b \in S THEN 1 ELSE 0

(* Slots of a reservation that no worker has claimed. *)
Left(e) == e.count - e.taken

LEMMA LimitIsNat == Limit \in Nat /\ Limit \in Int
  BY LimitAssumption

LEMMA LeftType ==
  ASSUME NEW e \in Reservation
  PROVE  /\ e.count \in Nat /\ e.taken \in Nat /\ e.taken <= e.count
         /\ Left(e) \in Nat /\ Left(e) \in 0 .. Limit
         /\ ~e.held => e.count = 0
  BY LimitIsNat DEF Left, Reservation

LEMMA PermitChange ==
  ASSUME permit \in [Permits -> PermitStates],
         NEW p \in Permits, NEW b \in PermitStates, NEW S,
         permit' = [permit EXCEPT ![p] = b]
  PROVE  /\ Cardinality(Holders(S)) \in Nat
         /\ Cardinality(Holders(S))' \in Nat
         /\ Cardinality(Holders(S))' =
              Cardinality(Holders(S)) - Has(permit[p], S) + Has(b, S)
<1> DEFINE T  == Holders(S)
           T2 == {q \in Permits : permit'[q] \in S}
<1>1. IsFiniteSet(T) /\ IsFiniteSet(T2)
  BY CpuAssumption, FS_Subset DEF Holders
<1>2. T \ {p} = T2 \ {p}
  BY DEF Holders
<1>3. (p \in T <=> permit[p] \in S) /\ (p \in T2 <=> b \in S)
  BY DEF Holders
<1>4. Holders(S)' = T2
  BY DEF Holders
<1> HIDE DEF T, T2
<1>5. /\ Cardinality(T) \in Nat /\ Cardinality(T2) \in Nat
      /\ Cardinality(T2) = Cardinality(T) - (IF p \in T THEN 1 ELSE 0)
                                          + (IF p \in T2 THEN 1 ELSE 0)
  BY <1>1, <1>2, CountMove
<1>6. Cardinality(Holders(S))' = Cardinality(T2)
  BY <1>4
<1>7. QED
  BY <1>3, <1>5, <1>6 DEF T, Has

(* The slots that the reservations keep for their workers. *)
LEMMA UnclaimedType ==
  /\ group \in [Groups -> Reservation] =>
       /\ \A g \in Groups : Unclaimed[g] \in Nat
       /\ SumOver(Unclaimed, Groups) \in Nat
  /\ group' \in [Groups -> Reservation] =>
       /\ \A g \in Groups : Unclaimed'[g] \in Nat
       /\ SumOver(Unclaimed, Groups)' \in Nat
<1>1. \A e \in Reservation : e.count - e.taken \in Nat
  BY LeftType DEF Left
<1>2. /\ group \in [Groups -> Reservation] => \A g \in Groups : Unclaimed[g] \in Nat
      /\ group' \in [Groups -> Reservation] => \A g \in Groups : Unclaimed'[g] \in Nat
  BY <1>1 DEF Unclaimed
<1> DEFINE f == Unclaimed
           f2 == Unclaimed'
<1> HIDE DEF f, f2
<1>3. (\A g \in Groups : f[g] \in Nat) => SumOver(f, Groups) \in Nat
  BY CpuAssumption, SumType
<1>4. (\A g \in Groups : f2[g] \in Nat) => SumOver(f2, Groups) \in Nat
  BY CpuAssumption, SumType
<1>5. QED
  BY <1>2, <1>3, <1>4 DEF f, f2

(* When one reservation changes, so does the total. *)
LEMMA GroupChange ==
  ASSUME group \in [Groups -> Reservation],
         NEW g \in Groups, NEW e \in Reservation,
         group' = [group EXCEPT ![g] = e]
  PROVE  /\ group' \in [Groups -> Reservation]
         /\ SumOver(Unclaimed, Groups) \in Nat
         /\ SumOver(Unclaimed, Groups)' \in Nat
         /\ SumOver(Unclaimed, Groups)' =
              SumOver(Unclaimed, Groups) - Left(group[g]) + Left(e)
<1> DEFINE f  == Unclaimed
           f2 == Unclaimed'
<1>1. /\ f[g] = Left(group[g]) /\ f2[g] = Left(e)
      /\ \A x \in Groups \ {g} : f2[x] = f[x]
  BY DEF Unclaimed, Left
<1>2. \A x \in Groups : f[x] \in Nat /\ f2[x] \in Nat
  BY UnclaimedType
<1>3. SumOver(f, Groups) \in Nat /\ SumOver(f2, Groups) \in Nat
  BY <1>2, CpuAssumption, SumType
<1> HIDE DEF f, f2
<1>4. SumOver(f2, Groups) = SumOver(f, Groups) - f[g] + f2[g]
  BY <1>1, <1>2, CpuAssumption, SumUpdate
<1>5. QED
  BY <1>1, <1>3, <1>4 DEF f, f2

LEMMA Parts ==
  ASSUME IInv
  PROVE  /\ active \in Nat /\ reserved \in Nat /\ suspended \in Nat
         /\ Protected \in Nat
         /\ peak_active \in Nat /\ peak_protected \in Nat
         /\ queue \in Seq(Permits)
         /\ call \in [Permits -> CallStates]
         /\ permit \in [Permits -> PermitStates]
         /\ group \in [Groups -> Reservation]
         /\ active = Cardinality(Holders({"caller", "worker"}))
         /\ suspended = Cardinality(Holders({"suspended"}))
         /\ reserved = SumOver(Unclaimed, Groups) + Cardinality(Holders({"claiming"}))
  BY DEF IInv, TypeOK, CountersMatchHolders, PermitStates, CallStates, Protected

(* The counters after the permit of one thread went from b0 to b and the    *)
(* reservations gained d unclaimed slots.                                  *)
CountersFollow(b0, b, d) ==
  /\ active' = active - Has(b0, {"caller", "worker"}) + Has(b, {"caller", "worker"})
  /\ suspended' = suspended - Has(b0, {"suspended"}) + Has(b, {"suspended"})
  /\ reserved' = reserved + d - Has(b0, {"claiming"}) + Has(b, {"claiming"})

LEMMA PermitStep ==
  ASSUME IInv, NEW p \in Permits, NEW b \in PermitStates, NEW d \in Int,
         permit' = [permit EXCEPT ![p] = b],
         group' \in [Groups -> Reservation],
         SumOver(Unclaimed, Groups)' = SumOver(Unclaimed, Groups) + d,
         CountersFollow(permit[p], b, d),
         queue' \in Seq(Permits), call' \in [Permits -> CallStates],
         peak_active' \in Nat, peak_protected' \in Nat
  PROVE  IInv'
<1>1. permit \in [Permits -> PermitStates]
  BY Parts
<1>2. \A S : /\ Cardinality(Holders(S)) \in Nat
             /\ Cardinality(Holders(S))' \in Nat
             /\ Cardinality(Holders(S))' =
                  Cardinality(Holders(S)) - Has(permit[p], S) + Has(b, S)
  BY <1>1, PermitChange
<1>3. SumOver(Unclaimed, Groups) \in Nat /\ SumOver(Unclaimed, Groups)' \in Nat
  BY Parts, UnclaimedType
<1>4. /\ active' = Cardinality(Holders({"caller", "worker"}))' /\ active' \in Nat
  <2>1. active = Cardinality(Holders({"caller", "worker"}))
    BY Parts
  <2>2. QED
    BY <1>2, <2>1 DEF CountersFollow
<1>5. /\ suspended' = Cardinality(Holders({"suspended"}))' /\ suspended' \in Nat
  <2>1. suspended = Cardinality(Holders({"suspended"}))
    BY Parts
  <2>2. QED
    BY <1>2, <2>1 DEF CountersFollow
<1>6. /\ reserved' = SumOver(Unclaimed, Groups)' + Cardinality(Holders({"claiming"}))'
      /\ reserved' \in Nat
  <2> DEFINE C  == Cardinality(Holders({"claiming"}))
             C2 == Cardinality(Holders({"claiming"}))'
             U  == SumOver(Unclaimed, Groups)
             U2 == SumOver(Unclaimed, Groups)'
             h  == Has(permit[p], {"claiming"})
             h2 == Has(b, {"claiming"})
  <2>1. /\ reserved = U + C /\ reserved' = reserved + d - h + h2
        /\ U2 = U + d /\ C2 = C - h + h2
        /\ U \in Nat /\ U2 \in Nat /\ C \in Nat /\ C2 \in Nat
    BY <1>2, <1>3, Parts DEF CountersFollow
  <2>2. h \in Int /\ h2 \in Int
    BY DEF Has
  <2> HIDE DEF C, C2, U, U2, h, h2
  <2>3. reserved' = U2 + C2 /\ reserved' \in Nat
    BY <2>1, <2>2
  <2>4. QED
    BY <2>3 DEF U2, C2
<1>7. CountersMatchHolders'
  BY <1>4, <1>5, <1>6 DEF CountersMatchHolders
<1>8. permit' \in [Permits -> PermitStates]
  BY <1>1
<1>9. TypeOK'
  BY <1>4, <1>5, <1>6, <1>8 DEF TypeOK, PermitStates, CallStates
<1>10. QED
  BY <1>7, <1>9 DEF IInv

(* Only reservations change, by d unclaimed slots. *)
LEMMA GroupStep ==
  ASSUME IInv, NEW d \in Int, permit' = permit,
         group' \in [Groups -> Reservation],
         SumOver(Unclaimed, Groups)' = SumOver(Unclaimed, Groups) + d,
         UNCHANGED <<active, suspended>>, reserved' = reserved + d,
         queue' \in Seq(Permits), call' \in [Permits -> CallStates],
         peak_active' \in Nat, peak_protected' \in Nat
  PROVE  IInv'
<1>1. \A S : Holders(S)' = Holders(S)
  BY DEF Holders
<1>2. SumOver(Unclaimed, Groups) \in Nat /\ SumOver(Unclaimed, Groups)' \in Nat
  BY Parts, UnclaimedType
<1>3. Cardinality(Holders({"claiming"})) \in Nat
  BY CpuAssumption, FS_Subset, FS_CardinalityType DEF Holders
<1>4. /\ reserved' = SumOver(Unclaimed, Groups)' + Cardinality(Holders({"claiming"}))
      /\ reserved' \in Nat
  <2>1. reserved = SumOver(Unclaimed, Groups) + Cardinality(Holders({"claiming"}))
    BY Parts
  <2>2. QED
    BY <1>2, <1>3, <2>1
<1>5. CountersMatchHolders'
  BY <1>1, <1>4, Parts DEF CountersMatchHolders
<1>6. TypeOK'
  BY <1>4, Parts DEF TypeOK, PermitStates, CallStates
<1>7. QED
  BY <1>5, <1>6 DEF IInv

LEMMA NotifyAllType ==
  ASSUME NEW f \in [Permits -> CallStates]
  PROVE  /\ NotifyAll(f) \in [Permits -> CallStates]
         /\ \A p \in Permits : /\ NotifyAll(f)[p] # "asleep"
                               /\ NotifyAll(f)[p] = "outside" <=> f[p] = "outside"
  BY DEF NotifyAll, CallStates

LEMMA LeaveType ==
  ASSUME IInv, NEW p \in Permits, Leave(p)
  PROVE  /\ queue' \in Seq(Permits) /\ call' \in [Permits -> CallStates]
<1>1. queue \in Seq(Permits) /\ call \in [Permits -> CallStates]
  BY Parts
<1>2. [call EXCEPT ![p] = "outside"] \in [Permits -> CallStates]
  BY <1>1 DEF CallStates
<1>3. queue' \in Seq(Permits)
  BY <1>1, WithoutType DEF Leave
<1>4. QED
  BY <1>2, <1>3, NotifyAllType DEF Leave

LEMMA PeaksType ==
  ASSUME IInv, UpdatePeaks, active' \in Int, reserved' \in Int, suspended' \in Int
  PROVE  /\ peak_active' \in Nat /\ peak_protected' \in Nat
<1>1. Protected' \in Int
  BY DEF Protected
<1>2. peak_active \in Nat /\ peak_protected \in Nat
  BY Parts
<1>3. QED
  BY <1>1, <1>2 DEF UpdatePeaks, Larger

(* Nothing but the waiters changes. *)
LEMMA CountersSame ==
  ASSUME IInv, queue' \in Seq(Permits), call' \in [Permits -> CallStates],
         UNCHANGED <<active, reserved, suspended, peak_active, peak_protected,
                     permit, group>>
  PROVE  IInv'
<1>1. Unclaimed' = Unclaimed
  BY DEF Unclaimed
<1>2. SumOver(Unclaimed, Groups) \in Nat /\ reserved \in Nat
  BY UnclaimedType, Parts
<1>3. /\ SumOver(Unclaimed, Groups)' = SumOver(Unclaimed, Groups) + 0
      /\ reserved' = reserved + 0
  BY <1>1, <1>2
<1>4. QED
  BY <1>3, Parts, GroupStep

-------------------------------------------------------------------------------
(* The unclaimed slots do not change. *)
LEMMA UnclaimedSame ==
  ASSUME IInv, group' = group
  PROVE  SumOver(Unclaimed, Groups)' = SumOver(Unclaimed, Groups) + 0
<1>1. Unclaimed' = Unclaimed
  BY DEF Unclaimed
<1>2. SumOver(Unclaimed, Groups) \in Nat
  BY Parts, UnclaimedType
<1>3. QED
  BY <1>1, <1>2

LEMMA AdmitStep ==
  ASSUME IInv, NEW p \in Permits, permit[p] = "none", Admit,
         permit' = [permit EXCEPT ![p] = "caller"], group' = group,
         queue' \in Seq(Permits), call' \in [Permits -> CallStates]
  PROVE  IInv'
<1>1. peak_active' \in Nat /\ peak_protected' \in Nat
  BY Parts, PeaksType DEF Admit
<1>2. CountersFollow(permit[p], "caller", 0)
  BY Parts DEF CountersFollow, Has, Admit
<1>3. "caller" \in PermitStates /\ group' \in [Groups -> Reservation]
  BY Parts DEF PermitStates
<1>4. SumOver(Unclaimed, Groups)' = SumOver(Unclaimed, Groups) + 0
  BY UnclaimedSame
<1>5. 0 \in Int
  OBVIOUS
<1>6. QED
  BY <1>1, <1>2, <1>3, <1>4, <1>5, PermitStep

LEMMA AcquireStep ==
  ASSUME IInv, QueueHoldsWaiters, NEW p \in Permits,
         AcquireAtOnce(p) \/ Enqueue(p) \/ Wake(p) \/ SpuriousWake(p) \/ Cancel(p)
  PROVE  IInv'
<1>1. CASE AcquireAtOnce(p)
  BY <1>1, Parts, AdmitStep DEF AcquireAtOnce
<1>2. CASE Enqueue(p)
  <2>1. queue' \in Seq(Permits) /\ call' \in [Permits -> CallStates]
    BY <1>2, Parts DEF Enqueue, CallStates
  <2>2. QED
    BY <1>2, <2>1, CountersSame DEF Enqueue
<1>3. CASE Wake(p)
  <2>1. CASE First(p) /\ Protected < Limit
    <3>1. Admit /\ Leave(p) /\ permit' = [permit EXCEPT ![p] = "caller"] /\ group' = group
      BY <1>3, <2>1 DEF Wake
    <3>2. permit[p] = "none"
      BY <1>3, Parts DEF Wake, QueueHoldsWaiters
    <3>3. QED
      BY <3>1, <3>2, LeaveType, AdmitStep
  <2>2. CASE ~(First(p) /\ Protected < Limit)
    <3>1. queue' \in Seq(Permits) /\ call' \in [Permits -> CallStates]
      BY <1>3, <2>2, Parts DEF Wake, CallStates
    <3>2. QED
      BY <1>3, <2>2, <3>1, CountersSame DEF Wake
  <2>3. QED
    BY <2>1, <2>2
<1>4. CASE SpuriousWake(p)
  <2>1. queue' \in Seq(Permits) /\ call' \in [Permits -> CallStates]
    BY <1>4, Parts DEF SpuriousWake, CallStates
  <2>2. QED
    BY <1>4, <2>1, CountersSame DEF SpuriousWake
<1>5. CASE Cancel(p)
  BY <1>5, LeaveType, CountersSame DEF Cancel
<1>6. QED
  BY <1>1, <1>2, <1>3, <1>4, <1>5

LEMMA PermitActionStep ==
  ASSUME IInv, NEW p \in Permits,
         SuspendWorker(p) \/ ResumeWorker(p) \/ ResetPermit(p) \/ FinishTake(p)
  PROVE  IInv'
<1>1. PICK b \in PermitStates : permit' = [permit EXCEPT ![p] = b]
                                /\ CountersFollow(permit[p], b, 0)
  <2>1. CASE SuspendWorker(p)
    <3>1. CountersFollow(permit[p], "suspended", 0)
      BY <2>1, Parts DEF SuspendWorker, CountersFollow, Has
    <3>2. QED
      BY <2>1, <3>1 DEF SuspendWorker, PermitStates
  <2>2. CASE ResumeWorker(p)
    <3>1. CountersFollow(permit[p], "worker", 0)
      BY <2>2, Parts DEF ResumeWorker, CountersFollow, Has
    <3>2. QED
      BY <2>2, <3>1 DEF ResumeWorker, PermitStates
  <2>3. CASE ResetPermit(p)
    <3>1. CountersFollow(permit[p], "none", 0)
      BY <2>3, Parts DEF ResetPermit, CountersFollow, Has
    <3>2. QED
      BY <2>3, <3>1 DEF ResetPermit, PermitStates
  <2>4. CASE FinishTake(p)
    <3>1. CountersFollow(permit[p], "worker", 0)
      BY <2>4, Parts DEF FinishTake, CountersFollow, Has
    <3>2. QED
      BY <2>4, <3>1 DEF FinishTake, PermitStates
  <2>5. QED
    BY <2>1, <2>2, <2>3, <2>4
<1>2. peak_active' \in Nat /\ peak_protected' \in Nat
  <2>1. CASE SuspendWorker(p) \/ ResetPermit(p)
    BY <2>1, Parts DEF SuspendWorker, ResetPermit
  <2>2. CASE ResumeWorker(p) \/ FinishTake(p)
    <3>1. active' \in Int /\ reserved' \in Int /\ suspended' \in Int
      BY <2>2, Parts DEF ResumeWorker, FinishTake
    <3>2. UpdatePeaks
      BY <2>2 DEF ResumeWorker, FinishTake
    <3>3. QED
      BY <3>1, <3>2, PeaksType
  <2>3. QED
    BY <2>1, <2>2
<1>3. /\ queue' \in Seq(Permits) /\ call' \in [Permits -> CallStates]
      /\ group' = group /\ group' \in [Groups -> Reservation]
  BY Parts, NotifyAllType DEF SuspendWorker, ResumeWorker, ResetPermit, FinishTake
<1>4. SumOver(Unclaimed, Groups)' = SumOver(Unclaimed, Groups) + 0
  BY <1>3, UnclaimedSame
<1>5. 0 \in Int
  OBVIOUS
<1>6. QED
  BY <1>1, <1>2, <1>3, <1>4, <1>5, PermitStep

LEMMA TryReserveStep ==
  ASSUME IInv, NEW g \in Groups, NEW n \in 1 .. Limit,
         Protected <= Limit, TryReserveWorkers(g, n)
  PROVE  IInv'
<1> DEFINE free  == Limit - Protected
           count == IF n < free THEN n ELSE free
           e == [held |-> TRUE, whole |-> TRUE, count |-> count, taken |-> 0]
<1>1. count \in Nat /\ count \in 0 .. Limit
  BY LimitIsNat, Parts
<1>2. e \in Reservation /\ Left(e) = count
  BY <1>1, LimitIsNat DEF Reservation, Left
<1>3. group' = [group EXCEPT ![g] = e]
  BY DEF TryReserveWorkers
<1> HIDE DEF e
<1>4. group[g] \in Reservation /\ ~group[g].held /\ group \in [Groups -> Reservation]
  BY Parts DEF TryReserveWorkers
<1>5. Left(group[g]) = 0
  BY <1>4, LeftType DEF Left
<1>6. /\ SumOver(Unclaimed, Groups)' = SumOver(Unclaimed, Groups) + count
      /\ group' \in [Groups -> Reservation]
  <2>1. /\ group' \in [Groups -> Reservation]
        /\ SumOver(Unclaimed, Groups) \in Nat
        /\ SumOver(Unclaimed, Groups)' =
             SumOver(Unclaimed, Groups) - Left(group[g]) + Left(e)
    BY <1>2, <1>3, <1>4, GroupChange
  <2> HIDE DEF count
  <2>2. QED
    BY <1>1, <1>2, <1>5, <2>1
<1>7. reserved' = reserved + count /\ UNCHANGED <<active, suspended>> /\ UpdatePeaks
  BY DEF TryReserveWorkers
<1> HIDE DEF count
<1>8. peak_active' \in Nat /\ peak_protected' \in Nat
  BY <1>1, <1>7, Parts, PeaksType
<1>9. permit' = permit /\ queue' \in Seq(Permits) /\ call' \in [Permits -> CallStates]
  BY Parts DEF TryReserveWorkers
<1>10. QED
  BY <1>1, <1>6, <1>7, <1>8, <1>9, GroupStep

(* A reservation gives n of its unclaimed slots back. *)
LEMMA GiveBackStep ==
  ASSUME IInv, NEW g \in Groups, NEW e \in Reservation,
         group' = [group EXCEPT ![g] = e],
         reserved' = reserved - (Left(group[g]) - Left(e)),
         UNCHANGED <<active, suspended, peak_active, peak_protected, queue, permit>>,
         call' = NotifyAll(call)
  PROVE  IInv'
<1> DEFINE d == Left(e) - Left(group[g])
<1>1. group \in [Groups -> Reservation] /\ group[g] \in Reservation
  BY Parts
<1>2. Left(e) \in Nat /\ Left(group[g]) \in Nat
  BY <1>1, LeftType
<1>3. /\ SumOver(Unclaimed, Groups)' = SumOver(Unclaimed, Groups) + d
      /\ group' \in [Groups -> Reservation]
  <2>1. /\ group' \in [Groups -> Reservation]
        /\ SumOver(Unclaimed, Groups) \in Nat
        /\ SumOver(Unclaimed, Groups)' =
             SumOver(Unclaimed, Groups) - Left(group[g]) + Left(e)
    BY <1>1, GroupChange
  <2>2. QED
    BY <1>2, <2>1
<1>4. d \in Int /\ reserved' = reserved + d
  BY <1>2, Parts
<1> HIDE DEF d
<1>5. QED
  BY <1>3, <1>4, Parts, NotifyAllType, GroupStep

LEMMA EmptyType == Empty \in Reservation /\ Left(Empty) = 0
  BY LimitIsNat DEF Empty, Reservation, Left

LEMMA KeepAtMostStep ==
  ASSUME IInv, NEW g \in Groups, NEW n \in 0 .. Limit, KeepAtMost(g, n)
  PROVE  IInv'
<1> DEFINE e == IF n = 0 THEN Empty ELSE [group[g] EXCEPT !.count = n]
<1>1. group[g] \in Reservation /\ group[g].held /\ group[g].taken = 0 /\ n < group[g].count
  BY Parts DEF KeepAtMost
<1>2. e \in Reservation /\ Left(e) = n
  <2>1. CASE n = 0
    BY <2>1, EmptyType
  <2>2. CASE n # 0
    <3>1. [group[g] EXCEPT !.count = n] \in Reservation
      BY <1>1, LimitIsNat DEF Reservation
    <3>2. Left([group[g] EXCEPT !.count = n]) = n
      BY <1>1, LimitIsNat DEF Reservation, Left
    <3>3. QED
      BY <2>2, <3>1, <3>2
  <2>3. QED
    BY <2>1, <2>2
<1>3. Left(group[g]) = group[g].count
  BY <1>1, LeftType DEF Left
<1>4. group' = [group EXCEPT ![g] = e]
  BY DEF KeepAtMost
<1> HIDE DEF e
<1>5. reserved' = reserved - (Left(group[g]) - Left(e))
  BY <1>2, <1>3 DEF KeepAtMost
<1>6. /\ UNCHANGED <<active, suspended, peak_active, peak_protected, queue, permit>>
      /\ call' = NotifyAll(call)
  BY DEF KeepAtMost
<1>7. QED
  BY <1>2, <1>4, <1>5, <1>6, GiveBackStep

LEMMA ResetGroupStep ==
  ASSUME IInv, NEW g \in Groups, ResetGroup(g)
  PROVE  IInv'
<1>1. group[g] \in Reservation
  BY Parts
<1>2. Left(group[g]) \in Nat /\ Left(group[g]) = group[g].count - group[g].taken
  BY <1>1, LeftType DEF Left
<1>3. reserved' = reserved - (Left(group[g]) - Left(Empty))
  BY <1>2, EmptyType DEF ResetGroup
<1>4. /\ group' = [group EXCEPT ![g] = Empty]
      /\ UNCHANGED <<active, suspended, peak_active, peak_protected, queue, permit>>
      /\ call' = NotifyAll(call)
  BY DEF ResetGroup
<1>5. QED
  BY <1>3, <1>4, EmptyType, GiveBackStep

LEMMA ClaimStep ==
  ASSUME IInv, NEW g \in Groups, NEW p \in Permits, Claim(g, p)
  PROVE  IInv'
<1> DEFINE e == [group[g] EXCEPT !.taken = group[g].taken + 1]
<1>1. group[g] \in Reservation /\ group[g].taken < group[g].count
      /\ group \in [Groups -> Reservation]
  BY Parts DEF Claim
<1>2. e \in Reservation /\ Left(e) = Left(group[g]) - 1
  BY <1>1, LimitIsNat DEF Reservation, Left
<1>3. group' = [group EXCEPT ![g] = e]
  BY DEF Claim
<1> HIDE DEF e
<1>4. Left(group[g]) \in Nat
  BY <1>1, LeftType
<1>5. /\ SumOver(Unclaimed, Groups)' = SumOver(Unclaimed, Groups) + (-1)
      /\ group' \in [Groups -> Reservation]
  <2>1. /\ group' \in [Groups -> Reservation]
        /\ SumOver(Unclaimed, Groups) \in Nat
        /\ SumOver(Unclaimed, Groups)' =
             SumOver(Unclaimed, Groups) - Left(group[g]) + Left(e)
    BY <1>1, <1>2, <1>3, GroupChange
  <2>2. QED
    BY <1>2, <1>4, <2>1
<1>6. CountersFollow(permit[p], "claiming", -1)
  BY Parts DEF Claim, CountersFollow, Has
<1>7. /\ permit' = [permit EXCEPT ![p] = "claiming"] /\ "claiming" \in PermitStates
      /\ queue' \in Seq(Permits) /\ call' \in [Permits -> CallStates]
      /\ peak_active' \in Nat /\ peak_protected' \in Nat
  BY Parts DEF Claim, PermitStates
<1>8. -1 \in Int
  OBVIOUS
<1>9. QED
  BY <1>5, <1>6, <1>7, <1>8, PermitStep

LEMMA SplitOffStep ==
  ASSUME IInv, NEW g \in Groups, NEW h \in Groups, NEW n \in 1 .. Limit, SplitOff(g, h, n)
  PROVE  IInv'
<1> DEFINE e == [group[g] EXCEPT !.count = group[g].count - n]
           d == [held |-> TRUE, whole |-> FALSE, count |-> n, taken |-> 0]
           f == Unclaimed
           m == [Unclaimed EXCEPT ![g] = Left(e)]
           f2 == Unclaimed'
<1>1. /\ group \in [Groups -> Reservation] /\ g # h
      /\ group[g] \in Reservation /\ group[g].held /\ group[g].taken = 0
      /\ n <= group[g].count /\ group[h] \in Reservation /\ ~group[h].held
      /\ n \in Nat /\ n \in 0 .. Limit
  BY Parts, LimitIsNat DEF SplitOff
<1>2. e \in Reservation /\ Left(e) = Left(group[g]) - n
  <2>1. group[g].count - n \in 0 .. Limit
    BY <1>1, LimitIsNat DEF Reservation
  <2>2. e \in Reservation
    BY <1>1, <2>1, LimitIsNat DEF Reservation
  <2>3. QED
    BY <1>1, <2>2, LimitIsNat DEF Reservation, Left
<1>3. d \in Reservation /\ Left(d) = n /\ Left(group[h]) = 0
  <2>1. d \in Reservation /\ Left(d) = n
    BY <1>1, LimitIsNat DEF Reservation, Left
  <2>2. QED
    BY <1>1, <2>1, LeftType DEF Left
<1>4. group' = [group EXCEPT ![g] = e, ![h] = d]
  BY <1>1 DEF SplitOff
<1> HIDE DEF e, d
<1>5. group' \in [Groups -> Reservation] /\ group'[g] = e /\ group'[h] = d
      /\ \A x \in Groups \ {g, h} : group'[x] = group[x]
  BY <1>1, <1>2, <1>3, <1>4
<1>6. /\ f[g] = Left(group[g]) /\ f[h] = 0 /\ m[g] = Left(e) /\ m[h] = 0
      /\ f2[g] = Left(e) /\ f2[h] = n
      /\ \A x \in Groups \ {g} : m[x] = f[x]
      /\ \A x \in Groups \ {g, h} : f2[x] = f[x]
  BY <1>1, <1>3, <1>5 DEF Unclaimed, Left
<1>7. /\ Left(group[g]) \in 0 .. Limit /\ Left(e) \in 0 .. Limit
      /\ 0 \in 0 .. Limit /\ Left(group[g]) \in Nat /\ Left(e) \in Nat
  BY <1>1, <1>2, LeftType, LimitIsNat
<1>a. \A x \in Groups : f[x] \in Nat /\ f2[x] \in Nat
  BY <1>1, <1>5, UnclaimedType
<1>8. SumOver(f, Groups) \in Nat /\ SumOver(f2, Groups) \in Nat /\ IsFiniteSet(Groups)
  BY <1>1, <1>5, CpuAssumption, UnclaimedType
<1> HIDE DEF f, m, f2
<1>9. SumOver(m, Groups) = SumOver(f, Groups) - f[g] + m[g]
  <2>1. \A x \in Groups : f[x] \in Nat /\ m[x] \in Nat
    BY <1>6, <1>7, <1>a
  <2>2. QED
    BY <1>6, <1>8, <2>1, SumUpdate
<1>10. SumOver(f2, Groups) = SumOver(m, Groups) - m[h] + f2[h]
  <2>1. \A x \in Groups : m[x] \in Nat /\ f2[x] \in Nat
    BY <1>6, <1>7, <1>a
  <2>2. \A x \in Groups \ {h} : f2[x] = m[x]
    BY <1>6
  <2>3. QED
    BY <1>8, <2>1, <2>2, SumUpdate
<1>11. SumOver(f2, Groups) = SumOver(f, Groups) + 0
  BY <1>1, <1>2, <1>6, <1>7, <1>8, <1>9, <1>10
<1>12. SumOver(Unclaimed, Groups)' = SumOver(Unclaimed, Groups) + 0
  BY <1>11 DEF f, f2
<1>13. reserved' = reserved + 0
  BY Parts DEF SplitOff
<1>14. /\ UNCHANGED <<active, suspended, permit>>
       /\ queue' \in Seq(Permits) /\ call' \in [Permits -> CallStates]
       /\ peak_active' \in Nat /\ peak_protected' \in Nat
  BY Parts DEF SplitOff
<1>15. QED
  BY <1>5, <1>12, <1>13, <1>14, GroupStep

-------------------------------------------------------------------------------
LEMMA InitIInv == Init => IInv
<1> SUFFICES ASSUME Init PROVE IInv
  OBVIOUS
<1>1. \A S : "none" \notin S => Cardinality(Holders(S)) = 0
  <2>1. \A S : "none" \notin S => Holders(S) = {}
    BY DEF Init, Holders
  <2>2. QED
    BY <2>1, FS_EmptySet
<1>2. Empty \in Reservation /\ group \in [Groups -> Reservation]
  BY EmptyType DEF Init
<1>3. SumOver(Unclaimed, Groups) = 0
  <2>1. \A g \in Groups : Unclaimed[g] = 0
    BY DEF Init, Unclaimed, Empty
  <2>2. QED
    BY <2>1, CpuAssumption, SumZero
<1>4. CountersMatchHolders
  BY <1>1, <1>3 DEF Init, CountersMatchHolders
<1>5. TypeOK
  BY <1>2 DEF Init, TypeOK
<1>6. QED
  BY <1>4, <1>5 DEF IInv

(* Slots are only taken when they are free, and only threads without a      *)
(* permit queue: both are needed for the counters to be inductive.         *)
LEMMA NextIInv ==
  IInv /\ QueueHoldsWaiters /\ WithinLimit /\ [Next]_vars => IInv'
<1> SUFFICES ASSUME IInv, QueueHoldsWaiters, WithinLimit, [Next]_vars PROVE IInv'
  OBVIOUS
<1>1. CASE Admission
  BY <1>1, AcquireStep, TryReserveStep DEF Admission, WithinLimit
<1>2. CASE Holding
  BY <1>2, PermitActionStep, KeepAtMostStep, ClaimStep, ResetGroupStep, SplitOffStep
     DEF Holding
<1>3. CASE UNCHANGED vars
  <2>1. queue' \in Seq(Permits) /\ call' \in [Permits -> CallStates]
    BY <1>3, Parts DEF vars
  <2>2. QED
    BY <1>3, <2>1, CountersSame DEF vars
<1>4. QED
  BY <1>1, <1>2, <1>3 DEF Next

-------------------------------------------------------------------------------
(* The queue *)

LEMMA LeaveEffect ==
  ASSUME IInv, QueueHoldsWaiters, NEW p \in Permits, Leave(p),
         \A x \in Permits \ {p} : permit'[x] = permit[x]
  PROVE  /\ QueueHoldsWaiters'
         /\ \A x \in Permits : call'[x] # "asleep"
<1> DEFINE f == [call EXCEPT ![p] = "outside"]
<1>1. f \in [Permits -> CallStates] /\ f[p] = "outside"
      /\ \A x \in Permits \ {p} : f[x] = call[x]
  BY Parts DEF CallStates
<1>2. call' = NotifyAll(f)
  BY DEF Leave
<1> HIDE DEF f
<1>3. PICK i \in 1 .. Len(queue) : queue[i] = p /\ queue' = Without(queue, i)
  BY DEF Leave
<1>4. queue \in Seq(Permits)
  BY Parts
<1>5. Distinct(queue') /\ Members(queue') = Members(queue) \ {p}
  BY <1>3, <1>4, Unlinked DEF QueueHoldsWaiters
<1>6. \A x \in Permits : call'[x] # "outside" <=> (call[x] # "outside" /\ x # p)
  BY <1>1, <1>2, NotifyAllType
<1>7. \A x \in Members(queue') : permit'[x] = "none"
  BY <1>5 DEF QueueHoldsWaiters
<1>8. QueueHoldsWaiters'
  BY <1>5, <1>6, <1>7 DEF QueueHoldsWaiters
<1>9. QED
  BY <1>1, <1>2, <1>8, NotifyAllType

(* Using and returning slots leaves the queue, and the waiters' lack of a   *)
(* permit, as they are.                                                    *)
LEMMA HoldingEffect ==
  ASSUME IInv, QueueHoldsWaiters, Holding
  PROVE  /\ queue' = queue
         /\ call' = call \/ call' = NotifyAll(call)
         /\ \A x \in Permits : call'[x] = "outside" <=> call[x] = "outside"
         /\ \A x \in Members(queue) : permit'[x] = permit[x]
<1>1. call \in [Permits -> CallStates] /\ permit \in [Permits -> PermitStates]
  BY Parts
<1>2. queue' = queue /\ (call' = call \/ call' = NotifyAll(call))
  BY DEF Holding, SuspendWorker, ResumeWorker, ResetPermit, FinishTake,
         KeepAtMost, Claim, ResetGroup, SplitOff
<1>3. \/ permit' = permit
      \/ \E p \in Permits, b \in PermitStates :
           /\ permit[p] # "none" \/ call[p] = "outside"
           /\ permit' = [permit EXCEPT ![p] = b]
  BY DEF Holding, SuspendWorker, ResumeWorker, ResetPermit, FinishTake,
         KeepAtMost, Claim, ResetGroup, SplitOff, PermitStates
<1>4. \A x \in Members(queue) : permit'[x] = permit[x]
  BY <1>1, <1>3 DEF QueueHoldsWaiters
<1>5. QED
  BY <1>1, <1>2, <1>4, NotifyAllType

LEMMA EnqueueEffect ==
  ASSUME IInv, QueueHoldsWaiters, NEW p \in Permits, Enqueue(p)
  PROVE  /\ QueueHoldsWaiters' /\ p \notin Members(queue)
         /\ call'[p] = "asleep" /\ \A x \in Permits \ {p} : call'[x] = call[x]
<1>1. call \in [Permits -> CallStates]
  BY Parts
<1>2. call'[p] = "asleep" /\ \A x \in Permits \ {p} : call'[x] = call[x]
  BY <1>1 DEF Enqueue
<1>3. p \notin Members(queue)
  BY DEF Enqueue, QueueHoldsWaiters
<1>4. Distinct(queue') /\ Members(queue') = Members(queue) \cup {p}
  BY <1>3, Appended, Parts DEF Enqueue, QueueHoldsWaiters
<1>5. QueueHoldsWaiters'
  BY <1>2, <1>4 DEF QueueHoldsWaiters, Enqueue
<1>6. QED
  BY <1>2, <1>3, <1>5

(* A waiter leaves, falls asleep on its false predicate, or wakes. *)
LEMMA WaiterStep ==
  ASSUME IInv, QueueHoldsWaiters, NEW p \in Permits,
         Wake(p) \/ SpuriousWake(p) \/ Cancel(p)
  PROVE  \/ /\ Leave(p)
            /\ \/ /\ Admit /\ First(p) /\ Protected < Limit
                  /\ permit' = [permit EXCEPT ![p] = "caller"]
               \/ UNCHANGED <<active, reserved, suspended, peak_active,
                              peak_protected, permit>>
            /\ \A x \in Permits \ {p} : permit'[x] = permit[x]
         \/ /\ call[p] # "outside" /\ queue' = queue
            /\ UNCHANGED <<active, reserved, suspended, peak_active,
                           peak_protected, permit>>
            /\ \A x \in Permits \ {p} : call'[x] = call[x]
            /\ \/ call'[p] = "awake"
               \/ call'[p] = "asleep" /\ ~(First(p) /\ Protected < Limit)
<1>1. call \in [Permits -> CallStates] /\ permit \in [Permits -> PermitStates]
  BY Parts
<1>2. CASE Wake(p)
  BY <1>1, <1>2 DEF Wake
<1>3. CASE SpuriousWake(p)
  BY <1>1, <1>3 DEF SpuriousWake
<1>4. CASE Cancel(p)
  BY <1>1, <1>4 DEF Cancel
<1>5. QED
  BY <1>2, <1>3, <1>4

LEMMA QueueStep == IInv /\ QueueHoldsWaiters /\ [Next]_vars => QueueHoldsWaiters'
<1> SUFFICES ASSUME IInv, QueueHoldsWaiters, [Next]_vars PROVE QueueHoldsWaiters'
  OBVIOUS
<1>1. CASE Holding
  BY <1>1, HoldingEffect DEF QueueHoldsWaiters
<1>2. CASE UNCHANGED <<queue, call, permit>>
  BY <1>2 DEF QueueHoldsWaiters
<1>3. ASSUME NEW p \in Permits, AcquireAtOnce(p) PROVE QueueHoldsWaiters'
  <2>1. p \notin Members(queue) /\ queue' = queue /\ call' = call
    BY <1>3 DEF AcquireAtOnce, QueueHoldsWaiters
  <2>2. \A x \in Members(queue) : permit'[x] = permit[x]
    BY <1>3, <2>1, Parts DEF AcquireAtOnce, QueueHoldsWaiters
  <2>3. QED
    BY <2>1, <2>2 DEF QueueHoldsWaiters
<1>4. ASSUME NEW p \in Permits, Wake(p) \/ SpuriousWake(p) \/ Cancel(p)
      PROVE  QueueHoldsWaiters'
  <2>1. CASE Leave(p) /\ \A x \in Permits \ {p} : permit'[x] = permit[x]
    BY <2>1, LeaveEffect
  <2>2. CASE /\ call[p] # "outside" /\ queue' = queue /\ permit' = permit
             /\ \A x \in Permits \ {p} : call'[x] = call[x]
             /\ call'[p] # "outside"
    BY <2>2 DEF QueueHoldsWaiters
  <2>3. QED
    BY <1>4, <2>1, <2>2, WaiterStep
<1>5. QED
  BY <1>1, <1>2, <1>3, <1>4, EnqueueEffect
     DEF Next, Admission, TryReserveWorkers, vars

-------------------------------------------------------------------------------
(* The counters *)

(* Using and returning slots never protects more of them, and whoever gives *)
(* some back notifies.                                                     *)
Shrinks == /\ Protected' <= Protected
           /\ \/ Protected' = Protected /\ call' = call
              \/ call' = NotifyAll(call)
           /\ \/ active' <= active /\ UNCHANGED <<peak_active, peak_protected>>
              \/ UpdatePeaks

LEMMA PermitShrinks ==
  ASSUME IInv, NEW p \in Permits,
         SuspendWorker(p) \/ ResumeWorker(p) \/ ResetPermit(p) \/ FinishTake(p)
  PROVE  Shrinks
<1>1. active \in Nat /\ reserved \in Nat /\ suspended \in Nat
  BY Parts
<1>2. CASE SuspendWorker(p)
  BY <1>1, <1>2 DEF SuspendWorker, Shrinks, Protected
<1>3. CASE ResumeWorker(p)
  BY <1>1, <1>3 DEF ResumeWorker, Shrinks, Protected
<1>4. CASE ResetPermit(p)
  BY <1>1, <1>4 DEF ResetPermit, Shrinks, Protected
<1>5. CASE FinishTake(p)
  BY <1>1, <1>5 DEF FinishTake, Shrinks, Protected
<1>6. QED
  BY <1>2, <1>3, <1>4, <1>5

LEMMA GroupShrinks ==
  ASSUME IInv, NEW g \in Groups,
         \/ \E n \in 0 .. Limit : KeepAtMost(g, n)
         \/ \E p \in Permits : Claim(g, p)
         \/ ResetGroup(g)
         \/ \E h \in Groups, n \in 1 .. Limit : SplitOff(g, h, n)
  PROVE  Shrinks
<1>1. active \in Nat /\ reserved \in Nat /\ suspended \in Nat
  BY Parts
<1>2. group[g].count \in Nat /\ group[g].taken \in Nat /\ group[g].taken <= group[g].count
  BY Parts, LeftType
<1>3. CASE \E n \in 0 .. Limit : KeepAtMost(g, n)
  <2>1. PICK n \in 0 .. Limit : KeepAtMost(g, n)
    BY <1>3
  <2>2. n \in Nat
    BY LimitIsNat
  <2>3. QED
    BY <1>1, <1>2, <2>1, <2>2 DEF KeepAtMost, Shrinks, Protected
<1>4. CASE \E p \in Permits : Claim(g, p)
  BY <1>1, <1>4 DEF Claim, Shrinks, Protected
<1>5. CASE ResetGroup(g)
  BY <1>1, <1>2, <1>5 DEF ResetGroup, Shrinks, Protected
<1>6. CASE \E h \in Groups, n \in 1 .. Limit : SplitOff(g, h, n)
  BY <1>1, <1>6 DEF SplitOff, Shrinks, Protected
<1>7. QED
  BY <1>3, <1>4, <1>5, <1>6

LEMMA HoldingShrinks == IInv /\ Holding => Shrinks
  BY PermitShrinks, GroupShrinks DEF Holding

(* An admission takes n slots, all of them free. *)
Grows(n) == /\ Protected' = Protected + n /\ Protected + n <= Limit
            /\ UpdatePeaks

LEMMA AdmitGrows ==
  ASSUME IInv, Admit, Protected < Limit
  PROVE  Grows(1)
  BY Parts, LimitIsNat DEF Admit, Grows, Protected

LEMMA TryReserveGrows ==
  ASSUME IInv, NEW g \in Groups, NEW n \in 1 .. Limit, TryReserveWorkers(g, n)
  PROVE  \E m \in 1 .. Limit : Grows(m)
<1> DEFINE free  == Limit - Protected
           count == IF n < free THEN n ELSE free
<1>1. /\ Protected \in Nat /\ active \in Nat /\ reserved \in Nat /\ suspended \in Nat
  BY Parts
<1>2. count > 0 /\ reserved' = reserved + count /\ UNCHANGED <<active, suspended>>
      /\ UpdatePeaks
  BY DEF TryReserveWorkers
<1>3. count \in 1 .. Limit /\ Protected + count <= Limit /\ count \in Nat
  BY <1>1, <1>2, LimitIsNat
<1> HIDE DEF count
<1>4. Protected' = Protected + count
  BY <1>1, <1>2, <1>3 DEF Protected
<1>5. QED
  BY <1>2, <1>3, <1>4 DEF Grows

LEMMA AdmissionGrows ==
  ASSUME IInv, QueueHoldsWaiters, Admission
  PROVE  \/ \E n \in 1 .. Limit : Grows(n)
         \/ UNCHANGED <<active, reserved, suspended, peak_active, peak_protected>>
<1>1. 1 \in 1 .. Limit
  BY LimitAssumption
<1>2. ASSUME NEW p \in Permits, AcquireAtOnce(p) PROVE Grows(1)
  BY <1>2, AdmitGrows DEF AcquireAtOnce
<1>3. ASSUME NEW p \in Permits, Wake(p) \/ SpuriousWake(p) \/ Cancel(p)
      PROVE  \/ Grows(1)
             \/ UNCHANGED <<active, reserved, suspended, peak_active, peak_protected>>
  BY <1>3, WaiterStep, AdmitGrows
<1>4. QED
  BY <1>1, <1>2, <1>3, TryReserveGrows DEF Admission, Enqueue

LEMMA NatSum ==
  ASSUME NEW a \in Nat, NEW b \in Nat, NEW c \in Nat
  PROVE  a + b + c \in Nat /\ a <= a + b + c
  OBVIOUS

LEMMA PeaksStep ==
  IInv /\ IInv' /\ QueueHoldsWaiters /\ PeaksCoverCounters /\ [Next]_vars
    => PeaksCoverCounters'
<1> SUFFICES ASSUME IInv, IInv', QueueHoldsWaiters, PeaksCoverCounters, [Next]_vars
             PROVE  PeaksCoverCounters'
  OBVIOUS
<1>1. /\ active \in Nat /\ Protected \in Nat
      /\ peak_active \in Nat /\ peak_protected \in Nat
  BY Parts
<1>2. /\ active' \in Nat /\ Protected' \in Nat /\ active' <= Protected'
  <2>1. active' \in Nat /\ reserved' \in Nat /\ suspended' \in Nat
    BY DEF IInv, TypeOK
  <2>2. Protected' = active' + reserved' + suspended'
    BY DEF Protected
  <2>3. QED
    BY <2>1, <2>2, NatSum
<1>3. ASSUME Shrinks PROVE PeaksCoverCounters'
  <2>1. CASE active' <= active /\ UNCHANGED <<peak_active, peak_protected>>
    BY <1>1, <1>2, <1>3, <2>1, LimitIsNat DEF Shrinks, PeaksCoverCounters
  <2>2. CASE UpdatePeaks
    <3>1. /\ peak_active' = Larger(peak_active, active')
          /\ peak_protected' = Larger(peak_protected, Protected')
          /\ Protected' <= Protected
      BY <1>3, <2>2 DEF UpdatePeaks, Shrinks
    <3>2. QED
      BY <1>1, <1>2, <3>1, LimitIsNat DEF PeaksCoverCounters, Larger
  <2>3. QED
    BY <1>3, <2>1, <2>2 DEF Shrinks
<1>4. ASSUME NEW n \in 1 .. Limit, Grows(n) PROVE PeaksCoverCounters'
  <2>1. /\ peak_active' = Larger(peak_active, active')
        /\ peak_protected' = Larger(peak_protected, Protected')
        /\ Protected' <= Limit
    BY <1>4 DEF Grows, UpdatePeaks
  <2>2. QED
    BY <1>1, <1>2, <2>1, LimitIsNat DEF PeaksCoverCounters, Larger
<1>5. ASSUME UNCHANGED <<active, reserved, suspended, peak_active, peak_protected>>
      PROVE  PeaksCoverCounters'
  BY <1>5 DEF PeaksCoverCounters, Protected
<1>6. QED
  BY <1>3, <1>4, <1>5, HoldingShrinks, AdmissionGrows DEF Next, vars

-------------------------------------------------------------------------------
(* The invariant, its three parts each needing the others. *)
SInv == IInv /\ QueueHoldsWaiters /\ PeaksCoverCounters

LEMMA InitSInv == Init => SInv
<1> SUFFICES ASSUME Init PROVE SInv
  OBVIOUS
<1>1. QueueHoldsWaiters
  <2>1. Len(queue) = 0 /\ 1 .. 0 = {}
    BY DEF Init
  <2>2. \A p \in Permits : call[p] = "outside"
    BY DEF Init
  <2>3. QED
    BY <2>1, <2>2 DEF QueueHoldsWaiters, Distinct, Members
<1>2. PeaksCoverCounters
  BY LimitIsNat DEF Init, PeaksCoverCounters, Protected
<1>3. QED
  BY <1>1, <1>2, InitIInv DEF SInv

LEMMA InLimit == SInv => WithinLimit
<1>1. ASSUME SInv PROVE WithinLimit
  BY <1>1, Parts, LimitIsNat DEF SInv, PeaksCoverCounters, WithinLimit
<1>2. QED
  BY <1>1

LEMMA NextSInv == SInv /\ [Next]_vars => SInv'
<1> SUFFICES ASSUME SInv, [Next]_vars PROVE SInv'
  OBVIOUS
<1>1. IInv /\ QueueHoldsWaiters /\ PeaksCoverCounters
  BY DEF SInv
<1>2. IInv'
  BY <1>1, InLimit, NextIInv
<1>3. QueueHoldsWaiters'
  BY <1>1, QueueStep
<1>4. PeaksCoverCounters'
  BY <1>1, <1>2, PeaksStep
<1>5. QED
  BY <1>2, <1>3, <1>4 DEF SInv

LEMMA Safety == Spec => []SInv
<1>1. QED
  BY InitSInv, NextSInv, PTL DEF Spec

(* No unsigned counter of the CPU domain is ever taken below zero, and the  *)
(* slots workers take never exceed what their reservation holds.           *)
THEOREM TypeInvariant == Spec => []TypeOK
<1>1. SInv => TypeOK
  BY DEF SInv, IInv
<1>2. QED
  BY <1>1, Safety, PTL

(* active, reserved and suspended count exactly the permits and the         *)
(* unclaimed reserved slots that exist, for any number of threads, through *)
(* splits, trims, claims, suspensions and destructors in any order.        *)
THEOREM CountersInvariant == Spec => []CountersMatchHolders
<1>1. SInv => CountersMatchHolders
  BY DEF SInv, IInv
<1>2. QED
  BY <1>1, Safety, PTL

(* The waiter list holds exactly the threads inside Acquire, each once, and *)
(* none of them has a permit.                                              *)
THEOREM QueueInvariant == Spec => []QueueHoldsWaiters
<1>1. SInv => QueueHoldsWaiters
  BY DEF SInv
<1>2. QED
  BY <1>1, Safety, PTL

(* The peaks of a snapshot cover the counters and never exceed the limit. *)
THEOREM PeaksInvariant == Spec => []PeaksCoverCounters
<1>1. SInv => PeaksCoverCounters
  BY DEF SInv
<1>2. QED
  BY <1>1, Safety, PTL

(* The assertion in UpdatePeaks holds on every path: the domain never has   *)
(* more participants than its limit.                                       *)
THEOREM LimitInvariant == Spec => []WithinLimit
<1>1. QED
  BY InLimit, Safety, PTL

-------------------------------------------------------------------------------
(* Sleeping and waking *)

LEMMA WakeupStep == SInv /\ NoLostWakeup /\ [Next]_vars => NoLostWakeup'
<1> SUFFICES ASSUME SInv, NoLostWakeup, [Next]_vars PROVE NoLostWakeup'
  OBVIOUS
<1>0. IInv /\ QueueHoldsWaiters /\ WithinLimit
  BY InLimit DEF SInv
<1>1. ASSUME UNCHANGED <<queue, call>>, Protected' = Protected
      PROVE  NoLostWakeup'
  BY <1>1 DEF NoLostWakeup, First
<1>2. ASSUME \A x \in Permits : call'[x] # "asleep"
      PROVE  NoLostWakeup'
  BY <1>2 DEF NoLostWakeup
<1>3. CASE Holding
  <2>1. Shrinks /\ queue' = queue
    BY <1>0, <1>3, HoldingShrinks, HoldingEffect
  <2>2. QED
    BY <1>0, <1>1, <1>2, <2>1, NotifyAllType, Parts DEF Shrinks
<1>4. CASE UNCHANGED vars
  <2>1. Protected' = Protected
    BY <1>4 DEF vars, Protected
  <2>2. QED
    BY <1>1, <1>4, <2>1 DEF vars
<1>5. CASE queue' = <<>>
  BY <1>5 DEF NoLostWakeup, First
<1>6. ASSUME NEW p \in Permits, Enqueue(p) PROVE NoLostWakeup'
  <2>1. /\ p \notin Members(queue)
        /\ \A x \in Permits \ {p} : call'[x] = call[x]
    BY <1>0, <1>6, EnqueueEffect
  <2>2. Protected' = Protected /\ queue' = Append(queue, p) /\ queue \in Seq(Permits)
    BY <1>0, <1>6, Parts DEF Enqueue, Protected
  <2>3. CASE queue = <<>>
    <3>1. ~(Protected < Limit) /\ Head(queue') = p
      BY <1>6, <2>2, <2>3 DEF Enqueue
    <3>2. Protected = Limit
      BY <1>0, <3>1, Parts, LimitIsNat DEF WithinLimit
    <3>3. QED
      BY <2>2, <3>2 DEF NoLostWakeup
  <2>4. CASE queue # <<>>
    <3>1. Head(queue') = Head(queue) /\ Head(queue) # p
      BY <2>1, <2>2, <2>4, HeadIsMember
    <3>2. QED
      BY <2>1, <2>2, <2>4, <3>1 DEF NoLostWakeup, First
  <2>5. QED
    BY <2>3, <2>4
<1>7. ASSUME NEW p \in Permits, Wake(p) \/ SpuriousWake(p) \/ Cancel(p)
      PROVE  NoLostWakeup'
  <2>1. CASE Leave(p) /\ \A x \in Permits \ {p} : permit'[x] = permit[x]
    BY <1>0, <1>2, <2>1, LeaveEffect
  <2>2. CASE /\ queue' = queue /\ UNCHANGED <<active, reserved, suspended>>
             /\ \A x \in Permits \ {p} : call'[x] = call[x]
             /\ \/ call'[p] = "awake"
                \/ call'[p] = "asleep" /\ ~(First(p) /\ Protected < Limit)
    <3>1. Protected' = Protected
      BY <2>2 DEF Protected
    <3>2. ~(Protected < Limit) => Protected = Limit
      BY <1>0, Parts, LimitIsNat DEF WithinLimit
    <3>3. QED
      BY <2>2, <3>1, <3>2 DEF NoLostWakeup, First
  <2>3. QED
    BY <1>0, <1>7, <2>1, <2>2, WaiterStep
<1>8. QED
  BY <1>3, <1>4, <1>5, <1>6, <1>7 DEF Next, Admission, AcquireAtOnce, TryReserveWorkers

(* No wakeup is lost: while the first waiter sleeps every slot is taken, so *)
(* every operation that frees one notifies.                                *)
THEOREM WakeupInvariant == Spec => []NoLostWakeup
<1>1. Init => NoLostWakeup
  BY DEF Init, NoLostWakeup
<1>2. QED
  BY <1>1, WakeupStep, Safety, PTL DEF Spec

-------------------------------------------------------------------------------
(* CpuBudget implements FifoAdmission. *)

LEMMA WaitingLen ==
  ASSUME IInv
  PROVE  /\ Len(Waiting) = Len(queue) /\ Len(queue) \in Nat
         /\ queue \in Seq(Permits)
         /\ \A i \in 1 .. Len(queue) : Waiting[i] = [who |-> queue[i], amount |-> 1]
         /\ Waiting \in Seq([who : Permits, amount : {1}])
<1>1. queue \in Seq(Permits) /\ Len(queue) \in Nat
  BY Parts
<1>2. \A i \in 1 .. Len(queue) :
        [who |-> queue[i], amount |-> 1] \in [who : Permits, amount : {1}]
  BY <1>1
<1>3. QED
  BY <1>1, <1>2 DEF Waiting

LEMMA WaitingAppended ==
  ASSUME IInv, QueueHoldsWaiters, NEW p \in Permits, Enqueue(p)
  PROVE  Abstract!Arrive(p, 1)
<1>1. p \notin Members(queue)
  BY EnqueueEffect
<1>2. /\ queue' = Append(queue, p) /\ queue \in Seq(Permits) /\ Len(queue) \in Nat
      /\ Protected' = Protected
  BY Parts DEF Enqueue, Protected
<1>3. ASSUME NEW i \in 1 .. Len(Waiting) PROVE Waiting[i].who # p
  <2>1. i \in 1 .. Len(queue)
    BY WaitingLen
  <2>2. Waiting[i] = [who |-> queue[i], amount |-> 1]
    BY <2>1, WaitingLen
  <2>3. queue[i] # p
    BY <1>1, <2>1 DEF Members
  <2>4. QED
    BY <2>2, <2>3
<1>4. Waiting' = Append(Waiting, [who |-> p, amount |-> 1])
  <2>1. Len(queue') = Len(queue) + 1
    BY <1>2
  <2>2. ASSUME NEW i \in 1 .. Len(queue) + 1
        PROVE  [who |-> queue'[i], amount |-> 1] =
                 IF i = Len(queue) + 1 THEN [who |-> p, amount |-> 1] ELSE Waiting[i]
    <3>1. CASE i = Len(queue) + 1
      BY <1>2, <3>1
    <3>2. CASE i # Len(queue) + 1
      <4>1. i \in 1 .. Len(queue) /\ queue'[i] = queue[i]
        BY <1>2, <3>2
      <4>2. QED
        BY <3>2, <4>1, WaitingLen
    <3>3. QED
      BY <3>1, <3>2
  <2>3. Waiting' = [i \in 1 .. Len(queue) + 1 |->
                      IF i = Len(queue) + 1 THEN [who |-> p, amount |-> 1] ELSE Waiting[i]]
    BY <2>1, <2>2 DEF Waiting
  <2>4. QED
    BY <2>3, WaitingLen
<1>5. QED
  BY <1>2, <1>3, <1>4 DEF Abstract!Arrive

LEMMA WaitingUnlinked ==
  ASSUME IInv, NEW p \in Permits, Leave(p)
  PROVE  \E i \in 1 .. Len(Waiting) : queue[i] = p /\ Waiting' = Without(Waiting, i)
<1>1. PICK i \in 1 .. Len(queue) : queue[i] = p /\ queue' = Without(queue, i)
  BY DEF Leave
<1>2. queue \in Seq(Permits) /\ Len(queue) \in Nat /\ Len(queue') = Len(queue) - 1
  <2>1. queue \in Seq(Permits)
    BY Parts
  <2>2. QED
    BY <1>1, <2>1, WithoutType
<1>3. ASSUME NEW j \in 1 .. Len(queue) - 1
      PROVE  [who |-> queue'[j], amount |-> 1] =
               IF j < i THEN Waiting[j] ELSE Waiting[j + 1]
  <2> DEFINE m == IF j < i THEN j ELSE j + 1
  <2>1. m \in 1 .. Len(queue) /\ queue'[j] = queue[m]
    BY <1>1, <1>2 DEF Without
  <2>2. Waiting[m] = [who |-> queue[m], amount |-> 1]
    BY <2>1, WaitingLen
  <2>3. QED
    BY <2>1, <2>2
<1>4. Waiting' = [j \in 1 .. Len(queue) - 1 |-> IF j < i THEN Waiting[j] ELSE Waiting[j + 1]]
  BY <1>2, <1>3 DEF Waiting
<1>5. Len(Waiting) = Len(queue)
  BY WaitingLen
<1>6. QED
  BY <1>1, <1>4, <1>5 DEF Without

(* The first waiter is admitted. *)
LEMMA WakeRefines ==
  ASSUME IInv, QueueHoldsWaiters, NEW p \in Permits,
         Leave(p), First(p), Grows(1)
  PROVE  Abstract!AdmitFirst
<1>1. PICK i \in 1 .. Len(Waiting) : queue[i] = p /\ Waiting' = Without(Waiting, i)
  BY WaitingUnlinked
<1>2. queue # <<>> /\ queue[1] = p /\ Len(queue) \in Nat /\ Len(queue) >= 1
  BY WaitingLen, HeadIsMember DEF First
<1>3. i = 1
  BY <1>1, <1>2, WaitingLen DEF QueueHoldsWaiters, Distinct
<1>4. /\ Len(Waiting) >= 1 /\ Waiting \in Seq([who : Permits, amount : {1}])
      /\ Waiting[1] = [who |-> p, amount |-> 1]
  BY <1>2, WaitingLen
<1>5. Without(Waiting, 1) = Tail(Waiting)
  BY <1>4, FirstUnlinked
<1>6. /\ Waiting # <<>> /\ Head(Waiting) = [who |-> p, amount |-> 1]
      /\ Waiting' = Tail(Waiting)
  BY <1>1, <1>3, <1>4, <1>5
<1>7. QED
  BY <1>6 DEF Grows, Abstract!AdmitFirst

LEMMA AdmissionRefines ==
  ASSUME IInv, QueueHoldsWaiters, Admission
  PROVE  Abstract!Next \/ UNCHANGED Abstract!vars
<1>1. ASSUME queue = <<>>, queue' = queue, NEW n \in 1 .. Limit, Grows(n)
      PROVE  Abstract!Next
  <2>1. Waiting = <<>> /\ Waiting' = Waiting
    <3>1. Len(Waiting) = 0
      BY <1>1, WaitingLen
    <3>2. Waiting' = Waiting
      BY <1>1 DEF Waiting
    <3>3. QED
      BY <3>1, <3>2, WaitingLen
  <2>2. QED
    BY <1>1, <2>1 DEF Grows, Abstract!Next, Abstract!AdmitAtOnce
<1>2. ASSUME NEW p \in Permits, AcquireAtOnce(p) PROVE Abstract!Next
  <2>1. Grows(1) /\ queue = <<>> /\ queue' = queue
    BY <1>2, AdmitGrows DEF AcquireAtOnce
  <2>2. 1 \in 1 .. Limit
    BY LimitAssumption
  <2>3. QED
    BY <1>1, <2>1, <2>2
<1>3. ASSUME NEW g \in Groups, NEW n \in 1 .. Limit, TryReserveWorkers(g, n)
      PROVE  Abstract!Next
  BY <1>1, <1>3, TryReserveGrows DEF TryReserveWorkers
<1>4. ASSUME NEW p \in Permits, Enqueue(p) PROVE Abstract!Next
  <2>1. 1 \in 1 .. Limit
    BY LimitAssumption
  <2>2. QED
    BY <1>4, <2>1, WaitingAppended DEF Abstract!Next
<1>5. ASSUME NEW p \in Permits, Wake(p) \/ SpuriousWake(p) \/ Cancel(p)
      PROVE  Abstract!Next \/ UNCHANGED Abstract!vars
  <2>1. CASE Leave(p) /\ First(p) /\ Admit /\ Protected < Limit
    BY <2>1, AdmitGrows, WakeRefines DEF Abstract!Next
  <2>2. CASE Leave(p) /\ UNCHANGED <<active, reserved, suspended>>
    <3>1. Protected' = Protected
      BY <2>2 DEF Protected
    <3>2. \E i \in 1 .. Len(Waiting) : Waiting' = Without(Waiting, i)
      BY <2>2, WaitingUnlinked
    <3>3. QED
      BY <3>1, <3>2 DEF Abstract!Next, Abstract!Withdraw, Abstract!Without, Without
  <2>3. CASE queue' = queue /\ UNCHANGED <<active, reserved, suspended>>
    BY <2>3 DEF Abstract!vars, Waiting, Protected
  <2>4. QED
    BY <1>5, <2>1, <2>2, <2>3, WaiterStep
<1>6. QED
  BY <1>2, <1>3, <1>4, <1>5 DEF Admission

LEMMA StepRefines ==
  SInv /\ SInv' /\ [Next]_vars => [Abstract!Next]_(Abstract!vars)
<1> SUFFICES ASSUME SInv, SInv', [Next]_vars
             PROVE  Abstract!Next \/ UNCHANGED Abstract!vars
  OBVIOUS
<1>1. IInv /\ QueueHoldsWaiters
  BY DEF SInv
<1>2. CASE Holding
  <2>1. Waiting' = Waiting
    BY <1>1, <1>2, HoldingEffect DEF Waiting
  <2>2. Protected' <= Protected /\ Protected \in Nat
    BY <1>1, <1>2, HoldingShrinks, Parts DEF Shrinks
  <2>3. Protected' \in Nat
    <3>1. active' \in Nat /\ reserved' \in Nat /\ suspended' \in Nat
      BY DEF SInv, IInv, TypeOK
    <3>2. Protected' = active' + reserved' + suspended'
      BY DEF Protected
    <3>3. QED
      BY <3>1, <3>2, NatSum
  <2>4. QED
    BY <2>1, <2>2, <2>3 DEF Abstract!Next, Abstract!Return
<1>3. CASE UNCHANGED vars
  BY <1>3 DEF vars, Abstract!vars, Waiting, Protected
<1>4. QED
  BY <1>1, <1>2, <1>3, AdmissionRefines DEF Next

(* The CPU domain is a FIFO admission controller, for every limit and any   *)
(* number of threads: workers only get slots that are free and that nobody *)
(* queues for, callers get theirs in the order in which they asked.        *)
THEOREM Refinement == Spec => ImplementsFifoAdmission
<1>1. Init => Abstract!Init
  <2>1. ASSUME Init PROVE Protected = 0 /\ Waiting = <<>>
    <3>1. Protected = 0
      BY <2>1 DEF Init, Protected
    <3>2. Waiting = <<>>
      BY <2>1 DEF Init, Waiting
    <3>3. QED
      BY <3>1, <3>2
  <2>2. QED
    BY <2>1 DEF Abstract!Init
<1>2. QED
  BY <1>1, StepRefines, Safety, PTL
     DEF Spec, ImplementsFifoAdmission, Abstract!Spec
===============================================================================
