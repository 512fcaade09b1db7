------------------------- MODULE ResourceBudgetProofs -------------------------
(***************************************************************************)
(* Proofs about ResourceBudget, for any limit, any number of callers,      *)
(* envelopes, tickets and classes.                                         *)
(***************************************************************************)
EXTENDS ResourceBudget, CollectionsProofs

(* The bytes and the counts that a ticket in state k adds to the totals of *)
(* scope s and phase p, when it is worth n.                                *)
In(k, s, p) == k.phase = p /\ s \in {All, k.class}

Part(k, s, p, n) == IF In(k, s, p) THEN n ELSE 0

LEMMA LimitIsNat == Limit \in Nat /\ Limit \in Int
  BY LimitAssumption

LEMMA SizesAreNat == Sizes \subseteq Nat
  BY LimitIsNat, BudgetAssumption

(* What the type of a ticket says about its numbers. *)
LEMMA TicketNumbers ==
  ASSUME NEW k \in TicketStates
  PROVE  /\ k.capacity \in 0 .. Limit /\ k.capacity \in Nat
         /\ k.requested \in 0 .. Limit /\ k.requested \in Nat
         /\ k.phase \in {"none", "pending", "live", "idle"}
         /\ k.phase # "none" => /\ k.owner \in Reservations
                                /\ k.class \in Classes
                                /\ k.capacity \in Sizes
         /\ k.phase = "none" => k = NoTicket
<1>1. CASE k = NoTicket
  BY <1>1, LimitIsNat DEF NoTicket
<1>2. CASE k # NoTicket
  <2>1. k \in [phase : {"pending", "live", "idle"}, owner : Reservations,
               capacity : Sizes, requested : Sizes, class : Classes]
    BY <1>2 DEF TicketStates
  <2>2. \A n \in Sizes : n \in 0 .. Limit /\ n \in Nat
    BY LimitIsNat, BudgetAssumption
  <2>3. QED
    BY <2>1, <2>2
<1>3. QED
  BY <1>1, <1>2

LEMMA SetsAreFinite ==
  /\ \A s, p : IsFiniteSet(InPhase(s, p)) /\ IsFiniteSet(InPhase(s, p)')
  /\ \A r : IsFiniteSet(Owned(r)) /\ IsFiniteSet(Owned(r)')
<1>1. \A S : S \subseteq Tickets => IsFiniteSet(S)
  BY BudgetAssumption, FS_Subset
<1>2. \A s, p : InPhase(s, p) \subseteq Tickets /\ InPhase(s, p)' \subseteq Tickets
  BY DEF InPhase
<1>3. \A r : Owned(r) \subseteq Tickets /\ Owned(r)' \subseteq Tickets
  BY DEF Owned
<1>4. QED
  BY <1>1, <1>2, <1>3

(* What the owners hold, ticket by ticket, before and after a step. *)
LEMMA HoldingsType ==
  /\ ticket \in [Tickets -> TicketStates]
       => \A t \in Tickets : Capacities[t] \in Nat /\ Requests[t] \in Nat
  /\ ticket' \in [Tickets -> TicketStates]
       => \A t \in Tickets : Capacities'[t] \in Nat /\ Requests'[t] \in Nat
<1>1. \A k \in TicketStates : k.capacity \in Nat /\ k.requested \in Nat
  BY TicketNumbers
<1>2. QED
  BY <1>1 DEF Capacities, Requests

(* When one ticket changes, every total changes by what it takes out and   *)
(* brings in.                                                              *)
LEMMA TicketChange ==
  ASSUME ticket \in [Tickets -> TicketStates],
         NEW t \in Tickets, NEW new \in TicketStates,
         ticket' = [ticket EXCEPT ![t] = new],
         NEW s \in Scopes, NEW p \in {"pending", "live", "idle"}
  PROVE  /\ SumOver(Capacities, InPhase(s, p)) \in Nat
         /\ SumOver(Requests, InPhase(s, p)) \in Nat
         /\ Cardinality(InPhase(s, p)) \in Nat
         /\ SumOver(Capacities, InPhase(s, p))' \in Nat
         /\ SumOver(Requests, InPhase(s, p))' \in Nat
         /\ Cardinality(InPhase(s, p))' \in Nat
         /\ SumOver(Capacities, InPhase(s, p))' =
              SumOver(Capacities, InPhase(s, p)) - Part(ticket[t], s, p, ticket[t].capacity)
                                               + Part(new, s, p, new.capacity)
         /\ SumOver(Requests, InPhase(s, p))' =
              SumOver(Requests, InPhase(s, p)) - Part(ticket[t], s, p, ticket[t].requested)
                                             + Part(new, s, p, new.requested)
         /\ Cardinality(InPhase(s, p))' =
              Cardinality(InPhase(s, p)) - Part(ticket[t], s, p, 1)
                                         + Part(new, s, p, 1)
<1> DEFINE S  == InPhase(s, p)
           S2 == InPhase(s, p)'
           f  == Capacities
           f2 == Capacities'
           g  == Requests
           g2 == Requests'
<1>1. IsFiniteSet(S) /\ IsFiniteSet(S2)
  BY SetsAreFinite
<1>2. S \ {t} = S2 \ {t}
  BY DEF InPhase
<1>3. (t \in S <=> In(ticket[t], s, p)) /\ (t \in S2 <=> In(new, s, p))
  BY DEF InPhase, In
<1>4. /\ f[t] = ticket[t].capacity /\ f2[t] = new.capacity
      /\ g[t] = ticket[t].requested /\ g2[t] = new.requested
  BY DEF Capacities, Requests
<1>5. /\ \A y \in S \ {t} : f2[y] = f[y]
      /\ \A y \in S \ {t} : g2[y] = g[y]
  BY DEF Capacities, Requests, InPhase
<1>6. /\ AllNat(f, S)
      /\ AllNat(f2, S2)
      /\ AllNat(g, S)
      /\ AllNat(g2, S2)
  BY HoldingsType DEF InPhase, AllNat
<1> HIDE DEF S, S2, f, f2, g, g2
<1>7. /\ SumOver(f, S) \in Nat /\ SumOver(f2, S2) \in Nat
      /\ SumOver(f2, S2) = SumOver(f, S) - (IF t \in S THEN f[t] ELSE 0)
                                     + (IF t \in S2 THEN f2[t] ELSE 0)
  BY <1>1, <1>2, <1>5, <1>6, SumMove
<1>8. /\ SumOver(g, S) \in Nat /\ SumOver(g2, S2) \in Nat
      /\ SumOver(g2, S2) = SumOver(g, S) - (IF t \in S THEN g[t] ELSE 0)
                                     + (IF t \in S2 THEN g2[t] ELSE 0)
  BY <1>1, <1>2, <1>5, <1>6, SumMove
<1>9. /\ Cardinality(S) \in Nat /\ Cardinality(S2) \in Nat
      /\ Cardinality(S2) = Cardinality(S) - (IF t \in S THEN 1 ELSE 0)
                                          + (IF t \in S2 THEN 1 ELSE 0)
  BY <1>1, <1>2, CountMove
<1>10. /\ SumOver(f2, S2) = SumOver(f, S) - Part(ticket[t], s, p, ticket[t].capacity)
                                      + Part(new, s, p, new.capacity)
       /\ SumOver(g2, S2) = SumOver(g, S) - Part(ticket[t], s, p, ticket[t].requested)
                                      + Part(new, s, p, new.requested)
       /\ Cardinality(S2) = Cardinality(S) - Part(ticket[t], s, p, 1)
                                           + Part(new, s, p, 1)
  BY <1>3, <1>4, <1>7, <1>8, <1>9 DEF Part
<1>11. QED
  BY <1>7, <1>8, <1>9, <1>10 DEF S, S2, f, f2, g, g2

(* The same for the charge of an envelope. *)
LEMMA OwnerChange ==
  ASSUME ticket \in [Tickets -> TicketStates],
         NEW t \in Tickets, NEW new \in TicketStates,
         ticket' = [ticket EXCEPT ![t] = new],
         NEW r \in Reservations
  PROVE  /\ SumOver(Capacities, Owned(r)) \in Nat
         /\ SumOver(Capacities, Owned(r))' \in Nat
         /\ SumOver(Capacities, Owned(r))' =
              SumOver(Capacities, Owned(r))
                - (IF ticket[t].owner = r THEN ticket[t].capacity ELSE 0)
                + (IF new.owner = r THEN new.capacity ELSE 0)
<1> DEFINE S  == Owned(r)
           S2 == Owned(r)'
           f  == Capacities
           f2 == Capacities'
<1>1. IsFiniteSet(S) /\ IsFiniteSet(S2)
  BY SetsAreFinite
<1>2. S \ {t} = S2 \ {t}
  BY DEF Owned
<1>3. (t \in S <=> ticket[t].owner = r) /\ (t \in S2 <=> new.owner = r)
  BY DEF Owned
<1>4. f[t] = ticket[t].capacity /\ f2[t] = new.capacity
  BY DEF Capacities
<1>5. \A y \in S \ {t} : f2[y] = f[y]
  BY DEF Capacities, Owned
<1>6. /\ AllNat(f, S)
      /\ AllNat(f2, S2)
  BY HoldingsType DEF Owned, AllNat
<1> HIDE DEF S, S2, f, f2
<1>7. /\ SumOver(f, S) \in Nat /\ SumOver(f2, S2) \in Nat
      /\ SumOver(f2, S2) = SumOver(f, S) - (IF t \in S THEN f[t] ELSE 0)
                                     + (IF t \in S2 THEN f2[t] ELSE 0)
  BY <1>1, <1>2, <1>5, <1>6, SumMove
<1>8. QED
  BY <1>3, <1>4, <1>7 DEF S, S2, f, f2

-------------------------------------------------------------------------------
(* The inductive invariant: types, and the ledger kept by every operation. *)
IInv == TypeOK /\ UsageMatchesTickets /\ BytesAreConserved

(* Usage record u of scope s after a ticket went from state k to state new. *)
Moved(u, s, k, new) ==
  [live_requested |-> u.live_requested - Part(k, s, "live", k.requested)
                                       + Part(new, s, "live", new.requested),
   live           |-> u.live - Part(k, s, "live", k.capacity)
                             + Part(new, s, "live", new.capacity),
   idle           |-> u.idle - Part(k, s, "idle", k.capacity)
                             + Part(new, s, "idle", new.capacity),
   pending        |-> u.pending - Part(k, s, "pending", k.capacity)
                                + Part(new, s, "pending", new.capacity),
   backing_count  |-> u.backing_count - Part(k, s, "live", 1) - Part(k, s, "idle", 1)
                                      + Part(new, s, "live", 1) + Part(new, s, "idle", 1),
   pending_count  |-> u.pending_count - Part(k, s, "pending", 1)
                                      + Part(new, s, "pending", 1)]

LEMMA UsageFollowsTicket ==
  ASSUME TypeOK, UsageMatchesTickets,
         NEW t \in Tickets, NEW new \in TicketStates,
         ticket' = [ticket EXCEPT ![t] = new],
         usage' = [s \in Scopes |-> Moved(usage[s], s, ticket[t], new)]
  PROVE  /\ UsageMatchesTickets'
         /\ usage' \in [Scopes -> Usage]
<1>0. ticket \in [Tickets -> TicketStates]
  BY DEF TypeOK
<1>1. ASSUME NEW s \in Scopes
      PROVE  usage'[s] = UsageOf(s)' /\ usage'[s] \in Usage
  <2>1. usage[s] = UsageOf(s)
    BY DEF UsageMatchesTickets
  <2>2. usage'[s] = Moved(UsageOf(s), s, ticket[t], new)
    BY <2>1
  <2> DEFINE TC(p) == SumOver(Capacities, InPhase(s, p))
             TR(p) == SumOver(Requests, InPhase(s, p))
             CC(p) == Cardinality(InPhase(s, p))
  <2>3. ASSUME NEW p \in {"pending", "live", "idle"}
        PROVE  /\ TC(p)' \in Nat /\ TR(p)' \in Nat /\ CC(p)' \in Nat
               /\ TC(p)' = TC(p) - Part(ticket[t], s, p, ticket[t].capacity)
                                 + Part(new, s, p, new.capacity)
               /\ TR(p)' = TR(p) - Part(ticket[t], s, p, ticket[t].requested)
                                 + Part(new, s, p, new.requested)
               /\ CC(p)' = CC(p) - Part(ticket[t], s, p, 1) + Part(new, s, p, 1)
               /\ CC(p) \in Nat
               /\ Part(ticket[t], s, p, 1) \in Nat /\ Part(new, s, p, 1) \in Nat
    <3>1. Part(ticket[t], s, p, 1) \in Nat /\ Part(new, s, p, 1) \in Nat
      BY DEF Part
    <3>2. QED
      BY <1>0, <3>1, TicketChange
  <2>4. UsageOf(s) = [live_requested |-> TR("live"), live |-> TC("live"),
                      idle |-> TC("idle"), pending |-> TC("pending"),
                      backing_count |-> CC("live") + CC("idle"),
                      pending_count |-> CC("pending")]
    BY DEF UsageOf
  <2>5. UsageOf(s)' = [live_requested |-> TR("live")', live |-> TC("live")',
                       idle |-> TC("idle")', pending |-> TC("pending")',
                       backing_count |-> CC("live")' + CC("idle")',
                       pending_count |-> CC("pending")']
    BY DEF UsageOf
  <2> HIDE DEF TC, TR, CC
  <2>6. Moved(UsageOf(s), s, ticket[t], new) = UsageOf(s)'
    <3>1. CC("live")' + CC("idle")' =
            CC("live") + CC("idle") - Part(ticket[t], s, "live", 1)
              - Part(ticket[t], s, "idle", 1) + Part(new, s, "live", 1)
              + Part(new, s, "idle", 1)
      BY <2>3
    <3>2. QED
      BY <2>3, <2>4, <2>5, <3>1 DEF Moved
  <2>7. UsageOf(s)' \in Usage
    BY <2>3, <2>5 DEF Usage
  <2>8. QED
    BY <2>2, <2>6, <2>7
<1>2. QED
  BY <1>1 DEF UsageMatchesTickets

(* The bytes that an envelope in state e has left. *)
Spare(e) == IF e.open THEN e.capacity - e.charged ELSE 0

Sound(e) == e \in Envelope /\ (e.open => e.charged <= e.capacity)

LEMMA SpareType ==
  ASSUME NEW e, Sound(e)
  PROVE  Spare(e) \in 0 .. Limit /\ Spare(e) \in Nat
  BY LimitIsNat DEF Sound, Spare, Envelope

LEMMA UnspentChange ==
  ASSUME NEW r \in Reservations, NEW e,
         \A x \in Reservations : Sound(reservation[x]), Sound(e),
         reservation' = [reservation EXCEPT ![r] = e],
         reservation \in [Reservations -> Envelope]
  PROVE  /\ SumOver(Unspent, Reservations) \in Nat
         /\ SumOver(Unspent, Reservations)' \in Nat
         /\ SumOver(Unspent, Reservations)' =
              SumOver(Unspent, Reservations) - Spare(reservation[r]) + Spare(e)
<1> DEFINE f == Unspent
           g == Unspent'
<1>1. f[r] = Spare(reservation[r]) /\ g[r] = Spare(e)
  BY DEF Unspent, Spare
<1>2. \A y \in Reservations \ {r} : g[y] = f[y]
  BY DEF Unspent
<1>3. \A x \in Reservations : f[x] \in Nat /\ g[x] \in Nat
  <2>1. \A x \in Reservations : Spare(reservation[x]) \in Nat /\ Spare(reservation'[x]) \in Nat
    BY SpareType
  <2>2. QED
    BY <2>1 DEF Unspent, Spare
<1> HIDE DEF f, g
<1>4. SumOver(g, Reservations) = SumOver(f, Reservations) - f[r] + g[r]
  BY <1>2, <1>3, BudgetAssumption, SumUpdate
<1>5. SumOver(f, Reservations) \in Nat /\ SumOver(g, Reservations) \in Nat
  BY <1>3, BudgetAssumption, SumType
<1>6. QED
  BY <1>1, <1>4, <1>5 DEF f, g

LEMMA OpenChange ==
  ASSUME NEW r \in Reservations, NEW e,
         reservation' = [reservation EXCEPT ![r] = e],
         reservation \in [Reservations -> Envelope]
  PROVE  LET Open == {x \in Reservations : reservation[x].open} IN
         /\ Cardinality(Open) \in Nat
         /\ Cardinality(Open)' \in Nat
         /\ Cardinality(Open)' = Cardinality(Open)
              - (IF reservation[r].open THEN 1 ELSE 0) + (IF e.open THEN 1 ELSE 0)
<1> DEFINE S == {x \in Reservations : reservation[x].open}
           T == {x \in Reservations : reservation'[x].open}
<1>1. IsFiniteSet(S) /\ IsFiniteSet(T)
  BY BudgetAssumption, FS_Subset
<1>2. S \ {r} = T \ {r}
  OBVIOUS
<1>3. (r \in S <=> reservation[r].open) /\ (r \in T <=> e.open)
  OBVIOUS
<1> HIDE DEF S, T
<1>4. /\ Cardinality(S) \in Nat /\ Cardinality(T) \in Nat
      /\ Cardinality(T) = Cardinality(S) - (IF r \in S THEN 1 ELSE 0)
                                         + (IF r \in T THEN 1 ELSE 0)
  BY <1>1, <1>2, CountMove
<1>5. QED
  BY <1>3, <1>4 DEF S, T

-------------------------------------------------------------------------------
(* What the invariant says of each part of the state. *)
LEMMA Parts ==
  ASSUME IInv
  PROVE  /\ usage \in [Scopes -> Usage]
         /\ reserved_unbacked \in Nat /\ open_reservations \in Nat
         /\ peak_backing \in Nat /\ peak_committed \in Nat
         /\ queue \in Seq(Callers)
         /\ call \in [Callers -> CallStates]
         /\ reservation \in [Reservations -> Envelope]
         /\ ticket \in [Tickets -> TicketStates]
         /\ \A r \in Reservations : Sound(reservation[r])
         /\ \A r \in Reservations : reservation[r].charged = SumOver(Capacities, Owned(r))
         /\ reserved_unbacked = SumOver(Unspent, Reservations)
                                  + SumOver(Capacities, InPhase(All, "pending"))
         /\ open_reservations = Cardinality({r \in Reservations : reservation[r].open})
         /\ usage[All] \in Usage /\ Backing \in Nat /\ Committed \in Nat
         /\ SumOver(Unspent, Reservations) \in Nat
         /\ SumOver(Capacities, InPhase(All, "pending")) \in Nat
<1>1. /\ TypeOK
      /\ \A r \in Reservations : Sound(reservation[r])
  BY DEF IInv, TypeOK, BytesAreConserved, Sound
<1>2. usage[All] \in Usage
  BY <1>1 DEF TypeOK, Scopes
<1>3. Backing \in Nat /\ Committed \in Nat
  BY <1>1, <1>2 DEF TypeOK, Backing, Committed, Usage
<1>4. /\ SumOver(Unspent, Reservations) \in Nat
      /\ SumOver(Capacities, InPhase(All, "pending")) \in Nat
  <2>1. \A r \in Reservations : Unspent[r] \in Nat
    BY <1>1, SpareType DEF Unspent, Spare
  <2>2. SumOver(Unspent, Reservations) \in Nat
    BY <2>1, BudgetAssumption, SumType
  <2>3. \A t \in InPhase(All, "pending") : Capacities[t] \in Nat
    BY <1>1, HoldingsType DEF TypeOK, InPhase
  <2>4. SumOver(Capacities, InPhase(All, "pending")) \in Nat
    BY <2>3, SetsAreFinite, SumType
  <2>5. QED
    BY <2>2, <2>4
<1>5. QED
  BY <1>1, <1>2, <1>3, <1>4 DEF TypeOK, IInv, BytesAreConserved

LEMMA NotifyAllType ==
  ASSUME NEW f \in [Callers -> CallStates]
  PROVE  NotifyAll(f) \in [Callers -> CallStates]
<1>1. ASSUME NEW c \in Callers, f[c].at = "asleep"
      PROVE  [f[c] EXCEPT !.at = "awake"] \in CallStates
  <2>1. f[c] \in [at : {"evicting", "asleep", "awake"}, want : Sizes]
    BY <1>1 DEF CallStates, Outside
  <2>2. QED
    BY <2>1 DEF CallStates
<1>2. QED
  BY <1>1 DEF NotifyAll

LEMMA LeaveType ==
  ASSUME TypeOK, NEW c \in Callers, Leave(c)
  PROVE  queue' \in Seq(Callers) /\ call' \in [Callers -> CallStates]
<1>1. queue' \in Seq(Callers)
  BY WithoutType DEF TypeOK, Leave
<1>2. [call EXCEPT ![c] = Outside] \in [Callers -> CallStates]
  BY DEF TypeOK, CallStates
<1>3. QED
  BY <1>1, <1>2, NotifyAllType DEF Leave

(* The ledger survives a step that touches neither it nor what it counts. *)
LEMMA LedgerSame ==
  ASSUME IInv, UNCHANGED <<ledger, reservation, ticket>>,
         queue' \in Seq(Callers), call' \in [Callers -> CallStates]
  PROVE  IInv'
<1>1. /\ UNCHANGED <<usage, reserved_unbacked, open_reservations, peak_backing,
                     peak_committed, reservation, ticket>>
  BY DEF ledger
<1>2. TypeOK'
  BY <1>1 DEF IInv, TypeOK
<1>3. /\ Capacities' = Capacities /\ Requests' = Requests
      /\ Unspent' = Unspent
      /\ \A s, p : InPhase(s, p)' = InPhase(s, p)
      /\ \A r : Owned(r)' = Owned(r)
  BY <1>1 DEF Capacities, Requests, InPhase, Owned, Unspent
<1>4. \A s : UsageOf(s)' = UsageOf(s)
  BY <1>3 DEF UsageOf
<1>5. UsageMatchesTickets'
  BY <1>1, <1>4 DEF IInv, UsageMatchesTickets
<1>6. BytesAreConserved'
  BY <1>1, <1>3 DEF IInv, BytesAreConserved
<1>7. QED
  BY <1>2, <1>5, <1>6 DEF IInv

(* An envelope changes alone: a step of Publish, ReduceCapacity or Close.  *)
LEMMA EnvelopeStep ==
  ASSUME IInv, NEW r \in Reservations, NEW e, Sound(e),
         e.charged = reservation[r].charged,
         reservation' = [reservation EXCEPT ![r] = e],
         reserved_unbacked' = reserved_unbacked - Spare(reservation[r]) + Spare(e),
         open_reservations' = open_reservations
           - (IF reservation[r].open THEN 1 ELSE 0) + (IF e.open THEN 1 ELSE 0),
         UNCHANGED <<usage, ticket>>,
         queue' \in Seq(Callers), call' \in [Callers -> CallStates],
         peak_backing' \in Nat, peak_committed' \in Nat
  PROVE  IInv'
<1>1. /\ Capacities' = Capacities /\ Requests' = Requests
      /\ \A s, p : InPhase(s, p)' = InPhase(s, p)
      /\ \A x : Owned(x)' = Owned(x)
  BY DEF Capacities, Requests, InPhase, Owned
<1>2. UsageMatchesTickets'
  <2>1. \A s : UsageOf(s)' = UsageOf(s)
    BY <1>1 DEF UsageOf
  <2>2. QED
    BY <2>1 DEF IInv, UsageMatchesTickets
<1>3. /\ SumOver(Unspent, Reservations)' =
           SumOver(Unspent, Reservations) - Spare(reservation[r]) + Spare(e)
      /\ SumOver(Unspent, Reservations)' \in Nat
  BY Parts, UnspentChange
<1>4. SumOver(Capacities, InPhase(All, "pending"))' =
        SumOver(Capacities, InPhase(All, "pending"))
  BY <1>1
<1>5. Spare(reservation[r]) \in Nat /\ Spare(e) \in Nat
  BY Parts, SpareType
<1>6. reserved_unbacked' = SumOver(Unspent, Reservations)'
                            + SumOver(Capacities, InPhase(All, "pending"))'
  <2>1. /\ reserved_unbacked = SumOver(Unspent, Reservations)
                                + SumOver(Capacities, InPhase(All, "pending"))
        /\ SumOver(Unspent, Reservations) \in Nat
        /\ SumOver(Capacities, InPhase(All, "pending")) \in Nat
    BY Parts
  <2>2. QED
    BY <1>3, <1>4, <1>5, <2>1
<1>7. /\ open_reservations' = Cardinality({x \in Reservations : reservation'[x].open})
      /\ open_reservations' \in Nat
  BY Parts, OpenChange
<1>8. \A x \in Reservations : Sound(reservation'[x])
  BY Parts
<1>9. \A x \in Reservations : reservation'[x].charged = SumOver(Capacities, Owned(x))'
  BY <1>1, Parts
<1>10. BytesAreConserved'
  BY <1>6, <1>7, <1>8, <1>9 DEF BytesAreConserved, Sound
<1>11. reserved_unbacked' \in Nat
  BY <1>3, <1>4, <1>6, Parts
<1>12. TypeOK'
  BY <1>7, <1>11, Parts DEF TypeOK, Sound
<1>13. QED
  BY <1>2, <1>10, <1>12 DEF IInv

LEMMA PublishStep ==
  ASSUME IInv, NEW n \in Sizes, Publish(n), UNCHANGED ticket,
         queue' \in Seq(Callers), call' \in [Callers -> CallStates]
  PROVE  IInv'
<1>1. PICK r \in Unused :
        reservation' = [reservation EXCEPT
                          ![r] = [open |-> TRUE, capacity |-> n, charged |-> 0]]
  BY DEF Publish
<1> DEFINE e == [open |-> TRUE, capacity |-> n, charged |-> 0]
<1>2. n \in 0 .. Limit /\ n \in Nat
  BY LimitIsNat, BudgetAssumption
<1>3. /\ r \in Reservations /\ ~reservation[r].open
      /\ Owned(r) = {}
  BY <1>1 DEF Unused, Owned
<1>4. reservation[r].charged = 0
  <2>1. SumOver(Capacities, {}) = 0
    BY SumEmpty
  <2>2. QED
    BY <1>3, <2>1, Parts
<1>5. Sound(e) /\ Spare(e) = n /\ Spare(reservation[r]) = 0
  BY <1>2, <1>3, LimitIsNat DEF Sound, Spare, Envelope
<1>6. peak_backing' \in Nat /\ peak_committed' \in Nat
  <2>1. Backing' = Backing
    BY DEF Publish, Backing
  <2>2. Committed' = Committed + n
    <3>1. reserved_unbacked' = reserved_unbacked + n
      BY DEF Publish
    <3>2. reserved_unbacked \in Nat /\ Backing \in Nat
      BY Parts
    <3>3. QED
      BY <1>2, <2>1, <3>1, <3>2 DEF Committed
  <2>3. /\ peak_backing' = Larger(peak_backing, Backing')
        /\ peak_committed' = Larger(peak_committed, Committed')
    BY DEF Publish, UpdatePeaks
  <2>4. QED
    BY <1>2, <2>1, <2>2, <2>3, Parts DEF Larger
<1>7. /\ reserved_unbacked' = reserved_unbacked - Spare(reservation[r]) + Spare(e)
      /\ open_reservations' = open_reservations
           - (IF reservation[r].open THEN 1 ELSE 0) + (IF e.open THEN 1 ELSE 0)
      /\ e.charged = reservation[r].charged
  BY <1>2, <1>3, <1>4, <1>5, Parts DEF Publish
<1>8. usage' = usage
  BY DEF Publish
<1> HIDE DEF e
<1>9. QED
  BY <1>1, <1>3, <1>5, <1>6, <1>7, <1>8, EnvelopeStep DEF e

LEMMA ReduceCapacityStep ==
  ASSUME IInv, NEW r \in Reservations, NEW n \in 0 .. Limit, ReduceCapacity(r, n)
  PROVE  IInv'
<1> DEFINE e == [reservation[r] EXCEPT !.capacity = n]
<1>1. /\ reservation[r] \in Envelope /\ reservation[r].open
      /\ Sound(reservation[r])
      /\ reservation[r].charged <= n /\ n <= reservation[r].capacity
  BY Parts, LimitIsNat DEF ReduceCapacity, Envelope
<1>2. /\ Sound(e) /\ e.charged = reservation[r].charged /\ e.open
      /\ Spare(reservation[r]) = reservation[r].capacity - reservation[r].charged
      /\ Spare(e) = n - reservation[r].charged
  BY <1>1 DEF Sound, Spare, Envelope
<1>3. reserved_unbacked' = reserved_unbacked - Spare(reservation[r]) + Spare(e)
  <2>1. reserved_unbacked' = reserved_unbacked - (reservation[r].capacity - n)
    BY DEF ReduceCapacity
  <2>2. /\ reserved_unbacked \in Nat /\ n \in Nat
        /\ reservation[r].capacity \in Nat /\ reservation[r].charged \in Nat
    BY <1>1, Parts, LimitIsNat DEF Envelope
  <2>3. QED
    BY <1>2, <2>1, <2>2
<1>4. /\ reservation' = [reservation EXCEPT ![r] = e]
      /\ queue' \in Seq(Callers) /\ call' \in [Callers -> CallStates]
      /\ UNCHANGED <<usage, ticket>>
      /\ peak_backing' \in Nat /\ peak_committed' \in Nat
  BY Parts, NotifyAllType DEF ReduceCapacity
<1>5. open_reservations' = open_reservations
        - (IF reservation[r].open THEN 1 ELSE 0) + (IF e.open THEN 1 ELSE 0)
  BY <1>1, <1>2, Parts DEF ReduceCapacity
<1> HIDE DEF e
<1>6. QED
  BY <1>2, <1>3, <1>4, <1>5, EnvelopeStep

LEMMA CloseReservationStep ==
  ASSUME IInv, NEW r \in Reservations, CloseReservation(r)
  PROVE  IInv'
<1> DEFINE e == [open |-> FALSE, capacity |-> 0, charged |-> reservation[r].charged]
<1>1. /\ reservation[r] \in Envelope /\ reservation[r].open
      /\ Sound(reservation[r])
  BY Parts DEF CloseReservation
<1>2. /\ Sound(e) /\ e.charged = reservation[r].charged /\ ~e.open
      /\ Spare(reservation[r]) = reservation[r].capacity - reservation[r].charged
      /\ Spare(e) = 0
  <2>2. reservation[r].charged \in 0 .. Limit /\ 0 \in 0 .. Limit
    BY <1>1, LimitIsNat DEF Envelope
  <2>3. e \in Envelope
    BY <2>2 DEF Envelope
  <2>4. QED
    BY <1>1, <2>3 DEF Sound, Spare
<1>3. reserved_unbacked' = reserved_unbacked - Spare(reservation[r]) + Spare(e)
  BY <1>1, <1>2, Parts, LimitIsNat DEF CloseReservation, Envelope
<1>4. /\ reservation' = [reservation EXCEPT ![r] = e]
      /\ queue' \in Seq(Callers) /\ call' \in [Callers -> CallStates]
      /\ UNCHANGED <<usage, ticket>>
      /\ peak_backing' \in Nat /\ peak_committed' \in Nat
  BY Parts, NotifyAllType DEF CloseReservation
<1>5. open_reservations' = open_reservations
        - (IF reservation[r].open THEN 1 ELSE 0) + (IF e.open THEN 1 ELSE 0)
  BY <1>1, <1>2, Parts DEF CloseReservation
<1> HIDE DEF e
<1>6. QED
  BY <1>2, <1>3, <1>4, <1>5, EnvelopeStep

-------------------------------------------------------------------------------
(* The charges of the envelopes, and the unbacked bytes, after a ticket     *)
(* went from state k to state new.                                         *)
ChargesFollow(k, new) ==
  \A r \in Reservations :
    /\ reservation'[r].open = reservation[r].open
    /\ reservation'[r].charged = reservation[r].charged
         - (IF k.owner = r THEN k.capacity ELSE 0)
         + (IF new.owner = r THEN new.capacity ELSE 0)

UnbackedFollows(k, new) ==
  reserved_unbacked' = reserved_unbacked
    - SumOver(Unspent, Reservations) + SumOver(Unspent, Reservations)'
    - (IF k.phase = "pending" THEN k.capacity ELSE 0)
    + (IF new.phase = "pending" THEN new.capacity ELSE 0)

(* A ticket goes from one state to another, and the envelopes' charges with *)
(* it.                                                                     *)
LEMMA TicketStep ==
  ASSUME IInv, NEW t \in Tickets, NEW new \in TicketStates,
         ticket' = [ticket EXCEPT ![t] = new],
         usage' = [s \in Scopes |-> Moved(usage[s], s, ticket[t], new)],
         reservation' \in [Reservations -> Envelope],
         \A r \in Reservations : Sound(reservation'[r]),
         ChargesFollow(ticket[t], new), UnbackedFollows(ticket[t], new),
         open_reservations' = open_reservations,
         queue' \in Seq(Callers), call' \in [Callers -> CallStates],
         peak_backing' \in Nat, peak_committed' \in Nat
  PROVE  IInv'
<1>1. UsageMatchesTickets' /\ usage' \in [Scopes -> Usage]
  BY UsageFollowsTicket DEF IInv
<1>2. All \in Scopes
  BY DEF Scopes
<1>3. /\ SumOver(Capacities, InPhase(All, "pending"))' =
           SumOver(Capacities, InPhase(All, "pending"))
             - (IF ticket[t].phase = "pending" THEN ticket[t].capacity ELSE 0)
             + (IF new.phase = "pending" THEN new.capacity ELSE 0)
      /\ SumOver(Capacities, InPhase(All, "pending"))' \in Nat
  <2>1. /\ SumOver(Capacities, InPhase(All, "pending"))' =
             SumOver(Capacities, InPhase(All, "pending"))
               - Part(ticket[t], All, "pending", ticket[t].capacity)
               + Part(new, All, "pending", new.capacity)
        /\ SumOver(Capacities, InPhase(All, "pending"))' \in Nat
    BY <1>2, Parts, TicketChange
  <2>2. QED
    BY <2>1 DEF Part, In
<1>4. /\ ticket[t].capacity \in Nat /\ new.capacity \in Nat
  BY Parts, TicketNumbers
<1>5. SumOver(Unspent, Reservations)' \in Nat
  <2> DEFINE g == Unspent'
  <2>1. \A x \in Reservations : g[x] \in Nat
    <3>1. \A x \in Reservations : Spare(reservation'[x]) \in Nat
      BY SpareType
    <3>2. QED
      BY <3>1 DEF Unspent, Spare
  <2> HIDE DEF g
  <2>2. SumOver(g, Reservations) \in Nat
    BY <2>1, BudgetAssumption, SumType
  <2>3. QED
    BY <2>2 DEF g
<1> DEFINE gone == IF ticket[t].phase = "pending" THEN ticket[t].capacity ELSE 0
           come == IF new.phase = "pending" THEN new.capacity ELSE 0
<1>6. /\ reserved_unbacked' = SumOver(Unspent, Reservations)'
                              + SumOver(Capacities, InPhase(All, "pending"))'
      /\ reserved_unbacked' \in Nat
  <2>1. gone \in Nat /\ come \in Nat
    BY <1>4
  <2>2. /\ reserved_unbacked' = reserved_unbacked - SumOver(Unspent, Reservations)
                + SumOver(Unspent, Reservations)' - gone + come
        /\ SumOver(Capacities, InPhase(All, "pending"))' =
             SumOver(Capacities, InPhase(All, "pending")) - gone + come
    BY <1>3 DEF UnbackedFollows
  <2> DEFINE U  == SumOver(Unspent, Reservations)
             U2 == SumOver(Unspent, Reservations)'
             P  == SumOver(Capacities, InPhase(All, "pending"))
             P2 == SumOver(Capacities, InPhase(All, "pending"))'
  <2>3. /\ U \in Nat /\ U2 \in Nat /\ P \in Nat /\ P2 \in Nat
        /\ reserved_unbacked = U + P
        /\ reserved_unbacked' = reserved_unbacked - U + U2 - gone + come
        /\ P2 = P - gone + come
        /\ reserved_unbacked \in Int /\ reserved_unbacked' \in Int
    BY <1>3, <1>5, <2>1, <2>2, Parts
  <2> HIDE DEF gone, come, U, U2, P, P2
  <2>4. reserved_unbacked' = U2 + P2
    BY <2>1, <2>3
  <2>5. QED
    BY <2>3, <2>4 DEF U2, P2
<1>7. ASSUME NEW r \in Reservations
      PROVE  reservation'[r].charged = SumOver(Capacities, Owned(r))'
  <2>1. SumOver(Capacities, Owned(r))' =
          SumOver(Capacities, Owned(r))
            - (IF ticket[t].owner = r THEN ticket[t].capacity ELSE 0)
            + (IF new.owner = r THEN new.capacity ELSE 0)
    <3>1. ticket \in [Tickets -> TicketStates]
      BY Parts
    <3>2. QED
      BY <3>1, OwnerChange
  <2>2. reservation[r].charged = SumOver(Capacities, Owned(r))
    BY Parts
  <2>3. QED
    BY <2>1, <2>2 DEF ChargesFollow
<1>8. open_reservations' = Cardinality({r \in Reservations : reservation'[r].open})
  <2>1. {r \in Reservations : reservation'[r].open} =
          {r \in Reservations : reservation[r].open}
    BY DEF ChargesFollow
  <2>2. open_reservations = Cardinality({r \in Reservations : reservation[r].open})
    BY Parts
  <2>3. QED
    BY <2>1, <2>2
<1>9. BytesAreConserved'
  BY <1>6, <1>7, <1>8 DEF BytesAreConserved, Sound
<1>10. TypeOK'
  BY <1>1, <1>6, Parts DEF TypeOK
<1>11. QED
  BY <1>1, <1>9, <1>10 DEF IInv

(* A usage record in which nothing moves. *)
LEMMA NotMoved ==
  ASSUME NEW u \in Usage, NEW s, NEW k \in TicketStates, NEW new \in TicketStates,
         k.phase # "none" => s \notin {All, k.class},
         new.phase # "none" => s \notin {All, new.class}
  PROVE  Moved(u, s, k, new) = u
<1>1. \A p \in {"live", "idle", "pending"} : ~In(k, s, p) /\ ~In(new, s, p)
  BY DEF In
<1>2. \A p \in {"live", "idle", "pending"} :
        \A n : Part(k, s, p, n) = 0 /\ Part(new, s, p, n) = 0
  BY <1>1 DEF Part
<1>3. QED
  BY <1>2 DEF Moved, Usage

LEMMA PrepareAllocationStep ==
  ASSUME IInv, NEW r \in Reservations, NEW t \in Tickets, NEW k \in Classes,
         NEW a \in Sizes, NEW n \in Sizes, PrepareAllocation(r, t, k, a, n)
  PROVE  IInv'
<1> DEFINE new == [phase |-> "pending", owner |-> r, capacity |-> n,
                   requested |-> a, class |-> k]
           e   == [reservation[r] EXCEPT !.charged = reservation[r].charged + n]
           Charged(u, m) ==
             [live_requested |-> u.live_requested, live |-> u.live, idle |-> u.idle,
              pending |-> u.pending + m, backing_count |-> u.backing_count,
              pending_count |-> u.pending_count + 1]
<1>1. new \in TicketStates
  BY DEF TicketStates
<1>2. ticket[t] = NoTicket
  BY Parts, TicketNumbers DEF PrepareAllocation
<1>3. n \in Nat /\ n \in 0 .. Limit
  BY BudgetAssumption, LimitIsNat
<1>4. ASSUME NEW s \in Scopes
      PROVE  usage'[s] = Moved(usage[s], s, ticket[t], new)
  <2>1. usage[s] \in Usage
    BY Parts
  <2>2. CASE s \in {All, k}
    <3>1. \A p \in {"live", "idle", "pending"} : \A m : Part(ticket[t], s, p, m) = 0
      BY <1>2 DEF Part, In, NoTicket
    <3>2. \A m : /\ Part(new, s, "live", m) = 0 /\ Part(new, s, "idle", m) = 0
                 /\ Part(new, s, "pending", m) = m
      BY <2>2 DEF Part, In
    <3>3. usage'[s] = [usage[s] EXCEPT !.pending = @ + n, !.pending_count = @ + 1]
      BY <2>2 DEF PrepareAllocation
    <3>4. usage'[s] = Charged(usage[s], n)
      BY <2>1, <3>3 DEF Charged, Usage
    <3>5. Moved(usage[s], s, ticket[t], new) = Charged(usage[s], n)
      BY <1>3, <2>1, <3>1, <3>2 DEF Moved, Charged, Usage
    <3>6. QED
      BY <3>4, <3>5
  <2>3. CASE s \notin {All, k}
    <3>1. usage'[s] = usage[s]
      BY <2>3 DEF PrepareAllocation
    <3>2. ticket[t] \in TicketStates
      BY Parts
    <3>3. QED
      BY <1>1, <1>2, <2>1, <2>3, <3>1, <3>2, NotMoved DEF NoTicket
  <2>4. QED
    BY <2>2, <2>3
<1>5. usage' = [s \in Scopes |-> Moved(usage[s], s, ticket[t], new)]
  BY <1>4 DEF PrepareAllocation
<1>6. /\ reservation[r] \in Envelope /\ Sound(reservation[r]) /\ reservation[r].open
      /\ n <= reservation[r].capacity - reservation[r].charged
  BY Parts DEF PrepareAllocation
<1>7. /\ e \in Envelope /\ Sound(e) /\ e.open /\ e.charged = reservation[r].charged + n
      /\ Spare(e) = Spare(reservation[r]) - n
  BY <1>3, <1>6, LimitIsNat DEF Sound, Spare, Envelope
<1>8. reservation' = [reservation EXCEPT ![r] = e]
  BY DEF PrepareAllocation
<1>9. /\ SumOver(Unspent, Reservations)' = SumOver(Unspent, Reservations) - n
      /\ SumOver(Unspent, Reservations)' \in Nat /\ SumOver(Unspent, Reservations) \in Nat
  <2>1. /\ SumOver(Unspent, Reservations)' =
            SumOver(Unspent, Reservations) - Spare(reservation[r]) + Spare(e)
        /\ SumOver(Unspent, Reservations)' \in Nat /\ SumOver(Unspent, Reservations) \in Nat
    BY <1>7, <1>8, Parts, UnspentChange
  <2>2. Spare(reservation[r]) \in Nat
    BY <1>6, SpareType
  <2>3. QED
    BY <1>3, <1>7, <2>1, <2>2
<1>10. ASSUME NEW x \in Reservations
       PROVE  /\ reservation'[x].open = reservation[x].open
              /\ reservation'[x].charged = reservation[x].charged
                   - (IF ticket[t].owner = x THEN ticket[t].capacity ELSE 0)
                   + (IF new.owner = x THEN new.capacity ELSE 0)
  <2>1. ticket[t].owner # x /\ reservation[x].charged \in Nat
    BY <1>2, BudgetAssumption, Parts, LimitIsNat DEF NoTicket, Envelope
  <2>2. CASE x = r
    <3>1. reservation'[x] = e /\ new.owner = x /\ new.capacity = n
      BY <1>8, <2>2, Parts
    <3>2. e.open = reservation[x].open /\ e.charged = reservation[x].charged + n
      BY <1>6, <1>7, <2>2
    <3> HIDE DEF new, e
    <3>3. QED
      BY <1>3, <2>1, <3>1, <3>2
  <2>3. CASE x # r
    <3>1. reservation'[x] = reservation[x] /\ new.owner # x
      BY <1>8, <2>3, Parts
    <3> HIDE DEF new, e
    <3>2. QED
      BY <2>1, <3>1
  <2>4. QED
    BY <2>2, <2>3
<1>11. reserved_unbacked' = reserved_unbacked
         - SumOver(Unspent, Reservations) + SumOver(Unspent, Reservations)'
         - (IF ticket[t].phase = "pending" THEN ticket[t].capacity ELSE 0)
         + (IF new.phase = "pending" THEN new.capacity ELSE 0)
  <2>1. reserved_unbacked' = reserved_unbacked /\ reserved_unbacked \in Nat
    BY Parts DEF PrepareAllocation
  <2>2. /\ ticket[t].phase # "pending"
        /\ new.phase = "pending" /\ new.capacity = n
    BY <1>2 DEF NoTicket
  <2> HIDE DEF new
  <2>3. QED
    BY <1>3, <1>9, <2>1, <2>2
<1>12. /\ reservation' \in [Reservations -> Envelope]
       /\ \A x \in Reservations : Sound(reservation'[x])
  BY <1>7, <1>8, Parts
<1>13. /\ ticket' = [ticket EXCEPT ![t] = new]
       /\ open_reservations' = open_reservations
       /\ queue' \in Seq(Callers) /\ call' \in [Callers -> CallStates]
       /\ peak_backing' \in Nat /\ peak_committed' \in Nat
  BY Parts DEF PrepareAllocation
<1> HIDE DEF new, e
<1>14. QED
  BY <1>1, <1>5, <1>10, <1>11, <1>12, <1>13, TicketStep DEF ChargesFollow, UnbackedFollows

(* A ticket that stays with its envelope and keeps its capacity. *)
LEMMA StayStep ==
  ASSUME IInv, NEW t \in Tickets, NEW new \in TicketStates,
         ticket' = [ticket EXCEPT ![t] = new],
         usage' = [s \in Scopes |-> Moved(usage[s], s, ticket[t], new)],
         reservation' = reservation,
         new.owner = ticket[t].owner, new.capacity = ticket[t].capacity,
         reserved_unbacked' = reserved_unbacked
           - (IF ticket[t].phase = "pending" THEN ticket[t].capacity ELSE 0)
           + (IF new.phase = "pending" THEN new.capacity ELSE 0),
         UNCHANGED <<open_reservations, queue, call>>,
         peak_backing' \in Nat, peak_committed' \in Nat
  PROVE  IInv'
<1>1. ticket[t].capacity \in Nat
  BY Parts, TicketNumbers
<1>2. \A r \in Reservations : reservation[r].charged \in Nat
  BY Parts, LimitIsNat DEF Envelope
<1>3. \A r \in Reservations :
        /\ reservation'[r].open = reservation[r].open
        /\ reservation'[r].charged = reservation[r].charged
             - (IF ticket[t].owner = r THEN ticket[t].capacity ELSE 0)
             + (IF new.owner = r THEN new.capacity ELSE 0)
  BY <1>1, <1>2
<1>4. SumOver(Unspent, Reservations)' = SumOver(Unspent, Reservations)
  BY DEF Unspent
<1>5. SumOver(Unspent, Reservations) \in Nat /\ reserved_unbacked \in Nat
  BY Parts
<1>6. reserved_unbacked' = reserved_unbacked
        - SumOver(Unspent, Reservations) + SumOver(Unspent, Reservations)'
        - (IF ticket[t].phase = "pending" THEN ticket[t].capacity ELSE 0)
        + (IF new.phase = "pending" THEN new.capacity ELSE 0)
  BY <1>1, <1>4, <1>5
<1>7. /\ reservation' \in [Reservations -> Envelope]
      /\ \A r \in Reservations : Sound(reservation'[r])
      /\ queue' \in Seq(Callers) /\ call' \in [Callers -> CallStates]
      /\ open_reservations' = open_reservations
  BY Parts
<1>8. QED
  BY <1>3, <1>6, <1>7, TicketStep DEF ChargesFollow, UnbackedFollows

(* The peaks remain numbers. *)
LEMMA PeaksType ==
  ASSUME IInv, UpdatePeaks, Backing' \in Int, Committed' \in Int
  PROVE  peak_backing' \in Int /\ peak_committed' \in Int
         /\ peak_backing' \in Nat /\ peak_committed' \in Nat
  BY Parts DEF UpdatePeaks, Larger

LEMMA CommitStep ==
  ASSUME IInv, NEW t \in Tickets, Commit(t)
  PROVE  IInv'
<1> DEFINE k   == ticket[t]
           n   == ticket[t].capacity
           q   == ticket[t].requested
           new == [ticket[t] EXCEPT !.phase = "live"]
           Backed(u) ==
             [live_requested |-> u.live_requested + q, live |-> u.live + n,
              idle |-> u.idle, pending |-> u.pending - n,
              backing_count |-> u.backing_count + 1,
              pending_count |-> u.pending_count - 1]
<1>1. /\ k \in TicketStates /\ k.phase = "pending" /\ k # NoTicket
      /\ n \in Nat /\ q \in Nat
      /\ k \in [phase : {"pending", "live", "idle"}, owner : Reservations,
                capacity : Sizes, requested : Sizes, class : Classes]
  BY Parts, TicketNumbers DEF Commit, NoTicket, TicketStates
<1>2. /\ new \in TicketStates /\ new.phase = "live" /\ new.owner = k.owner
      /\ new.capacity = n /\ new.requested = q /\ new.class = k.class
  BY <1>1 DEF TicketStates
<1>3. ticket' = [ticket EXCEPT ![t] = new]
  BY DEF Commit
<1>4. ASSUME NEW s \in Scopes
      PROVE  usage'[s] = Moved(usage[s], s, k, new)
  <2>1. usage[s] \in Usage
    BY Parts
  <2>2. CASE s \in {All, k.class}
    <3>1. \A m : /\ Part(k, s, "live", m) = 0 /\ Part(k, s, "idle", m) = 0
                 /\ Part(k, s, "pending", m) = m
      BY <1>1, <2>2 DEF Part, In
    <3>2. \A m : /\ Part(new, s, "live", m) = m /\ Part(new, s, "idle", m) = 0
                 /\ Part(new, s, "pending", m) = 0
      BY <1>2, <2>2 DEF Part, In
    <3>3. usage'[s] = [usage[s] EXCEPT !.pending = @ - n, !.pending_count = @ - 1,
                         !.live = @ + n, !.live_requested = @ + q,
                         !.backing_count = @ + 1]
      BY <2>2 DEF Commit, ForUsage
    <3>4. usage'[s] = Backed(usage[s])
      BY <2>1, <3>3 DEF Usage
    <3> HIDE DEF new
    <3>5. Moved(usage[s], s, k, new) = Backed(usage[s])
      BY <1>1, <1>2, <2>1, <3>1, <3>2 DEF Moved, Usage
    <3>6. QED
      BY <3>4, <3>5
  <2>3. CASE s \notin {All, k.class}
    <3>1. usage'[s] = usage[s]
      BY <2>3 DEF Commit, ForUsage
    <3>2. QED
      BY <1>1, <1>2, <2>1, <2>3, <3>1, NotMoved
  <2>4. QED
    BY <2>2, <2>3
<1>5. usage' = [s \in Scopes |-> Moved(usage[s], s, ticket[t], new)]
  BY <1>4 DEF Commit, ForUsage
<1>6. All \in Scopes
  BY DEF Scopes
<1>7. peak_backing' \in Nat /\ peak_committed' \in Nat
  <2>1. usage'[All] \in Usage
    BY <1>2, <1>3, <1>5, <1>6, UsageFollowsTicket DEF IInv
  <2>2. reserved_unbacked' \in Int
    BY <1>1, Parts DEF Commit
  <2>3. Backing' \in Int /\ Committed' \in Int
    BY <2>1, <2>2 DEF Backing, Committed, Usage
  <2>4. QED
    BY <2>3, PeaksType DEF Commit
<1>8. reserved_unbacked' = reserved_unbacked
        - (IF ticket[t].phase = "pending" THEN ticket[t].capacity ELSE 0)
        + (IF new.phase = "pending" THEN new.capacity ELSE 0)
  <2>1. reserved_unbacked' = reserved_unbacked - n /\ reserved_unbacked \in Nat
    BY Parts DEF Commit
  <2>2. QED
    BY <1>1, <1>2, <2>1
<1>9. reservation' = reservation /\ UNCHANGED <<open_reservations, queue, call>>
  BY DEF Commit
<1> HIDE DEF new
<1>10. QED
  BY <1>2, <1>3, <1>5, <1>7, <1>8, <1>9, StayStep

LEMMA MakeIdleStep ==
  ASSUME IInv, NEW t \in Tickets, MakeIdle(t)
  PROVE  IInv'
<1> DEFINE k   == ticket[t]
           n   == ticket[t].capacity
           q   == ticket[t].requested
           new == [ticket[t] EXCEPT !.phase = "idle"]
           After(u) ==
             [live_requested |-> u.live_requested - q, live |-> u.live - n,
              idle |-> u.idle + n, pending |-> u.pending,
              backing_count |-> u.backing_count,
              pending_count |-> u.pending_count]
<1>1. /\ k \in TicketStates /\ k.phase = "live" /\ k # NoTicket
      /\ n \in Nat /\ q \in Nat
      /\ k \in [phase : {"pending", "live", "idle"}, owner : Reservations,
                capacity : Sizes, requested : Sizes, class : Classes]
  BY BudgetAssumption, Parts, TicketNumbers DEF MakeIdle, NoTicket, TicketStates
<1>2. /\ new \in TicketStates /\ new.phase = "idle" /\ new.owner = k.owner
      /\ new.capacity = n /\ new.requested = q /\ new.class = k.class
  BY <1>1 DEF TicketStates
<1>3. ticket' = [ticket EXCEPT ![t] = new]
  BY Parts DEF MakeIdle
<1>4. ASSUME NEW s \in Scopes
      PROVE  usage'[s] = Moved(usage[s], s, k, new)
  <2>1. usage[s] \in Usage
    BY Parts
  <2>2. CASE s \in {All, k.class}
    <3>1. \A m : /\ Part(k, s, "live", m) = m /\ Part(k, s, "idle", m) = 0
                 /\ Part(k, s, "pending", m) = 0
      BY <1>1, <2>2 DEF Part, In
    <3>2. \A m : /\ Part(new, s, "live", m) = 0 /\ Part(new, s, "idle", m) = m
                 /\ Part(new, s, "pending", m) = 0
      BY <1>2, <2>2 DEF Part, In
    <3>3. usage'[s] = [usage[s] EXCEPT !.live_requested = @ - q,
                                         !.live = @ - n, !.idle = @ + n]
      BY <2>2 DEF MakeIdle, ForUsage
    <3>4. usage'[s] = After(usage[s])
      BY <2>1, <3>3 DEF Usage
    <3> HIDE DEF new
    <3>5. Moved(usage[s], s, k, new) = After(usage[s])
      BY <1>1, <1>2, <2>1, <3>1, <3>2 DEF Moved, Usage
    <3>6. QED
      BY <3>4, <3>5
  <2>3. CASE s \notin {All, k.class}
    <3>1. usage'[s] = usage[s]
      BY <2>3 DEF MakeIdle, ForUsage
    <3>2. QED
      BY <1>1, <1>2, <2>1, <2>3, <3>1, NotMoved
  <2>4. QED
    BY <2>2, <2>3
<1>5. usage' = [s \in Scopes |-> Moved(usage[s], s, ticket[t], new)]
  BY <1>4 DEF MakeIdle, ForUsage
<1>6. reserved_unbacked' = reserved_unbacked
        - (IF ticket[t].phase = "pending" THEN ticket[t].capacity ELSE 0)
        + (IF new.phase = "pending" THEN new.capacity ELSE 0)
  BY <1>1, <1>2, Parts DEF MakeIdle
<1>7. /\ reservation' = reservation /\ UNCHANGED <<open_reservations, queue, call>>
      /\ peak_backing' \in Nat /\ peak_committed' \in Nat
  BY Parts DEF MakeIdle
<1> HIDE DEF new
<1>8. QED
  BY <1>2, <1>3, <1>5, <1>6, <1>7, StayStep

LEMMA MakeLiveStep ==
  ASSUME IInv, NEW t \in Tickets, NEW asked \in Sizes, MakeLive(t, asked)
  PROVE  IInv'
<1> DEFINE k   == ticket[t]
           n   == ticket[t].capacity
           q   == ticket[t].requested
           new == [ticket[t] EXCEPT !.phase = "live", !.requested = asked]
           After(u) ==
             [live_requested |-> u.live_requested + asked, live |-> u.live + n,
              idle |-> u.idle - n, pending |-> u.pending,
              backing_count |-> u.backing_count,
              pending_count |-> u.pending_count]
<1>1. /\ k \in TicketStates /\ k.phase = "idle" /\ k # NoTicket
      /\ n \in Nat /\ q \in Nat /\ asked \in Nat
      /\ k \in [phase : {"pending", "live", "idle"}, owner : Reservations,
                capacity : Sizes, requested : Sizes, class : Classes]
  BY BudgetAssumption, Parts, TicketNumbers DEF MakeLive, NoTicket, TicketStates
<1>2. /\ new \in TicketStates /\ new.phase = "live" /\ new.owner = k.owner
      /\ new.capacity = n /\ new.requested = asked /\ new.class = k.class
  BY <1>1 DEF TicketStates
<1>3. ticket' = [ticket EXCEPT ![t] = new]
  BY Parts DEF MakeLive
<1>4. ASSUME NEW s \in Scopes
      PROVE  usage'[s] = Moved(usage[s], s, k, new)
  <2>1. usage[s] \in Usage
    BY Parts
  <2>2. CASE s \in {All, k.class}
    <3>1. \A m : /\ Part(k, s, "live", m) = 0 /\ Part(k, s, "idle", m) = m
                 /\ Part(k, s, "pending", m) = 0
      BY <1>1, <2>2 DEF Part, In
    <3>2. \A m : /\ Part(new, s, "live", m) = m /\ Part(new, s, "idle", m) = 0
                 /\ Part(new, s, "pending", m) = 0
      BY <1>2, <2>2 DEF Part, In
    <3>3. usage'[s] = [usage[s] EXCEPT !.idle = @ - n, !.live = @ + n,
                                         !.live_requested = @ + asked]
      BY <2>2 DEF MakeLive, ForUsage
    <3>4. usage'[s] = After(usage[s])
      BY <2>1, <3>3 DEF Usage
    <3> HIDE DEF new
    <3>5. Moved(usage[s], s, k, new) = After(usage[s])
      BY <1>1, <1>2, <2>1, <3>1, <3>2 DEF Moved, Usage
    <3>6. QED
      BY <3>4, <3>5
  <2>3. CASE s \notin {All, k.class}
    <3>1. usage'[s] = usage[s]
      BY <2>3 DEF MakeLive, ForUsage
    <3> HIDE DEF new
    <3>2. QED
      BY <1>1, <1>2, <2>1, <2>3, <3>1, NotMoved
  <2>4. QED
    BY <2>2, <2>3
<1>5. usage' = [s \in Scopes |-> Moved(usage[s], s, ticket[t], new)]
  BY <1>4 DEF MakeLive, ForUsage
<1>6. reserved_unbacked' = reserved_unbacked
        - (IF ticket[t].phase = "pending" THEN ticket[t].capacity ELSE 0)
        + (IF new.phase = "pending" THEN new.capacity ELSE 0)
  BY <1>1, <1>2, Parts DEF MakeLive
<1>7. /\ reservation' = reservation /\ UNCHANGED <<open_reservations, queue, call>>
      /\ peak_backing' \in Nat /\ peak_committed' \in Nat
  BY Parts DEF MakeLive
<1> HIDE DEF new
<1>8. QED
  BY <1>2, <1>3, <1>5, <1>6, <1>7, StayStep

(* Uncharge takes out of a usage record what a ticket in scope adds to it. *)
LEMMA UnchargeMoves ==
  ASSUME NEW t \in Tickets, NEW u \in Usage, NEW s, NEW new,
         ticket[t] \in TicketStates, ticket[t].phase # "none",
         s \in {All, ticket[t].class},
         \A p \in {"live", "idle", "pending"} : ~In(new, s, p)
  PROVE  Moved(u, s, ticket[t], new) = Uncharge(u, t)
<1> DEFINE k == ticket[t]
           n == ticket[t].capacity
<1>1. \A p \in {"live", "idle", "pending"} : \A m : Part(new, s, p, m) = 0
  BY DEF Part
<1>2. \A p \in {"live", "idle", "pending"} : \A m : Part(k, s, p, m) = IF k.phase = p THEN m ELSE 0
  BY DEF Part, In
<1>3. n \in Nat /\ k.requested \in Nat /\ k.phase \in {"pending", "live", "idle"}
  BY TicketNumbers
<1>4. CASE k.phase = "pending"
  <2>1. Uncharge(u, t) =
          [live_requested |-> u.live_requested, live |-> u.live, idle |-> u.idle,
           pending |-> u.pending - n, backing_count |-> u.backing_count,
           pending_count |-> u.pending_count - 1]
    BY <1>4 DEF Uncharge, Usage
  <2>2. QED
    BY <1>1, <1>2, <1>3, <1>4, <2>1 DEF Moved, Usage
<1>5. CASE k.phase = "live"
  <2>1. Uncharge(u, t) =
          [live_requested |-> u.live_requested - k.requested, live |-> u.live - n,
           idle |-> u.idle, pending |-> u.pending,
           backing_count |-> u.backing_count - 1, pending_count |-> u.pending_count]
    BY <1>5 DEF Uncharge, Usage
  <2>2. QED
    BY <1>1, <1>2, <1>3, <1>5, <2>1 DEF Moved, Usage
<1>6. CASE k.phase = "idle"
  <2>1. Uncharge(u, t) =
          [live_requested |-> u.live_requested, live |-> u.live,
           idle |-> u.idle - n, pending |-> u.pending,
           backing_count |-> u.backing_count - 1, pending_count |-> u.pending_count]
    BY <1>6 DEF Uncharge, Usage
  <2>2. QED
    BY <1>1, <1>2, <1>3, <1>6, <2>1 DEF Moved, Usage
<1>7. QED
  BY <1>3, <1>4, <1>5, <1>6

(* Recharge brings in what the ticket adds once it is in scope. *)
LEMMA RechargeMoves ==
  ASSUME NEW t \in Tickets, NEW u \in Usage, NEW s, NEW new,
         ticket[t] \in TicketStates, ticket[t].phase # "none",
         \A p \in {"live", "idle", "pending"} : ~In(ticket[t], s, p),
         s \in {All, new.class}, new.phase = ticket[t].phase,
         new.capacity = ticket[t].capacity, new.requested = ticket[t].requested
  PROVE  Moved(u, s, ticket[t], new) = Recharge(u, t)
<1> DEFINE k == ticket[t]
           n == ticket[t].capacity
<1>1. \A p \in {"live", "idle", "pending"} : \A m : Part(k, s, p, m) = 0
  BY DEF Part
<1>2. \A p \in {"live", "idle", "pending"} : \A m : Part(new, s, p, m) = IF k.phase = p THEN m ELSE 0
  BY DEF Part, In
<1>3. n \in Nat /\ k.requested \in Nat /\ k.phase \in {"pending", "live", "idle"}
  BY TicketNumbers
<1>4. CASE k.phase = "pending"
  <2>1. Recharge(u, t) =
          [live_requested |-> u.live_requested, live |-> u.live, idle |-> u.idle,
           pending |-> u.pending + n, backing_count |-> u.backing_count,
           pending_count |-> u.pending_count + 1]
    BY <1>4 DEF Recharge, Usage
  <2>2. QED
    BY <1>1, <1>2, <1>3, <1>4, <2>1 DEF Moved, Usage
<1>5. CASE k.phase = "live"
  <2>1. Recharge(u, t) =
          [live_requested |-> u.live_requested + k.requested, live |-> u.live + n,
           idle |-> u.idle, pending |-> u.pending,
           backing_count |-> u.backing_count + 1, pending_count |-> u.pending_count]
    BY <1>5 DEF Recharge, Usage
  <2>2. QED
    BY <1>1, <1>2, <1>3, <1>5, <2>1 DEF Moved, Usage
<1>6. CASE k.phase = "idle"
  <2>1. Recharge(u, t) =
          [live_requested |-> u.live_requested, live |-> u.live,
           idle |-> u.idle + n, pending |-> u.pending,
           backing_count |-> u.backing_count + 1, pending_count |-> u.pending_count]
    BY <1>6 DEF Recharge, Usage
  <2>2. QED
    BY <1>1, <1>2, <1>3, <1>6, <2>1 DEF Moved, Usage
<1>7. QED
  BY <1>3, <1>4, <1>5, <1>6

(* A ticket that stays in scope with the same phase and numbers. *)
LEMMA MovedBack ==
  ASSUME NEW u \in Usage, NEW s, NEW k \in TicketStates, NEW new,
         \A p \in {"live", "idle", "pending"} : In(k, s, p) <=> In(new, s, p),
         new.capacity = k.capacity, new.requested = k.requested
  PROVE  Moved(u, s, k, new) = u
<1>1. \A p \in {"live", "idle", "pending"} : \A m : Part(k, s, p, m) = Part(new, s, p, m)
  BY DEF Part
<1>2. \A p \in {"live", "idle", "pending"}, m \in Nat : Part(new, s, p, m) \in Nat
  BY DEF Part
<1>3. k.capacity \in Nat /\ k.requested \in Nat
  BY TicketNumbers
<1>4. QED
  BY <1>1, <1>2, <1>3 DEF Moved, Usage

LEMMA ReclassifyStep ==
  ASSUME IInv, NEW t \in Tickets, NEW c \in Classes, Reclassify(t, c)
  PROVE  IInv'
<1> DEFINE k   == ticket[t]
           new == [ticket[t] EXCEPT !.class = c]
<1>1. /\ k \in TicketStates /\ k.phase # "none" /\ k # NoTicket
      /\ k.capacity \in Nat /\ k.class \in Classes /\ c # k.class
      /\ k \in [phase : {"pending", "live", "idle"}, owner : Reservations,
                capacity : Sizes, requested : Sizes, class : Classes]
  BY Parts, TicketNumbers DEF Reclassify, NoTicket, TicketStates
<1>2. /\ new \in TicketStates /\ new.phase = k.phase /\ new.owner = k.owner
      /\ new.capacity = k.capacity /\ new.requested = k.requested /\ new.class = c
  BY <1>1 DEF TicketStates
<1>3. ticket' = [ticket EXCEPT ![t] = new]
  BY DEF Reclassify
<1>4. All \notin Classes
  BY BudgetAssumption
<1>5. usage' = [usage EXCEPT ![k.class] = Uncharge(@, t), ![c] = Recharge(@, t)]
  BY DEF Reclassify
<1> HIDE DEF new
<1>6. ASSUME NEW s \in Scopes
      PROVE  usage'[s] = Moved(usage[s], s, k, new)
  <2>1. usage[s] \in Usage /\ usage \in [Scopes -> Usage]
    BY Parts
  <2>2. CASE s = k.class
    <3>1. usage'[s] = Uncharge(usage[s], t)
      BY <1>1, <1>5, <2>1, <2>2
    <3>2. \A p \in {"live", "idle", "pending"} : ~In(new, s, p)
      BY <1>1, <1>2, <1>4, <2>2 DEF In
    <3>3. QED
      BY <1>1, <2>1, <2>2, <3>1, <3>2, UnchargeMoves
  <2>3. CASE s = c
    <3>1. usage'[s] = Recharge(usage[s], t)
      BY <1>1, <1>5, <2>1, <2>3
    <3>2. \A p \in {"live", "idle", "pending"} : ~In(k, s, p)
      BY <1>1, <1>4, <2>3 DEF In
    <3>3. QED
      BY <1>1, <1>2, <2>1, <2>3, <3>1, <3>2, RechargeMoves
  <2>4. CASE s \notin {c, k.class}
    <3>1. usage'[s] = usage[s]
      BY <1>5, <2>1, <2>4
    <3>2. \A p \in {"live", "idle", "pending"} : In(k, s, p) <=> In(new, s, p)
      BY <1>2, <2>4 DEF In
    <3>3. QED
      BY <1>1, <1>2, <2>1, <3>1, <3>2, MovedBack
  <2>5. QED
    BY <2>2, <2>3, <2>4
<1>7. usage' = [s \in Scopes |-> Moved(usage[s], s, ticket[t], new)]
  BY <1>5, <1>6, Parts
<1>8. reserved_unbacked' = reserved_unbacked
        - (IF ticket[t].phase = "pending" THEN ticket[t].capacity ELSE 0)
        + (IF new.phase = "pending" THEN new.capacity ELSE 0)
  BY <1>1, <1>2, Parts DEF Reclassify
<1>9. /\ reservation' = reservation /\ UNCHANGED <<open_reservations, queue, call>>
      /\ peak_backing' \in Nat /\ peak_committed' \in Nat
  BY Parts DEF Reclassify
<1>10. QED
  BY <1>2, <1>3, <1>7, <1>8, <1>9, StayStep

(* A ticket's owner is charged at least what the ticket is worth. *)
LEMMA OwnerCharged ==
  ASSUME IInv, NEW t \in Tickets, ticket[t].phase # "none"
  PROVE  /\ ticket[t].owner \in Reservations
         /\ ticket[t].capacity <= reservation[ticket[t].owner].charged
<1> DEFINE r == ticket[t].owner
<1>1. r \in Reservations /\ ticket[t].capacity \in 0 .. Limit
  BY Parts, TicketNumbers
<1>2. t \in Owned(r) /\ IsFiniteSet(Owned(r))
  BY SetsAreFinite DEF Owned
<1>3. Capacities[t] = ticket[t].capacity
  BY DEF Capacities
<1>4. Capacities[t] <= SumOver(Capacities, Owned(r))
  <2>1. \A y \in Owned(r) : Capacities[y] \in Nat
    BY Parts, HoldingsType DEF Owned
  <2>2. QED
    BY <1>2, <2>1, SumAtLeast
<1>5. QED
  BY <1>1, <1>3, <1>4, Parts

LEMMA ResetTicketStep ==
  ASSUME IInv, NEW t \in Tickets, ResetTicket(t)
  PROVE  IInv'
<1> DEFINE k == ticket[t]
           n == ticket[t].capacity
           r == ticket[t].owner
           e == [reservation[r] EXCEPT !.charged = reservation[r].charged - n]
           freed == IF reservation[r].open THEN n ELSE 0
           unpend == IF k.phase = "pending" THEN n ELSE 0
<1>1. /\ k \in TicketStates /\ k.phase # "none"
      /\ k.phase \in {"pending", "live", "idle"}
      /\ n \in Nat /\ n \in 0 .. Limit /\ r \in Reservations
      /\ n <= reservation[r].charged
  BY Parts, TicketNumbers, OwnerCharged DEF ResetTicket
<1>2. /\ NoTicket \in TicketStates
      /\ ticket' = [ticket EXCEPT ![t] = NoTicket]
  BY DEF TicketStates, ResetTicket
<1>3. \A s, p : p \in {"live", "idle", "pending"} => ~In(NoTicket, s, p)
  BY DEF In, NoTicket
<1>4. ASSUME NEW s \in Scopes
      PROVE  usage'[s] = Moved(usage[s], s, k, NoTicket)
  <2>1. usage[s] \in Usage
    BY Parts
  <2>2. CASE s \in {All, k.class}
    <3>1. usage'[s] = Uncharge(usage[s], t)
      BY <2>2 DEF ResetTicket, ForUsage
    <3>2. QED
      BY <1>1, <1>3, <2>1, <2>2, <3>1, UnchargeMoves
  <2>3. CASE s \notin {All, k.class}
    <3>1. usage'[s] = usage[s]
      BY <2>3 DEF ResetTicket, ForUsage
    <3>2. QED
      BY <1>1, <1>2, <2>1, <2>3, <3>1, NotMoved DEF NoTicket
  <2>4. QED
    BY <2>2, <2>3
<1>5. usage' = [s \in Scopes |-> Moved(usage[s], s, ticket[t], NoTicket)]
  BY <1>4 DEF ResetTicket, ForUsage
<1>6. /\ reservation[r] \in Envelope /\ Sound(reservation[r])
      /\ reservation[r].charged \in Nat /\ reservation[r].capacity \in Nat
  BY <1>1, Parts, LimitIsNat DEF Envelope
<1>7. /\ e \in Envelope /\ Sound(e) /\ e.open = reservation[r].open
      /\ e.charged = reservation[r].charged - n
      /\ Spare(e) = Spare(reservation[r]) + freed
  BY <1>1, <1>6, LimitIsNat DEF Sound, Spare, Envelope
<1>8. reservation' = [reservation EXCEPT ![r] = e]
  BY Parts DEF ResetTicket
<1>9. freed \in Nat /\ unpend \in Nat
  BY <1>1
<1>10. /\ SumOver(Unspent, Reservations)' = SumOver(Unspent, Reservations) + freed
       /\ SumOver(Unspent, Reservations)' \in Nat /\ SumOver(Unspent, Reservations) \in Nat
  <2>1. Spare(reservation[r]) \in Nat
    BY <1>6, SpareType
  <2>2. /\ SumOver(Unspent, Reservations)' =
            SumOver(Unspent, Reservations) - Spare(reservation[r]) + Spare(e)
        /\ SumOver(Unspent, Reservations)' \in Nat /\ SumOver(Unspent, Reservations) \in Nat
    BY <1>1, <1>7, <1>8, Parts, UnspentChange
  <2> HIDE DEF e, freed
  <2>3. QED
    BY <1>7, <1>9, <2>1, <2>2
<1>11. reserved_unbacked' = reserved_unbacked
         - SumOver(Unspent, Reservations) + SumOver(Unspent, Reservations)'
         - (IF ticket[t].phase = "pending" THEN ticket[t].capacity ELSE 0)
         + (IF NoTicket.phase = "pending" THEN NoTicket.capacity ELSE 0)
  <2>1. reserved_unbacked' = reserved_unbacked + freed - unpend
    BY <1>1, Parts DEF ResetTicket
  <2>2. reserved_unbacked \in Nat
    BY Parts
  <2>3. (IF NoTicket.phase = "pending" THEN NoTicket.capacity ELSE 0) = 0
    BY DEF NoTicket
  <2> HIDE DEF freed
  <2>4. QED
    BY <1>1, <1>9, <1>10, <2>1, <2>2, <2>3
<1>12. ASSUME NEW x \in Reservations
       PROVE  /\ reservation'[x].open = reservation[x].open
              /\ reservation'[x].charged = reservation[x].charged
                   - (IF ticket[t].owner = x THEN ticket[t].capacity ELSE 0)
                   + (IF NoTicket.owner = x THEN NoTicket.capacity ELSE 0)
  <2>1. (IF NoTicket.owner = x THEN NoTicket.capacity ELSE 0) = 0
    BY DEF NoTicket
  <2>2. reservation[x].charged \in Nat
    BY Parts, LimitIsNat DEF Envelope
  <2>3. CASE x = r
    <3>1. reservation'[x] = e
      BY <1>8, <2>3, Parts
    <3> HIDE DEF e
    <3>2. QED
      BY <1>1, <1>6, <1>7, <2>1, <2>3, <3>1
  <2>4. CASE x # r
    <3>1. reservation'[x] = reservation[x]
      BY <1>8, <2>4, Parts
    <3>2. QED
      BY <2>1, <2>2, <2>4, <3>1
  <2>5. QED
    BY <2>3, <2>4
<1>13. /\ reservation' \in [Reservations -> Envelope]
       /\ \A x \in Reservations : Sound(reservation'[x])
  BY <1>1, <1>7, <1>8, Parts
<1>14. /\ open_reservations' = open_reservations
       /\ queue' \in Seq(Callers) /\ call' \in [Callers -> CallStates]
       /\ peak_backing' \in Nat /\ peak_committed' \in Nat
  BY Parts, NotifyAllType DEF ResetTicket
<1> HIDE DEF e
<1>15. QED
  BY <1>2, <1>5, <1>11, <1>12, <1>13, <1>14, TicketStep DEF ChargesFollow, UnbackedFollows

LEMMA TransferToStep ==
  ASSUME IInv, NEW t \in Tickets, NEW next \in Reservations, TransferTo(t, next)
  PROVE  IInv'
<1> DEFINE k    == ticket[t]
           n    == ticket[t].capacity
           from == ticket[t].owner
           new  == [ticket[t] EXCEPT !.owner = next]
           e    == [reservation[from] EXCEPT !.charged = reservation[from].charged - n]
           d    == [reservation[next] EXCEPT !.charged = reservation[next].charged + n]
           freed == IF reservation[from].open THEN n ELSE 0
<1>1. /\ k \in TicketStates /\ k.phase # "none" /\ k # NoTicket
      /\ n \in Nat /\ n \in 0 .. Limit /\ from \in Reservations /\ next # from
      /\ n <= reservation[from].charged
      /\ k \in [phase : {"pending", "live", "idle"}, owner : Reservations,
                capacity : Sizes, requested : Sizes, class : Classes]
  BY Parts, TicketNumbers, OwnerCharged DEF TransferTo, NoTicket, TicketStates
<1>2. /\ new \in TicketStates /\ new.phase = k.phase /\ new.owner = next
      /\ new.capacity = n /\ new.requested = k.requested /\ new.class = k.class
      /\ ticket' = [ticket EXCEPT ![t] = new]
  BY <1>1 DEF TicketStates, TransferTo
<1>3. usage' = [s \in Scopes |-> Moved(usage[s], s, ticket[t], new)]
  <2>1. ASSUME NEW s \in Scopes
        PROVE  usage[s] = Moved(usage[s], s, k, new)
    <3>1. usage[s] \in Usage
      BY Parts
    <3>2. \A p \in {"live", "idle", "pending"} : In(k, s, p) <=> In(new, s, p)
      BY <1>2 DEF In
    <3> HIDE DEF new
    <3>3. QED
      BY <1>1, <1>2, <3>1, <3>2, MovedBack
  <2>2. usage' = usage
    BY DEF TransferTo
  <2> HIDE DEF new
  <2>3. QED
    BY <2>1, <2>2, Parts
<1>4. /\ reservation[from] \in Envelope /\ Sound(reservation[from])
      /\ reservation[from].charged \in Nat
      /\ reservation[next] \in Envelope /\ Sound(reservation[next])
      /\ reservation[next].charged \in Nat /\ reservation[next].open
      /\ n <= reservation[next].capacity - reservation[next].charged
  BY <1>1, Parts, LimitIsNat DEF Envelope, TransferTo
<1>5. /\ e \in Envelope /\ Sound(e) /\ e.open = reservation[from].open
      /\ e.charged = reservation[from].charged - n
      /\ Spare(e) = Spare(reservation[from]) + freed
  BY <1>1, <1>4, LimitIsNat DEF Sound, Spare, Envelope
<1>6. /\ d \in Envelope /\ Sound(d) /\ d.open = reservation[next].open
      /\ d.charged = reservation[next].charged + n
      /\ Spare(d) = Spare(reservation[next]) - n
  <2>1. /\ reservation[next].capacity \in 0 .. Limit
        /\ reservation[next].charged + n \in 0 .. Limit
        /\ reservation[next].charged + n <= reservation[next].capacity
    BY <1>1, <1>4, LimitIsNat DEF Envelope
  <2>2. /\ d \in Envelope /\ d.open = reservation[next].open
        /\ d.capacity = reservation[next].capacity
        /\ d.charged = reservation[next].charged + n
    BY <1>4, <2>1 DEF Envelope
  <2> HIDE DEF d
  <2>3. QED
    BY <1>1, <1>4, <2>1, <2>2, LimitIsNat DEF Sound, Spare
<1>7. /\ reservation'[from] = e /\ reservation'[next] = d
      /\ \A x \in Reservations \ {from, next} : reservation'[x] = reservation[x]
      /\ reservation' \in [Reservations -> Envelope]
  <2>1. reservation' = [reservation EXCEPT ![from] = e, ![next] = d]
    BY <1>1, Parts DEF TransferTo
  <2> HIDE DEF e, d
  <2>2. QED
    BY <1>1, <1>5, <1>6, <2>1, Parts
<1> HIDE DEF e, d, new
<1>8. /\ SumOver(Unspent, Reservations)' = SumOver(Unspent, Reservations) + freed - n
      /\ SumOver(Unspent, Reservations)' \in Nat /\ SumOver(Unspent, Reservations) \in Nat
  <2> DEFINE f == Unspent
             h == [Unspent EXCEPT ![from] = Spare(e)]
             g == Unspent'
  <2>1. /\ f[from] = Spare(reservation[from]) /\ f[next] = Spare(reservation[next])
        /\ \A x \in Reservations \ {from} : h[x] = f[x]
        /\ h[from] = Spare(e) /\ h[next] = f[next]
    BY <1>1 DEF Unspent, Spare
  <2>2. /\ g[from] = Spare(e) /\ g[next] = Spare(d)
        /\ \A x \in Reservations \ {from, next} : g[x] = f[x]
    BY <1>1, <1>7 DEF Unspent, Spare
  <2>3. /\ Spare(reservation[from]) \in 0 .. Limit /\ Spare(reservation[next]) \in 0 .. Limit
        /\ Spare(e) \in 0 .. Limit /\ Spare(d) \in 0 .. Limit
        /\ Spare(reservation[from]) \in Nat /\ Spare(reservation[next]) \in Nat
    BY <1>4, <1>5, <1>6, SpareType
  <2>a. \A x \in Reservations : f[x] \in Nat
    <3>1. \A x \in Reservations : Spare(reservation[x]) \in Nat
      BY Parts, SpareType
    <3>2. QED
      BY <3>1 DEF Unspent, Spare
  <2> HIDE DEF f, g, h
  <2>b. \A x \in Reservations : h[x] \in Nat
    BY <1>1, <1>4, <1>5, <2>1, <2>3, <2>a
  <2>c. \A x \in Reservations : g[x] \in Nat
    BY <1>1, <2>1, <2>2, <2>3, <2>a
  <2>4. /\ SumOver(f, Reservations) \in Nat /\ SumOver(g, Reservations) \in Nat
        /\ IsFiniteSet(Reservations)
    BY <2>a, <2>c, BudgetAssumption, SumType
  <2>5. SumOver(h, Reservations) = SumOver(f, Reservations) - f[from] + h[from]
    <3>1. \A x \in Reservations : f[x] \in Nat /\ h[x] \in Nat
      BY <2>a, <2>b
    <3>2. \A x \in Reservations \ {from} : h[x] = f[x]
      BY <2>1
    <3>3. from \in Reservations
      BY <1>1
    <3> HIDE DEF from
    <3>4. QED
      BY <2>4, <3>1, <3>2, <3>3, SumUpdate
  <2>6. \A x \in Reservations \ {next} : g[x] = h[x]
    BY <1>1, <2>1, <2>2
  <2>7. SumOver(g, Reservations) = SumOver(h, Reservations) - h[next] + g[next]
    <3>1. \A x \in Reservations : h[x] \in Nat /\ g[x] \in Nat
      BY <2>b, <2>c
    <3>2. next \in Reservations
      BY <1>1
    <3>3. QED
      BY <2>4, <2>6, <3>1, <3>2, SumUpdate
  <2>8. freed \in Nat
    BY <1>1
  <2> HIDE DEF freed
  <2>9. SumOver(g, Reservations) = SumOver(f, Reservations) + freed - n
    BY <1>1, <1>5, <1>6, <2>1, <2>2, <2>3, <2>4, <2>5, <2>7, <2>8
  <2>10. QED
    BY <2>4, <2>9 DEF f, g
<1>9. reserved_unbacked' = reserved_unbacked
        - SumOver(Unspent, Reservations) + SumOver(Unspent, Reservations)'
        - (IF ticket[t].phase = "pending" THEN ticket[t].capacity ELSE 0)
        + (IF new.phase = "pending" THEN new.capacity ELSE 0)
  <2>1. reserved_unbacked' = reserved_unbacked + freed - n /\ reserved_unbacked \in Nat
    BY <1>1, Parts DEF TransferTo
  <2>2. freed \in Nat
    BY <1>1
  <2> HIDE DEF freed
  <2>3. QED
    BY <1>1, <1>2, <1>8, <2>1, <2>2
<1>10. ASSUME NEW x \in Reservations
       PROVE  /\ reservation'[x].open = reservation[x].open
              /\ reservation'[x].charged = reservation[x].charged
                   - (IF ticket[t].owner = x THEN ticket[t].capacity ELSE 0)
                   + (IF new.owner = x THEN new.capacity ELSE 0)
              /\ Sound(reservation'[x])
  <2>1. reservation[x].charged \in Nat /\ Sound(reservation[x])
    BY Parts, LimitIsNat DEF Envelope
  <2>2. CASE x = from
    BY <1>1, <1>2, <1>4, <1>5, <1>7, <2>2
  <2>3. CASE x = next
    <3>1. reservation'[x] = d /\ ticket[t].owner # x /\ new.owner = x
      BY <1>1, <1>2, <1>7, <2>3
    <3>2. /\ d.open = reservation[x].open /\ Sound(d) /\ n \in Nat
          /\ d.charged = reservation[x].charged + n
          /\ reservation[x].charged \in Nat /\ new.capacity = n
      BY <1>1, <1>2, <1>4, <1>6, <2>3
    <3> HIDE DEF n, from, k
    <3>3. QED
      BY <3>1, <3>2
  <2>4. CASE x \notin {from, next}
    BY <1>2, <1>7, <2>1, <2>4
  <2>5. QED
    BY <2>2, <2>3, <2>4
<1>11. /\ open_reservations' = open_reservations
       /\ queue' \in Seq(Callers) /\ call' \in [Callers -> CallStates]
       /\ peak_backing' \in Nat /\ peak_committed' \in Nat
  BY Parts, NotifyAllType DEF TransferTo
<1>12. QED
  BY <1>2, <1>3, <1>7, <1>9, <1>10, <1>11, TicketStep DEF ChargesFollow, UnbackedFollows

-------------------------------------------------------------------------------
LEMMA InitIInv == Init => IInv
<1> SUFFICES ASSUME Init PROVE IInv
  OBVIOUS
<1>1. TypeOK
  <2>1. NoUsage \in Usage
    BY DEF NoUsage, Usage
  <2>2. Closed \in Envelope
    BY LimitIsNat DEF Closed, Envelope
  <2>3. Outside \in CallStates /\ NoTicket \in TicketStates
    BY DEF CallStates, TicketStates
  <2>4. queue \in Seq(Callers)
    BY DEF Init
  <2>5. QED
    BY <2>1, <2>2, <2>3, <2>4 DEF Init, TypeOK
<1>2. \A s, p : p \in {"live", "idle", "pending"} => InPhase(s, p) = {}
  BY DEF Init, InPhase, NoTicket
<1>3. SumOver(Capacities, {}) = 0 /\ SumOver(Requests, {}) = 0 /\ Cardinality({}) = 0
  BY SumEmpty, FS_EmptySet
<1>4. UsageMatchesTickets
  <2>1. \A s \in Scopes : UsageOf(s) = NoUsage
    BY <1>2, <1>3 DEF UsageOf, NoUsage
  <2>2. QED
    BY <2>1 DEF Init, UsageMatchesTickets
<1>5. \A r \in Reservations : Owned(r) = {} /\ ~reservation[r].open /\ reservation[r].charged = 0
  BY BudgetAssumption DEF Init, Owned, NoTicket, Closed
<1>6. SumOver(Unspent, Reservations) = 0
  <2>1. \A r \in Reservations : Unspent[r] = 0
    BY <1>5 DEF Unspent
  <2>2. QED
    BY <2>1, BudgetAssumption, SumZero
<1>7. {r \in Reservations : reservation[r].open} = {}
  BY <1>5
<1>8. BytesAreConserved
  <2>1. reserved_unbacked = SumOver(Unspent, Reservations)
                              + SumOver(Capacities, InPhase(All, "pending"))
    <3>1. InPhase(All, "pending") = {}
      BY <1>2
    <3>2. SumOver(Capacities, InPhase(All, "pending")) = 0
      BY <1>3, <3>1, Zenon
    <3>3. QED
      BY <1>6, <3>2 DEF Init
  <2>2. open_reservations = Cardinality({r \in Reservations : reservation[r].open})
    BY <1>3, <1>7 DEF Init
  <2>3. \A r \in Reservations : reservation[r].charged = SumOver(Capacities, Owned(r))
    BY <1>3, <1>5
  <2>4. QED
    BY <1>5, <2>1, <2>2, <2>3 DEF BytesAreConserved
<1>9. QED
  BY <1>1, <1>4, <1>8 DEF IInv

LEMMA AdmissionIInv == IInv /\ Admission => IInv'
<1> SUFFICES ASSUME IInv, Admission PROVE IInv'
  OBVIOUS
<1>0. TypeOK
  BY DEF IInv
<1>1. CASE \E n \in Sizes : TryReserve(n)
  BY <1>1, PublishStep, Parts DEF TryReserve
<1>2. CASE \E c \in Callers, n \in Sizes, e \in BOOLEAN : Enqueue(c, n, e)
  <2>1. PICK c \in Callers, n \in Sizes, e \in BOOLEAN : Enqueue(c, n, e)
    BY <1>2
  <2>2. queue' \in Seq(Callers)
    BY <2>1, Parts DEF Enqueue
  <2>3. [at |-> IF e THEN "evicting" ELSE "asleep", want |-> n] \in CallStates
    BY DEF CallStates
  <2>4. call' \in [Callers -> CallStates]
    BY <2>1, <2>3, Parts DEF Enqueue
  <2>5. QED
    BY <2>1, <2>2, <2>4, LedgerSame DEF Enqueue
<1>3. ASSUME NEW c \in Callers, EvictReturns(c) \/ SpuriousWake(c)
      PROVE  IInv'
  <2>1. call[c] \in [at : {"evicting", "asleep", "awake"}, want : Sizes]
    BY <1>3, Parts DEF CallStates, Outside, EvictReturns, SpuriousWake
  <2>2. [call[c] EXCEPT !.at = "awake"] \in CallStates
    BY <2>1 DEF CallStates
  <2>3. call' \in [Callers -> CallStates]
    BY <1>3, <2>2, Parts DEF EvictReturns, SpuriousWake
  <2>4. queue' \in Seq(Callers) /\ UNCHANGED <<ledger, reservation, ticket>>
    BY <1>3, Parts DEF EvictReturns, SpuriousWake
  <2>5. QED
    BY <2>3, <2>4, LedgerSame
<1>4. ASSUME NEW c \in Callers, EvictFails(c) \/ Cancel(c)
      PROVE  IInv'
  BY <1>0, <1>4, LeaveType, LedgerSame DEF EvictFails, Cancel
<1>5. ASSUME NEW c \in Callers, Wake(c)
      PROVE  IInv'
  <2>1. call[c] \in [at : {"evicting", "asleep", "awake"}, want : Sizes]
    BY <1>5, Parts DEF CallStates, Outside, Wake
  <2>2. CASE First(c) /\ Fits(call[c].want)
    <3>1. call[c].want \in Sizes
      BY <2>1
    <3>2. Publish(call[c].want) /\ Leave(c) /\ UNCHANGED ticket
      BY <1>5, <2>2 DEF Wake
    <3>3. QED
      BY <1>0, <3>1, <3>2, LeaveType, PublishStep
  <2>3. CASE ~(First(c) /\ Fits(call[c].want))
    <3>1. [call[c] EXCEPT !.at = "asleep"] \in CallStates
      BY <2>1 DEF CallStates
    <3>2. call' \in [Callers -> CallStates]
      BY <1>5, <2>3, <3>1, Parts DEF Wake
    <3>3. queue' \in Seq(Callers) /\ UNCHANGED <<ledger, reservation, ticket>>
      BY <1>5, <2>3, Parts DEF Wake
    <3>4. QED
      BY <3>2, <3>3, LedgerSame
  <2>4. QED
    BY <2>2, <2>3
<1>6. QED
  BY <1>1, <1>2, <1>3, <1>4, <1>5 DEF Admission

LEMMA HoldingIInv == IInv /\ Holding => IInv'
<1> SUFFICES ASSUME IInv, Holding PROVE IInv'
  OBVIOUS
<1>1. CASE \E r \in Reservations : \/ \E n \in 0 .. Limit : ReduceCapacity(r, n)
                                   \/ CloseReservation(r)
  BY <1>1, ReduceCapacityStep, CloseReservationStep
<1>2. CASE \E r \in Reservations, t \in Tickets, k \in Classes, a, n \in Sizes :
             PrepareAllocation(r, t, k, a, n)
  BY <1>2, PrepareAllocationStep
<1>3. ASSUME NEW t \in Tickets,
             \/ Commit(t)
             \/ MakeIdle(t)
             \/ \E a \in Sizes : MakeLive(t, a)
             \/ \E r \in Reservations : TransferTo(t, r)
             \/ ResetTicket(t)
             \/ \E k \in Classes : Reclassify(t, k)
      PROVE  IInv'
  BY <1>3, CommitStep, MakeIdleStep, MakeLiveStep, TransferToStep,
     ResetTicketStep, ReclassifyStep
<1>4. QED
  BY <1>1, <1>2, <1>3 DEF Holding

LEMMA NextIInv == IInv /\ [Next]_vars => IInv'
<1> SUFFICES ASSUME IInv, [Next]_vars PROVE IInv'
  OBVIOUS
<1>1. CASE UNCHANGED vars
  <2>1. /\ UNCHANGED <<ledger, reservation, ticket, queue, call>>
    BY <1>1 DEF vars, ledger
  <2>2. QED
    BY <2>1, Parts, LedgerSame
<1>2. QED
  BY <1>1, AdmissionIInv, HoldingIInv DEF Next

(* The ledger is right in every reachable state of every instance: no      *)
(* counter of a snapshot is ever negative, each is what the live, idle and *)
(* pending tickets add up to, in total and per class, and no byte of an    *)
(* envelope is lost or counted twice by transfers, early closes or resets. *)
THEOREM LedgerInvariant == Spec => []IInv
<1>1. QED
  BY InitIInv, NextIInv, PTL DEF Spec

(* No counter of the ledger, all of them unsigned in the code, is ever      *)
(* taken below zero by an operation that the code lets through.            *)
THEOREM TypeInvariant == Spec => []TypeOK
<1>1. IInv => TypeOK
  BY DEF IInv
<1>2. QED
  BY <1>1, LedgerInvariant, PTL

(* The usage records of a snapshot, in total and per class, are exactly the *)
(* sums over the tickets, for any number of tickets, classes and sizes.    *)
THEOREM UsageInvariant == Spec => []UsageMatchesTickets
<1>1. IInv => UsageMatchesTickets
  BY DEF IInv
<1>2. QED
  BY <1>1, LedgerInvariant, PTL

(* No byte is admitted twice or lost: what is charged and what is reserved  *)
(* without backing are accounted for by the envelopes and their tickets.   *)
THEOREM ConservationInvariant == Spec => []BytesAreConserved
<1>1. IInv => BytesAreConserved
  BY DEF IInv
<1>2. QED
  BY <1>1, LedgerInvariant, PTL

-------------------------------------------------------------------------------
(* What a step does to the bytes in use: holders of envelopes and tickets   *)
(* never enlarge what is committed, and tell the waiters if they reduce it. *)
Shrinks == /\ Committed' <= Committed
           /\ \/ Committed' = Committed /\ call' = call
              \/ call' = NotifyAll(call)
           /\ \/ Backing' <= Backing /\ UNCHANGED <<peak_backing, peak_committed>>
              \/ UpdatePeaks

LEMMA InUse == ASSUME IInv
               PROVE  /\ Backing \in Nat /\ Committed \in Nat
                      /\ reserved_unbacked \in Nat
                      /\ Committed = reserved_unbacked + Backing
  BY Parts DEF Committed

LEMMA EnvelopeShrinks ==
  ASSUME IInv, NEW r \in Reservations,
         \/ \E n \in 0 .. Limit : ReduceCapacity(r, n)
         \/ CloseReservation(r)
         \/ \E t \in Tickets, k \in Classes, a, n \in Sizes : PrepareAllocation(r, t, k, a, n)
  PROVE  Shrinks /\ queue' = queue
<1>1. /\ reservation[r] \in Envelope /\ Sound(reservation[r])
      /\ usage[All] \in Usage /\ reserved_unbacked \in Nat /\ All \in Scopes
  BY Parts DEF Scopes
<1>2. CASE \E n \in 0 .. Limit : ReduceCapacity(r, n)
  <2>1. PICK n \in 0 .. Limit : ReduceCapacity(r, n)
    BY <1>2
  <2>2. reserved_unbacked' <= reserved_unbacked
    BY <1>1, <2>1, LimitIsNat DEF ReduceCapacity, Envelope
  <2>3. reserved_unbacked' \in Int
    BY <1>1, <2>1, LimitIsNat DEF ReduceCapacity, Envelope
  <2>4. QED
    BY <1>1, <2>1, <2>2, <2>3 DEF ReduceCapacity, Shrinks, Committed, Backing, Usage
<1>3. CASE CloseReservation(r)
  <2>1. reserved_unbacked' <= reserved_unbacked /\ reserved_unbacked' \in Int
    BY <1>1, <1>3, LimitIsNat DEF CloseReservation, Sound, Envelope
  <2>2. QED
    BY <1>1, <1>3, <2>1 DEF CloseReservation, Shrinks, Committed, Backing, Usage
<1>4. CASE \E t \in Tickets, k \in Classes, a, n \in Sizes : PrepareAllocation(r, t, k, a, n)
  <2>1. PICK t \in Tickets, k \in Classes, a \in Sizes, n \in Sizes :
          PrepareAllocation(r, t, k, a, n)
    BY <1>4
  <2>2. usage'[All] = [usage[All] EXCEPT !.pending = @ + n, !.pending_count = @ + 1]
    BY <1>1, <2>1 DEF PrepareAllocation
  <2>3. usage'[All].live = usage[All].live /\ usage'[All].idle = usage[All].idle
    BY <1>1, <2>2 DEF Usage
  <2>4. Backing' = Backing /\ Committed' = Committed
    BY <2>1, <2>3 DEF PrepareAllocation, Committed, Backing
  <2>5. QED
    <3>1. Committed' <= Committed /\ Backing' <= Backing /\ Committed' = Committed
      BY <2>4, InUse
    <3>2. UNCHANGED <<peak_backing, peak_committed, call>> /\ queue' = queue
      BY <2>1 DEF PrepareAllocation
    <3>3. QED
      BY <3>1, <3>2 DEF Shrinks
<1>5. QED
  BY <1>2, <1>3, <1>4

LEMMA TicketShrinks ==
  ASSUME IInv, NEW t \in Tickets,
         \/ Commit(t)
         \/ MakeIdle(t)
         \/ \E a \in Sizes : MakeLive(t, a)
         \/ \E r \in Reservations : TransferTo(t, r)
         \/ ResetTicket(t)
         \/ \E k \in Classes : Reclassify(t, k)
  PROVE  Shrinks /\ queue' = queue
<1> DEFINE n == ticket[t].capacity
           u == usage[All]
<1>1. /\ ticket[t] \in TicketStates /\ n \in Nat
      /\ ticket[t].phase \in {"none", "pending", "live", "idle"}
      /\ u \in Usage /\ u.live \in Nat /\ u.idle \in Nat
      /\ reserved_unbacked \in Nat /\ All \in Scopes
  BY Parts, TicketNumbers DEF Scopes, Usage
<1>2. ASSUME usage'[All].live + usage'[All].idle = u.live + u.idle,
             reserved_unbacked' \in Int, reserved_unbacked' <= reserved_unbacked,
             UNCHANGED <<peak_backing, peak_committed>>, queue' = queue,
             \/ reserved_unbacked' = reserved_unbacked /\ call' = call
             \/ call' = NotifyAll(call)
      PROVE  Shrinks /\ queue' = queue
  <2>1. Backing' = Backing
    BY <1>2 DEF Backing
  <2>2. Committed' = reserved_unbacked' + Backing'
    BY DEF Committed
  <2> HIDE DEF u, n
  <2>3. Committed' <= Committed /\ Backing' <= Backing
    BY <1>2, <2>1, <2>2, InUse
  <2>4. reserved_unbacked' = reserved_unbacked => Committed' = Committed
    BY <2>1, <2>2, InUse
  <2>5. QED
    BY <1>2, <2>3, <2>4 DEF Shrinks
<1>3. CASE Commit(t)
  <2>1. /\ usage'[All].live = u.live + n /\ usage'[All].idle = u.idle
        /\ reserved_unbacked' = reserved_unbacked - n
    BY <1>1, <1>3 DEF Commit, ForUsage, Usage
  <2>2. Committed' = Committed
    BY <1>1, <2>1 DEF Committed, Backing
  <2>3. QED
    BY <1>3, <2>2, Parts DEF Commit, Shrinks
<1>4. CASE MakeIdle(t)
  <2>1. usage'[All].live = u.live - n /\ usage'[All].idle = u.idle + n
    BY <1>1, <1>4 DEF MakeIdle, ForUsage, Usage
  <2>2. QED
    <3>1. usage'[All].live + usage'[All].idle = u.live + u.idle
      BY <1>1, <2>1
    <3>2. QED
      BY <1>1, <1>2, <1>4, <3>1 DEF MakeIdle
<1>5. CASE \E a \in Sizes : MakeLive(t, a)
  <2>1. PICK a \in Sizes : MakeLive(t, a)
    BY <1>5
  <2>2. usage'[All].live = u.live + n /\ usage'[All].idle = u.idle - n
    BY <1>1, <2>1 DEF MakeLive, ForUsage, Usage
  <2>3. QED
    <3>1. usage'[All].live + usage'[All].idle = u.live + u.idle
      BY <1>1, <2>2
    <3>2. QED
      <4>1. /\ reserved_unbacked' = reserved_unbacked /\ queue' = queue
            /\ UNCHANGED <<peak_backing, peak_committed, call>>
        BY <2>1 DEF MakeLive
      <4>2. reserved_unbacked' \in Int /\ reserved_unbacked' <= reserved_unbacked
        BY <1>1, <4>1
      <4>3. QED
        BY <1>2, <3>1, <4>1, <4>2
<1>6. CASE \E r \in Reservations : TransferTo(t, r)
  BY <1>1, <1>2, <1>6 DEF TransferTo
<1>7. CASE ResetTicket(t)
  <2>1. usage'[All] = Uncharge(u, t)
    BY <1>1, <1>7 DEF ResetTicket, ForUsage
  <2>2. CASE ticket[t].phase = "pending"
    <3>1. Uncharge(u, t).live = u.live /\ Uncharge(u, t).idle = u.idle
      BY <1>1, <2>2 DEF Uncharge, Usage
    <3>2. reserved_unbacked' \in Int /\ reserved_unbacked' <= reserved_unbacked
      BY <1>1, <1>7, <2>2 DEF ResetTicket
    <3>3. QED
      BY <1>1, <1>2, <1>7, <2>1, <3>1, <3>2 DEF ResetTicket
  <2>3. CASE ticket[t].phase \in {"live", "idle"}
    <3> DEFINE v == Uncharge(u, t)
    <3>1. v.live \in Int /\ v.idle \in Int /\ v.live + v.idle = u.live + u.idle - n
      BY <1>1, <2>3 DEF Uncharge, Usage
    <3>2. /\ reserved_unbacked' \in Int
          /\ reserved_unbacked' <= reserved_unbacked + n
      BY <1>1, <1>7, <2>3 DEF ResetTicket
    <3>3. usage'[All] = v
      BY <2>1
    <3> HIDE DEF v
    <3>4. Backing' = Backing - n /\ Backing' \in Int
      BY <1>1, <3>1, <3>3 DEF Backing
    <3>5. Committed' <= Committed /\ Backing' <= Backing
      <4>1. Committed' = reserved_unbacked' + Backing'
        BY DEF Committed
      <4> HIDE DEF n, u
      <4>2. QED
        BY <1>1, <3>2, <3>4, <4>1, InUse
    <3>6. QED
      BY <1>7, <3>5 DEF ResetTicket, Shrinks
  <2>4. QED
    BY <1>1, <1>7, <2>2, <2>3 DEF ResetTicket
<1>8. CASE \E k \in Classes : Reclassify(t, k)
  <2>1. PICK k \in Classes : Reclassify(t, k)
    BY <1>8
  <2>2. ticket[t].class \in Classes /\ All \notin Classes
    BY <2>1, BudgetAssumption, Parts, TicketNumbers DEF Reclassify
  <2>3. usage'[All] = u
    BY <1>1, <2>1, <2>2, Parts DEF Reclassify
  <2>4. QED
    BY <1>1, <1>2, <2>1, <2>3 DEF Reclassify
<1>9. QED
  BY <1>3, <1>4, <1>5, <1>6, <1>7, <1>8

LEMMA HoldingShrinks == IInv /\ Holding => Shrinks /\ queue' = queue
  BY EnvelopeShrinks, TicketShrinks DEF Holding

(* Only an admission enlarges it, by an amount that fits. *)
LEMMA PublishGrows ==
  ASSUME IInv, NEW n \in Sizes, Publish(n)
  PROVE  /\ Committed' = Committed + n /\ Backing' = Backing
         /\ UpdatePeaks
<1>1. Backing' = Backing
  BY DEF Publish, Backing
<1>2. n \in Nat
  BY BudgetAssumption, LimitIsNat
<1>3. reserved_unbacked' = reserved_unbacked + n /\ UpdatePeaks
  BY DEF Publish
<1>4. reserved_unbacked \in Nat /\ Backing \in Nat
  BY Parts
<1>5. QED
  BY <1>1, <1>2, <1>3, <1>4 DEF Committed

LEMMA WakeType ==
  ASSUME IInv, NEW c \in Callers, call[c].at # "outside"
  PROVE  /\ call[c] \in [at : {"evicting", "asleep", "awake"}, want : Sizes]
         /\ call[c].want \in Sizes
  BY Parts DEF CallStates, Outside

LEMMA AdmissionGrows ==
  ASSUME IInv, Admission
  PROVE  \/ \E n \in Sizes : Publish(n) /\ Fits(n)
         \/ UNCHANGED ledger
<1>1. ASSUME NEW c \in Callers, Wake(c)
      PROVE  (\E n \in Sizes : Publish(n) /\ Fits(n)) \/ UNCHANGED ledger
  BY <1>1, WakeType DEF Wake
<1>2. QED
  BY <1>1 DEF Admission, TryReserve, Enqueue, EvictReturns, EvictFails,
                   SpuriousWake, Cancel

LEMMA PeaksStep == IInv /\ IInv' /\ PeaksCoverUsage /\ [Next]_vars => PeaksCoverUsage'
<1> SUFFICES ASSUME IInv, IInv', PeaksCoverUsage, [Next]_vars PROVE PeaksCoverUsage'
  OBVIOUS
<1>1. /\ Backing \in Nat /\ Committed \in Nat
      /\ peak_backing \in Nat /\ peak_committed \in Nat
  BY Parts
<1>2. /\ Backing' \in Nat /\ Committed' \in Nat /\ Backing' <= Committed'
  <2>1. /\ usage' \in [Scopes -> Usage] /\ reserved_unbacked' \in Nat /\ All \in Scopes
    BY DEF IInv, TypeOK, Scopes
  <2>2. usage'[All].live \in Nat /\ usage'[All].idle \in Nat
    BY <2>1 DEF Usage
  <2>3. QED
    BY <2>1, <2>2 DEF Backing, Committed
<1>3. ASSUME Shrinks PROVE PeaksCoverUsage'
  <2>1. CASE Backing' <= Backing /\ UNCHANGED <<peak_backing, peak_committed>>
    BY <1>1, <1>2, <1>3, <2>1, LimitIsNat DEF Shrinks, PeaksCoverUsage
  <2>2. CASE UpdatePeaks
    <3>1. /\ peak_backing' = Larger(peak_backing, Backing')
          /\ peak_committed' = Larger(peak_committed, Committed')
          /\ Committed' <= Committed
      BY <1>3, <2>2 DEF UpdatePeaks, Shrinks
    <3>2. QED
      BY <1>1, <1>2, <3>1, LimitIsNat DEF PeaksCoverUsage, Larger
  <2>3. QED
    BY <1>3, <2>1, <2>2 DEF Shrinks
<1>4. ASSUME NEW n \in Sizes, Publish(n), Fits(n) PROVE PeaksCoverUsage'
  <2>1. /\ peak_backing' = Larger(peak_backing, Backing')
        /\ peak_committed' = Larger(peak_committed, Committed')
        /\ Committed' = Committed + n
    BY <1>4, PublishGrows DEF UpdatePeaks
  <2>2. n \in Nat /\ Committed + n <= Limit
    BY <1>1, <1>4, BudgetAssumption, LimitIsNat DEF Fits
  <2>3. QED
    BY <1>1, <1>2, <2>1, <2>2, LimitIsNat DEF PeaksCoverUsage, Larger
<1>5. ASSUME UNCHANGED ledger PROVE PeaksCoverUsage'
  <2>1. Backing' = Backing /\ Committed' = Committed
    BY <1>5 DEF ledger, Backing, Committed
  <2>2. QED
    BY <1>5, <2>1 DEF ledger, PeaksCoverUsage
<1>6. CASE UNCHANGED vars
  BY <1>5, <1>6 DEF vars, ledger
<1>7. QED
  BY <1>3, <1>4, <1>5, <1>6, HoldingShrinks, AdmissionGrows DEF Next

(* The peaks of a snapshot cover the present usage and never exceed the    *)
(* limit, although only admissions and commits record them.                *)
THEOREM PeaksInvariant == Spec => []PeaksCoverUsage
<1>1. Init => PeaksCoverUsage
  <2>1. ASSUME Init PROVE Backing = 0 /\ Committed = 0
    BY <2>1 DEF Init, Backing, Committed, NoUsage, Scopes
  <2>2. QED
    BY <2>1, LimitIsNat DEF Init, PeaksCoverUsage
<1>2. QED
  BY <1>1, PeaksStep, LedgerInvariant, PTL DEF Spec

(* The memory domain never commits more than its limit, whatever the jobs  *)
(* allocate, cache, transfer, reclassify or release, and in any order.     *)
THEOREM LimitInvariant == Spec => []WithinLimit
<1>1. IInv /\ PeaksCoverUsage => WithinLimit
  <2>1. ASSUME IInv, PeaksCoverUsage PROVE WithinLimit
    BY <2>1, Parts, LimitIsNat DEF PeaksCoverUsage, WithinLimit
  <2>2. QED
    BY <2>1
<1>2. QED
  BY <1>1, LedgerInvariant, PeaksInvariant, PTL

-------------------------------------------------------------------------------
(* The queue *)

(* A notification changes neither who waits nor for what, and leaves nobody *)
(* asleep.                                                                 *)
LEMMA NotifyAllKeeps ==
  ASSUME NEW f \in [Callers -> CallStates], NEW c \in Callers
  PROVE  /\ NotifyAll(f)[c].at = "outside" <=> f[c].at = "outside"
         /\ NotifyAll(f)[c].want = f[c].want
         /\ NotifyAll(f)[c].at # "asleep"
<1>1. CASE f[c].at = "asleep"
  <2>1. f[c] \in [at : {"evicting", "asleep", "awake"}, want : Sizes]
    BY <1>1 DEF CallStates, Outside
  <2>2. NotifyAll(f)[c] = [f[c] EXCEPT !.at = "awake"]
    BY <1>1 DEF NotifyAll
  <2>3. QED
    BY <1>1, <2>1, <2>2
<1>2. CASE f[c].at # "asleep"
  BY <1>2 DEF NotifyAll
<1>3. QED
  BY <1>1, <1>2

(* A waiter that leaves is unlinked wherever it stood, and only it is. *)
LEMMA LeaveEffect ==
  ASSUME IInv, QueueHoldsWaiters, NEW c \in Callers, Leave(c)
  PROVE  /\ QueueHoldsWaiters'
         /\ \A x \in Callers : call'[x].at # "asleep"
         /\ \A x \in Callers \ {c} : call'[x].want = call[x].want
<1> DEFINE f == [call EXCEPT ![c] = Outside]
<1>1. f \in [Callers -> CallStates] /\ f[c].at = "outside"
      /\ \A x \in Callers \ {c} : f[x] = call[x]
  BY Parts DEF CallStates, Outside
<1>2. call' = NotifyAll(f)
  BY DEF Leave
<1> HIDE DEF f
<1>3. PICK p \in 1 .. Len(queue) : queue[p] = c /\ queue' = Without(queue, p)
  BY DEF Leave
<1>4. queue \in Seq(Callers)
  BY Parts
<1>5. Distinct(queue') /\ Members(queue') = Members(queue) \ {c}
  BY <1>3, <1>4, Unlinked DEF QueueHoldsWaiters
<1>6. \A x \in Callers : call'[x].at # "outside" <=> (call[x].at # "outside" /\ x # c)
  BY <1>1, <1>2, NotifyAllKeeps
<1>7. QueueHoldsWaiters'
  BY <1>5, <1>6 DEF QueueHoldsWaiters
<1>8. QED
  BY <1>1, <1>2, <1>7, NotifyAllKeeps

(* The states of the callers inside Reserve, and of one that enters. *)
LEMMA CallFields ==
  ASSUME IInv, NEW c \in Callers, NEW b
  PROVE  LET f == [call EXCEPT ![c].at = b] IN
         /\ f[c].at = b /\ f[c].want = call[c].want
         /\ \A x \in Callers \ {c} : f[x] = call[x]
<1>1. call[c] \in CallStates /\ call \in [Callers -> CallStates]
  BY Parts
<1>2. [call[c] EXCEPT !.at = b].at = b /\ [call[c] EXCEPT !.at = b].want = call[c].want
  <2>1. CASE call[c] = Outside
    BY <2>1 DEF Outside
  <2>2. CASE call[c] # Outside
    BY <1>1, <2>2 DEF CallStates
  <2>3. QED
    BY <2>1, <2>2
<1>3. QED
  BY <1>1, <1>2

(* A step of one waiter that keeps its place. *)
LEMMA StateChange ==
  ASSUME IInv, QueueHoldsWaiters, NEW c \in Callers, NEW b, b # "outside",
         call[c].at # "outside", call' = [call EXCEPT ![c].at = b], queue' = queue
  PROVE  /\ QueueHoldsWaiters'
         /\ \A x \in Callers : call'[x].want = call[x].want
         /\ call'[c].at = b /\ \A x \in Callers \ {c} : call'[x] = call[x]
<1>1. /\ call'[c].at = b /\ call'[c].want = call[c].want
      /\ \A x \in Callers \ {c} : call'[x] = call[x]
  BY CallFields
<1>2. \A x \in Callers : call'[x].at # "outside" <=> call[x].at # "outside"
  BY <1>1
<1>3. QED
  BY <1>1, <1>2 DEF QueueHoldsWaiters

LEMMA EnqueueEffect ==
  ASSUME IInv, QueueHoldsWaiters, NEW c \in Callers, NEW n \in Sizes, NEW e \in BOOLEAN,
         Enqueue(c, n, e)
  PROVE  /\ QueueHoldsWaiters' /\ c \notin Members(queue)
         /\ call'[c].want = n
         /\ \A x \in Callers \ {c} : call'[x] = call[x]
<1> DEFINE k == [at |-> IF e THEN "evicting" ELSE "asleep", want |-> n]
<1>1. call' = [call EXCEPT ![c] = k] /\ call \in [Callers -> CallStates]
  BY Parts DEF Enqueue
<1>2. k.at # "outside" /\ k.want = n
  OBVIOUS
<1> HIDE DEF k
<1>3. c \notin Members(queue)
  BY DEF Enqueue, QueueHoldsWaiters
<1>4. Distinct(queue') /\ Members(queue') = Members(queue) \cup {c}
  BY <1>3, Appended, Parts DEF Enqueue, QueueHoldsWaiters
<1>5. call'[c] = k /\ \A x \in Callers \ {c} : call'[x] = call[x]
  BY <1>1
<1>6. QueueHoldsWaiters'
  BY <1>2, <1>4, <1>5 DEF QueueHoldsWaiters
<1>7. QED
  BY <1>2, <1>3, <1>5, <1>6

LEMMA HoldingEffect ==
  ASSUME IInv, Holding
  PROVE  /\ queue' = queue
         /\ \A x \in Callers : /\ call'[x].at = "outside" <=> call[x].at = "outside"
                               /\ call'[x].want = call[x].want
<1>1. Shrinks /\ queue' = queue
  BY HoldingShrinks
<1>2. call \in [Callers -> CallStates]
  BY Parts
<1>3. QED
  BY <1>1, <1>2, NotifyAllKeeps DEF Shrinks

LEMMA QueueStep == IInv /\ QueueHoldsWaiters /\ [Next]_vars => QueueHoldsWaiters'
<1> SUFFICES ASSUME IInv, QueueHoldsWaiters, [Next]_vars PROVE QueueHoldsWaiters'
  OBVIOUS
<1>1. CASE Holding
  BY <1>1, HoldingEffect DEF QueueHoldsWaiters
<1>2. CASE UNCHANGED <<queue, call>>
  BY <1>2 DEF QueueHoldsWaiters
<1>3. CASE \E c \in Callers, n \in Sizes, e \in BOOLEAN : Enqueue(c, n, e)
  BY <1>3, EnqueueEffect
<1>4. ASSUME NEW c \in Callers,
             EvictReturns(c) \/ EvictFails(c) \/ Wake(c) \/ SpuriousWake(c) \/ Cancel(c)
      PROVE  QueueHoldsWaiters'
  <2>1. CASE Leave(c)
    BY <2>1, LeaveEffect
  <2>2. CASE ~Leave(c)
    <3>1. /\ call[c].at # "outside" /\ queue' = queue
          /\ \/ call' = [call EXCEPT ![c].at = "awake"]
             \/ call' = [call EXCEPT ![c].at = "asleep"]
      BY <1>4, <2>2 DEF EvictReturns, EvictFails, Wake, SpuriousWake, Cancel
    <3>2. QED
      BY <3>1, StateChange
  <2>3. QED
    BY <2>1, <2>2
<1>5. QED
  BY <1>1, <1>2, <1>3, <1>4 DEF Next, Admission, TryReserve, vars

(* The waiter list holds exactly the callers inside Reserve, each once, in  *)
(* spite of evictions that fail and requests that are cancelled.           *)
THEOREM QueueInvariant == Spec => []QueueHoldsWaiters
<1>1. Init => QueueHoldsWaiters
  <2>1. ASSUME Init PROVE QueueHoldsWaiters
    <3>1. Len(queue) = 0 /\ 1 .. 0 = {}
      BY <2>1 DEF Init
    <3>2. \A c \in Callers : call[c].at = "outside"
      BY <2>1 DEF Init, Outside
    <3>3. QED
      BY <3>1, <3>2 DEF QueueHoldsWaiters, Distinct, Members
  <2>2. QED
    BY <2>1
<1>2. QED
  BY <1>1, QueueStep, LedgerInvariant, PTL DEF Spec

-------------------------------------------------------------------------------
(* Sleeping and waking *)

LEMMA WakeupStep ==
  IInv /\ QueueHoldsWaiters /\ NoLostWakeup /\ [Next]_vars => NoLostWakeup'
<1> SUFFICES ASSUME IInv, QueueHoldsWaiters, NoLostWakeup, [Next]_vars
             PROVE  NoLostWakeup'
  OBVIOUS
<1>1. ASSUME UNCHANGED <<queue, call>>, Committed' = Committed
      PROVE  NoLostWakeup'
  BY <1>1 DEF NoLostWakeup, First, Fits
<1>2. ASSUME \A x \in Callers : call'[x].at # "asleep"
      PROVE  NoLostWakeup'
  BY <1>2 DEF NoLostWakeup
<1>3. CASE Holding
  <2>1. Shrinks /\ queue' = queue
    BY <1>3, HoldingShrinks
  <2>2. QED
    BY <1>1, <1>2, <2>1, NotifyAllKeeps, Parts DEF Shrinks
<1>4. CASE UNCHANGED vars
  <2>1. Committed' = Committed
    BY <1>4 DEF vars, Committed, Backing
  <2>2. QED
    BY <1>1, <1>4, <2>1 DEF vars
<1>5. CASE \E n \in Sizes : TryReserve(n)
  BY <1>5 DEF NoLostWakeup, TryReserve, First
<1>6. CASE \E c \in Callers, n \in Sizes, e \in BOOLEAN : Enqueue(c, n, e)
  <2>1. PICK c \in Callers, n \in Sizes, e \in BOOLEAN : Enqueue(c, n, e)
    BY <1>6
  <2>2. /\ c \notin Members(queue) /\ call'[c].want = n
        /\ \A x \in Callers \ {c} : call'[x] = call[x]
    BY <2>1, EnqueueEffect
  <2>3. Committed' = Committed /\ queue' = Append(queue, c) /\ queue \in Seq(Callers)
    BY <2>1, Parts DEF Enqueue, ledger, Committed, Backing
  <2>4. CASE queue = <<>>
    <3>1. ~Fits(n) /\ Head(queue') = c
      BY <2>1, <2>3, <2>4 DEF Enqueue
    <3>2. QED
      BY <2>2, <2>3, <3>1 DEF NoLostWakeup, First, Fits
  <2>5. CASE queue # <<>>
    <3>1. Head(queue') = Head(queue) /\ Head(queue) # c
      BY <2>2, <2>3, <2>5, HeadIsMember
    <3>2. QED
      BY <2>2, <2>3, <2>5, <3>1 DEF NoLostWakeup, First, Fits
  <2>6. QED
    BY <2>4, <2>5
<1>7. ASSUME NEW c \in Callers,
             EvictReturns(c) \/ EvictFails(c) \/ Wake(c) \/ SpuriousWake(c) \/ Cancel(c)
      PROVE  NoLostWakeup'
  <2>1. CASE Leave(c)
    BY <1>2, <2>1, LeaveEffect
  <2>2. CASE ~Leave(c)
    <3>1. /\ call[c].at # "outside" /\ queue' = queue /\ UNCHANGED ledger
          /\ \/ call' = [call EXCEPT ![c].at = "awake"]
             \/ /\ call' = [call EXCEPT ![c].at = "asleep"]
                /\ ~(First(c) /\ Fits(call[c].want))
      BY <1>7, <2>2 DEF EvictReturns, EvictFails, Wake, SpuriousWake, Cancel
    <3>2. Committed' = Committed
      BY <3>1 DEF ledger, Committed, Backing
    <3>3. /\ \A x \in Callers \ {c} : call'[x] = call[x]
          /\ call'[c].want = call[c].want
          /\ call'[c].at = "awake" \/ ~(First(c) /\ Fits(call[c].want))
      BY <3>1, StateChange
    <3>4. QED
      BY <3>1, <3>2, <3>3 DEF NoLostWakeup, First, Fits
  <2>3. QED
    BY <2>1, <2>2
<1>8. QED
  BY <1>3, <1>4, <1>5, <1>6, <1>7 DEF Next, Admission

(* No wakeup is lost: whoever is first and fits is awake or on its way to  *)
(* look, so every operation that makes room notifies.                      *)
THEOREM WakeupInvariant == Spec => []NoLostWakeup
<1>1. Init => NoLostWakeup
  BY DEF Init, NoLostWakeup, First
<1>2. QED
  BY <1>1, WakeupStep, LedgerInvariant, QueueInvariant, PTL DEF Spec

-------------------------------------------------------------------------------
(* ResourceBudget implements FifoAdmission. *)

(* The abstract queue depends only on who waits and for how much. *)
LEMMA WaitingSame ==
  ASSUME queue' = queue, QueueHoldsWaiters, queue \in Seq(Callers),
         \A x \in Members(queue) : call'[x].want = call[x].want
  PROVE  Waiting' = Waiting
  BY DEF Waiting, Members

LEMMA WaitingLen ==
  ASSUME IInv
  PROVE  /\ Len(Waiting) = Len(queue) /\ Len(queue) \in Nat
         /\ \A i \in 1 .. Len(queue) :
              Waiting[i] = [who |-> queue[i], amount |-> call[queue[i]].want]
         /\ Waiting \in Seq([who : Callers, amount : Nat])
<1>1. queue \in Seq(Callers) /\ Len(queue) \in Nat
  BY Parts
<1>2. ASSUME NEW x \in Callers PROVE call[x].want \in Nat
  <2>1. CASE call[x].at = "outside"
    <3>1. call[x] = Outside
      BY <2>1, Parts DEF CallStates
    <3>2. QED
      BY <3>1 DEF Outside
  <2>2. CASE call[x].at # "outside"
    BY <2>2, WakeType, SizesAreNat
  <2>3. QED
    BY <2>1, <2>2
<1>3. \A i \in 1 .. Len(queue) :
        [who |-> queue[i], amount |-> call[queue[i]].want] \in [who : Callers, amount : Nat]
  BY <1>1, <1>2
<1>4. QED
  BY <1>1, <1>3 DEF Waiting

LEMMA WaitingAppended ==
  ASSUME IInv, IInv', QueueHoldsWaiters,
         NEW c \in Callers, NEW n \in Sizes, NEW e \in BOOLEAN, Enqueue(c, n, e)
  PROVE  Abstract!Arrive(c, n)
<1>1. /\ c \notin Members(queue) /\ call'[c].want = n
      /\ \A x \in Callers \ {c} : call'[x] = call[x]
  BY EnqueueEffect
<1>2. /\ queue' = Append(queue, c) /\ queue \in Seq(Callers) /\ Len(queue) \in Nat
      /\ Committed' = Committed
  BY Parts DEF Enqueue, ledger, Committed, Backing
<1>3. \A i \in 1 .. Len(queue) : queue[i] # c /\ queue[i] \in Callers
  BY <1>1, <1>2 DEF Members
<1>4. ASSUME NEW i \in 1 .. Len(Waiting) PROVE Waiting[i].who # c
  <2>1. i \in 1 .. Len(queue)
    BY WaitingLen
  <2>2. Waiting[i] = [who |-> queue[i], amount |-> call[queue[i]].want]
    BY <2>1, WaitingLen
  <2>3. QED
    BY <1>3, <2>1, <2>2
<1>5. Waiting' = Append(Waiting, [who |-> c, amount |-> n])
  <2>1. Len(queue') = Len(queue) + 1
    BY <1>2
  <2>2. ASSUME NEW i \in 1 .. Len(queue) + 1
        PROVE  [who |-> queue'[i], amount |-> call'[queue'[i]].want] =
                 IF i = Len(queue) + 1 THEN [who |-> c, amount |-> n] ELSE Waiting[i]
    <3>1. CASE i = Len(queue) + 1
      BY <1>1, <1>2, <3>1
    <3>2. CASE i # Len(queue) + 1
      <4>1. i \in 1 .. Len(queue) /\ queue'[i] = queue[i]
        BY <1>2, <3>2
      <4>2. QED
        BY <1>1, <1>3, <3>2, <4>1, WaitingLen
    <3>3. QED
      BY <3>1, <3>2
  <2>3. Waiting' = [i \in 1 .. Len(queue) + 1 |->
                      IF i = Len(queue) + 1 THEN [who |-> c, amount |-> n] ELSE Waiting[i]]
    BY <2>1, <2>2 DEF Waiting
  <2>4. QED
    BY <2>3, WaitingLen
<1>6. QED
  BY <1>2, <1>4, <1>5 DEF Abstract!Arrive

LEMMA WaitingUnlinked ==
  ASSUME IInv, QueueHoldsWaiters, NEW c \in Callers, Leave(c)
  PROVE  \E p \in 1 .. Len(Waiting) : /\ queue[p] = c
                                      /\ Waiting' = Without(Waiting, p)
<1>1. PICK p \in 1 .. Len(queue) : queue[p] = c /\ queue' = Without(queue, p)
  BY DEF Leave
<1>2. queue \in Seq(Callers) /\ Len(queue) \in Nat /\ Len(queue') = Len(queue) - 1
  <2>1. queue \in Seq(Callers)
    BY Parts
  <2>2. QED
    BY <1>1, <2>1, WithoutType
<1>3. \A x \in Callers \ {c} : call'[x].want = call[x].want
  BY LeaveEffect
<1>4. ASSUME NEW i \in 1 .. Len(queue) - 1
      PROVE  [who |-> queue'[i], amount |-> call'[queue'[i]].want] =
               IF i < p THEN Waiting[i] ELSE Waiting[i + 1]
  <2> DEFINE m == IF i < p THEN i ELSE i + 1
  <2>1. m \in 1 .. Len(queue) /\ m # p /\ queue'[i] = queue[m]
    BY <1>1, <1>2 DEF Without
  <2>2. queue[m] \in Callers \ {c}
    BY <1>1, <1>2, <2>1 DEF QueueHoldsWaiters, Distinct
  <2>3. Waiting[m] = [who |-> queue[m], amount |-> call[queue[m]].want]
    BY <2>1, WaitingLen
  <2>4. [who |-> queue'[i], amount |-> call'[queue'[i]].want] = Waiting[m]
    BY <1>3, <2>1, <2>2, <2>3
  <2>5. QED
    BY <2>4
<1>5. Waiting' = [i \in 1 .. Len(queue) - 1 |-> IF i < p THEN Waiting[i] ELSE Waiting[i + 1]]
  BY <1>2, <1>4 DEF Waiting
<1>6. Len(Waiting) = Len(queue)
  BY WaitingLen
<1>7. QED
  BY <1>1, <1>5, <1>6 DEF Without

LEMMA AdmissionRefines ==
  ASSUME IInv, IInv', QueueHoldsWaiters, Admission
  PROVE  Abstract!Next \/ UNCHANGED Abstract!vars
<1>1. queue \in Seq(Callers) /\ call \in [Callers -> CallStates]
  BY Parts
<1>2. CASE \E n \in Sizes : TryReserve(n)
  <2>1. PICK n \in Sizes : TryReserve(n)
    BY <1>2
  <2>2. Waiting = <<>> /\ Waiting' = Waiting
    <3>1. Len(Waiting) = 0
      BY <2>1, WaitingLen DEF TryReserve
    <3>2. Waiting' = Waiting
      BY <2>1 DEF TryReserve, Waiting
    <3>3. QED
      BY <3>1, <3>2, WaitingLen
  <2>3. Committed' = Committed + n /\ Committed + n <= Limit
    BY <2>1, PublishGrows, InUse, BudgetAssumption, LimitIsNat DEF TryReserve, Fits
  <2>4. QED
    BY <2>2, <2>3 DEF Abstract!Next, Abstract!AdmitAtOnce
<1>3. CASE \E c \in Callers, n \in Sizes, e \in BOOLEAN : Enqueue(c, n, e)
  BY <1>3, WaitingAppended DEF Abstract!Next
<1>4. ASSUME NEW c \in Callers, EvictFails(c) \/ Cancel(c)
      PROVE  Abstract!Next
  <2>1. Leave(c) /\ UNCHANGED ledger
    BY <1>4 DEF EvictFails, Cancel
  <2>2. Committed' = Committed
    BY <2>1 DEF ledger, Committed, Backing
  <2>3. \E p \in 1 .. Len(Waiting) : Waiting' = Without(Waiting, p)
    BY <2>1, WaitingUnlinked
  <2>4. QED
    BY <2>2, <2>3 DEF Abstract!Next, Abstract!Withdraw, Abstract!Without, Without
<1>5. ASSUME NEW c \in Callers, EvictReturns(c) \/ SpuriousWake(c) \/ Wake(c)
      PROVE  Abstract!Next \/ UNCHANGED Abstract!vars
  <2>1. CASE Leave(c) /\ Wake(c)
    <3>1. First(c) /\ Fits(call[c].want) /\ Publish(call[c].want)
      <4>1. call'[c].at # "asleep"
        BY <2>1, LeaveEffect
      <4>2. [call EXCEPT ![c].at = "asleep"][c].at = "asleep"
        BY CallFields
      <4>3. QED
        BY <2>1, <4>1, <4>2 DEF Wake
    <3>2. PICK p \in 1 .. Len(Waiting) : queue[p] = c /\ Waiting' = Without(Waiting, p)
      BY <2>1, WaitingUnlinked
    <3>3. queue # <<>> /\ queue[1] = c /\ Len(queue) \in Nat /\ Len(queue) >= 1
      BY <1>1, <3>1, HeadIsMember DEF First
    <3>4. p = 1
      BY <3>2, <3>3, WaitingLen DEF QueueHoldsWaiters, Distinct
    <3>5. /\ Waiting # <<>> /\ Head(Waiting) = [who |-> c, amount |-> call[c].want]
          /\ Waiting' = Tail(Waiting)
      <4>1. Len(Waiting) >= 1 /\ Waiting \in Seq([who : Callers, amount : Nat])
            /\ Waiting[1] = [who |-> c, amount |-> call[c].want]
        BY <3>3, WaitingLen
      <4>2. Without(Waiting, 1) = Tail(Waiting)
        BY <4>1, FirstUnlinked
      <4>3. QED
        BY <3>2, <3>4, <4>1, <4>2
    <3>6. call[c].want \in Sizes
      BY <1>5, <2>1, WakeType DEF Wake
    <3>7. /\ Committed' = Committed + call[c].want
          /\ Committed + call[c].want <= Limit
      <4>1. Committed' = Committed + call[c].want
        BY <3>1, <3>6, PublishGrows
      <4>2. call[c].want \in Nat
        BY <3>6, SizesAreNat
      <4>3. Committed + call[c].want <= Limit
        BY <3>1, <4>2, InUse, LimitIsNat DEF Fits
      <4>4. QED
        BY <4>1, <4>3
    <3>8. QED
      BY <3>5, <3>7 DEF Abstract!Next, Abstract!AdmitFirst
  <2>2. CASE ~(Leave(c) /\ Wake(c))
    <3>1. /\ call[c].at # "outside" /\ queue' = queue /\ UNCHANGED ledger
          /\ \/ call' = [call EXCEPT ![c].at = "awake"]
             \/ call' = [call EXCEPT ![c].at = "asleep"]
      BY <1>5, <2>2 DEF EvictReturns, Wake, SpuriousWake
    <3>2. \A x \in Callers : call'[x].want = call[x].want
      BY <3>1, StateChange
    <3>3. Waiting' = Waiting
      BY <1>1, <3>1, <3>2, WaitingSame DEF Members
    <3>4. Committed' = Committed
      BY <3>1 DEF ledger, Committed, Backing
    <3>5. QED
      BY <3>3, <3>4 DEF Abstract!vars
  <2>3. QED
    BY <2>1, <2>2
<1>6. QED
  BY <1>2, <1>3, <1>4, <1>5 DEF Admission

LEMMA StepRefines ==
  IInv /\ IInv' /\ QueueHoldsWaiters /\ [Next]_vars => [Abstract!Next]_(Abstract!vars)
<1> SUFFICES ASSUME IInv, IInv', QueueHoldsWaiters, [Next]_vars
             PROVE  Abstract!Next \/ UNCHANGED Abstract!vars
  OBVIOUS
<1>1. queue \in Seq(Callers)
  BY Parts
<1>2. CASE Holding
  <2>1. queue' = queue /\ \A x \in Callers : call'[x].want = call[x].want
    BY <1>2, HoldingEffect
  <2>2. Waiting' = Waiting
    BY <1>1, <2>1, WaitingSame DEF Members
  <2>3. Committed' <= Committed
    BY <1>2, HoldingShrinks DEF Shrinks
  <2>4. Committed \in Nat /\ Committed' \in Nat
    <3>1. usage' \in [Scopes -> Usage] /\ reserved_unbacked' \in Nat /\ All \in Scopes
      BY DEF IInv, TypeOK, Scopes
    <3>2. QED
      BY <3>1, InUse DEF Committed, Backing, Usage
  <2>5. QED
    BY <2>2, <2>3, <2>4 DEF Abstract!Next, Abstract!Return
<1>3. CASE UNCHANGED vars
  BY <1>3 DEF vars, Abstract!vars, Waiting, Committed, Backing
<1>4. QED
  BY <1>2, <1>3, AdmissionRefines DEF Next

(* The memory domain is a FIFO admission controller, for every limit, every *)
(* set of callers and every mix of allocations within the envelopes: no    *)
(* request overtakes an older one, and only admissions use up the limit.   *)
THEOREM Refinement == Spec => ImplementsFifoAdmission
<1>1. Init => Abstract!Init
  <2>1. ASSUME Init PROVE Committed = 0 /\ Waiting = <<>>
    <3>1. Committed = 0
      BY <2>1 DEF Init, Committed, Backing, NoUsage, Scopes
    <3>2. Waiting = <<>>
      BY <2>1 DEF Init, Waiting
    <3>3. QED
      BY <3>1, <3>2
  <2>2. QED
    BY <2>1 DEF Abstract!Init
<1>2. QED
  BY <1>1, StepRefines, LedgerInvariant, QueueInvariant, PTL
     DEF Spec, ImplementsFifoAdmission, Abstract!Spec
===============================================================================
