--------------------------- MODULE ParallelWorkProofs ---------------------------
(***************************************************************************)
(* The safety of fork and join for any number of images, tasks and slots: a *)
(* call that returned left no thread behind and did what its result says,    *)
(* and nothing runs without a slot.                                         *)
(* The invariant of an image is stated of values (where it is, its groups,   *)
(* calls and threads), so that a step is followed change by change.         *)
(***************************************************************************)
EXTENDS ParallelWork, CollectionsProofs

Joins == {"join", "stop", "stop_retry"}
Unjoined == {"launch", "loop"} \cup Joins

ImageStates == {"start", "queued", "reserve", "plain", "early", "stage", "done"}

ThreadStates ==
  {NoThread, [at |-> "starting", slot |-> "none"]}
    \cup [at : {"loop"}, slot : {"active", "suspended"}]

Calls(k) ==
  [at : {"serial", "done"} \cup Unjoined, by : {Caller, Branch},
   launched : Nat, next : Nat \ {0}, runner : [Tasks(k) -> Threads \cup {Nobody}],
   status : [Tasks(k) -> {"none"} \cup Statuses],
   result : {"none", "launch_failed"} \cup Statuses]

CallStates == {NoCall} \cup Calls("branches") \cup Calls("dc")
Groups == [domain : Nat, job : Nat, taken : Nat]

Types ==
  /\ queue \in Seq(Image)
  /\ image \in [Image -> ImageStates]
  /\ permit \in [Image -> BOOLEAN]
  /\ group \in [Image -> [Stages -> Groups]]
  /\ call \in [Image -> [Stages -> CallStates]]
  /\ thread \in [Image -> [Threads -> ThreadStates]]

(* The threads T of an image *)
AliveOf(T, k) == {t \in Workers(k) : T[t].at # "none"}
StartingOf(T, k) == {t \in Workers(k) : T[t].at = "starting"}
SlottedOf(T) == {t \in Threads : T[t].slot # "none"}

(* How many workers a stage may have *)
Width(k) == IF k = "branches" THEN 1 ELSE Ceiling - 1

(* What an image at M has entered: its calls C and groups G *)
Entered(M, G, C) ==
  /\ \A k \in Stages : C[k].at # "none" => C[k] \in Calls(k)
  /\ M \notin {"early", "stage"} =>
       \A k \in Stages : C[k].at = "none" /\ G[k] = NoGroup
  /\ M = "stage" => /\ C["branches"].at = "none"
                    /\ C["dc"].at # "none" /\ C["dc"].by = Caller
  /\ M = "early" =>
       /\ C["branches"].at # "none" /\ C["branches"].by = Caller
       /\ C["dc"].at # "none" <=> C["branches"].runner[1] # Nobody
       /\ C["dc"].at # "none" => C["dc"].by = C["branches"].runner[1]

(* Who is alive was launched by a call that is not over. *)
AliveAreLaunched(C, T) ==
  /\ T[Caller] = NoThread
  /\ \A k \in Stages : AliveOf(T, k) # {} =>
       /\ C[k].at \in Unjoined
       /\ \A t \in AliveOf(T, k) : \E m \in 1 .. C[k].launched : t = Worker(k, m)

(* A group has a slot for every worker that starts. *)
GroupsSuffice(M, G, C, T) ==
  /\ \A k \in Stages :
       /\ G[k].domain <= Width(k) /\ G[k].job = G[k].domain /\ G[k].taken <= G[k].domain
       /\ C[k].at # "none" =>
            /\ C[k].launched <= G[k].domain
            /\ G[k].taken + Cardinality(StartingOf(T, k)) <= C[k].launched
  /\ (M = "early" /\ C["branches"].at \in {"launch", "loop"} /\ C["branches"].next = 1) =>
       G["dc"].taken = 0

(* Who runs a task of a call is in its loop. *)
RunsIn(k, c, T, t) == \/ t \in Workers(k) /\ T[t].at = "loop"
                      \/ t = c.by /\ c.at = "loop"

RunnersInLoop(C, T) ==
  \A k \in Stages : C[k].at # "none" =>
    \A n \in Tasks(k) : C[k].runner[n] # Nobody => RunsIn(k, C[k], T, C[k].runner[n])

(* The tasks of a call: handed out in order, each run or done, none left *)
Accounted(k, c) ==
  /\ c.at \in {"launch", "loop", "join"} =>
       \A n \in Tasks(k) : n < c.next => c.runner[n] # Nobody \/ c.status[n] \in Statuses
  /\ c.at \in {"launch", "loop"} =>
       \A n \in Tasks(k) : n >= c.next => c.runner[n] = Nobody
  /\ c.at \in Joins => c.next \notin Tasks(k)
  /\ c.at = "serial" => \A n \in Tasks(k) : n < c.next => c.status[n] = "ok"
  /\ c.at = "done" =>
       /\ c.result = "ok" => \A n \in Tasks(k) : c.status[n] = "ok"
       /\ c.result = "error" => \E n \in Tasks(k) : c.status[n] = "error"

(* Who gave up its slot, or only its turn, is in a join. *)
SuspendedJoin(M, P, C, T) ==
  /\ \A t \in Threads : T[t].slot = "suspended" =>
       t = Branch /\ C["dc"].at \in Joins /\ C["dc"].by = Branch
  /\ M \in {"reserve", "plain", "early", "stage"} /\ ~P =>
       \E k \in Stages : C[k].at \in Joins /\ C[k].by = Caller

Sound(M, P, G, C, T) ==
  /\ Entered(M, G, C) /\ AliveAreLaunched(C, T) /\ GroupsSuffice(M, G, C, T)
  /\ RunnersInLoop(C, T) /\ SuspendedJoin(M, P, C, T)
  /\ \A k \in Stages : C[k].at # "none" => Accounted(k, C[k])

ImageSound(i) == Sound(image[i], permit[i], group[i], call[i], thread[i])

(* What an image keeps from others beside its caller's own slot *)
Load(G, T) == (G["branches"].domain - G["branches"].taken)
                + (G["dc"].domain - G["dc"].taken) + Cardinality(SlottedOf(T))

WithinLimits == /\ Protected <= Limit
                /\ \A i \in Image : 1 + Load(group[i], thread[i]) <= JobLimit[i]

IInv == Types /\ (\A i \in Image : ImageSound(i)) /\ WithinLimits /\ ~terminated

-------------------------------------------------------------------------------
(* The stages and their threads. *)
LEMMA Layout ==
  /\ Ceiling \in Nat \ {0} /\ Count \in Nat \ {0} /\ Limit \in Nat \ {0}
  /\ Participants \in Nat \ {0} /\ Participants <= Ceiling
  /\ Caller = 0 /\ Branch = Ceiling /\ Threads = 0 .. Ceiling /\ Nobody \notin Threads
  /\ Workers("branches") = {Branch} /\ Workers("dc") = 1 .. Ceiling - 1
  /\ Stages = {"branches", "dc"}
  /\ \A k \in Stages : Workers(k) \subseteq Threads /\ Caller \notin Workers(k)
  /\ Caller # Branch /\ Branch \notin Workers("dc")
  /\ Tasks("branches") = {1, 2} /\ Tasks("dc") = 1 .. Count
  /\ 1 \in Tasks("branches")
BY LimitsAssumption DEF Caller, Branch, Threads, Nobody, Workers, Stages, Tasks, BranchTasks

(* The tasks of a stage are numbered from 1. *)
LEMMA TasksCounted ==
  ASSUME NEW k \in Stages
  PROVE  \E N \in Nat : Tasks(k) = 1 .. N /\ Cardinality(Tasks(k)) = N /\ N >= 1
<1>0. ASSUME NEW N \in Nat PROVE Cardinality(1 .. N) = N
  BY FS_Interval
<1>1. \E N \in Nat : Tasks(k) = 1 .. N /\ N >= 1
  <2>1. CASE k = "branches"
    <3>1. {1, 2} = 1 .. 2
      OBVIOUS
    <3>2. Tasks(k) = 1 .. 2
      BY <2>1, <3>1, Layout
    <3>3. QED
      BY <3>2
  <2>2. CASE k = "dc"
    BY <2>2, Layout
  <2>3. QED
    BY <2>1, <2>2, Layout
<1>2. QED
  BY <1>0, <1>1

(* The threads, those that start and those with a slot are finitely many. *)
LEMMA ThreadsFinite ==
  /\ IsFiniteSet(Threads)
  /\ \A T, k : k \in Stages => IsFiniteSet(StartingOf(T, k)) /\ Cardinality(StartingOf(T, k)) \in Nat
  /\ \A T : IsFiniteSet(SlottedOf(T)) /\ Cardinality(SlottedOf(T)) \in Nat
<1>1. IsFiniteSet(Threads)
  BY FS_Interval, Layout
<1>2. ASSUME NEW T, NEW k \in Stages
      PROVE  IsFiniteSet(StartingOf(T, k)) /\ Cardinality(StartingOf(T, k)) \in Nat
  <2>1. StartingOf(T, k) \subseteq Threads
    BY Layout DEF StartingOf
  <2>2. QED
    BY <1>1, <2>1, FS_Subset, FS_CardinalityType
<1>3. ASSUME NEW T PROVE IsFiniteSet(SlottedOf(T)) /\ Cardinality(SlottedOf(T)) \in Nat
  <2>1. SlottedOf(T) \subseteq Threads
    BY DEF SlottedOf
  <2>2. QED
    BY <1>1, <2>1, FS_Subset, FS_CardinalityType
<1>4. QED
  BY <1>1, <1>2, <1>3

-------------------------------------------------------------------------------
(* One change of the values of an image at a time.  *)
Typed(G, C, T) ==
  /\ G \in [Stages -> Groups]
  /\ C \in [Stages -> CallStates]
  /\ T \in [Threads -> ThreadStates]

(* What a running call carries. *)
LEMMA CallFields ==
  ASSUME NEW k \in Stages, NEW c \in Calls(k)
  PROVE  /\ c.at \in {"serial", "done"} \cup Unjoined /\ c.at # "none"
         /\ c.by \in {Caller, Branch} /\ c.by \in Threads
         /\ c.launched \in Nat /\ c.next \in Nat /\ c.next >= 1
         /\ c.runner \in [Tasks(k) -> Threads \cup {Nobody}]
         /\ c.status \in [Tasks(k) -> {"none"} \cup Statuses]
<1>1. c.by \in {Caller, Branch}
  BY DEF Calls
<1>2. c.by \in Threads
  BY <1>1, Layout
<1>3. /\ c.at \in {"serial", "done"} \cup Unjoined
      /\ c.launched \in Nat /\ c.next \in Nat \ {0}
      /\ c.runner \in [Tasks(k) -> Threads \cup {Nobody}]
      /\ c.status \in [Tasks(k) -> {"none"} \cup Statuses]
  BY DEF Calls
<1>4. c.at # "none"
  BY <1>3 DEF Unjoined, Joins
<1>5. QED
  BY <1>1, <1>2, <1>3, <1>4

(* What a thread is. *)
LEMMA ThreadFields ==
  ASSUME NEW s \in ThreadStates
  PROVE  /\ s.at \in {"none", "starting", "loop"}
         /\ s.slot \in {"none", "active", "suspended"}
         /\ s.at = "none" => s = NoThread
         /\ s.at = "loop" <=> s.slot # "none"
         /\ s.at = "starting" => s = [at |-> "starting", slot |-> "none"]
BY DEF ThreadStates, NoThread

(* A call moves on, with its caller, and no fewer workers launched. *)
LEMMA CallChanges ==
  ASSUME NEW M, NEW P, NEW G, NEW C, NEW T, NEW D, Typed(G, C, T), Sound(M, P, G, C, T),
         NEW k \in Stages, C[k].at # "none", D[k] \in Calls(k),
         \A m \in Stages \ {k} : D[m] = C[m],
         D[k].by = C[k].by,
         C[k].launched <= D[k].launched, D[k].launched <= G[k].domain,
         AliveOf(T, k) # {} => D[k].at \in Unjoined,
         k = "branches" => D[k].runner[1] = C[k].runner[1],
         k = "branches" /\ D[k].at \in {"launch", "loop"} /\ D[k].next = 1 =>
           C[k].at \in {"launch", "loop"} /\ C[k].next = 1,
         \A n \in Tasks(k) : D[k].runner[n] # Nobody => RunsIn(k, D[k], T, D[k].runner[n]),
         Accounted(k, D[k]),
         C[k].at \in Joins /\ D[k].at \notin Joins =>
           IF D[k].by = Caller THEN P ELSE T[D[k].by].slot = "active"
  PROVE  Sound(M, P, G, D, T)
<1>1. C[k] \in Calls(k) /\ C[k].launched \in Nat /\ D[k].launched \in Nat /\ D[k].at # "none"
  BY CallFields DEF Sound, Entered
<1>2. Entered(M, G, D)
  BY <1>1, Layout DEF Sound, Entered
<1>3. AliveAreLaunched(D, T)
  <2> SUFFICES ASSUME NEW m \in Stages, AliveOf(T, m) # {}
               PROVE  /\ D[m].at \in Unjoined
                      /\ \A t \in AliveOf(T, m) : \E x \in 1 .. D[m].launched : t = Worker(m, x)
    BY DEF AliveAreLaunched, Sound
  <2>1. \A t \in AliveOf(T, m) : \E x \in 1 .. C[m].launched : t = Worker(m, x)
    BY DEF AliveAreLaunched, Sound
  <2>2. CASE m = k
    <3>1. 1 .. C[m].launched \subseteq 1 .. D[m].launched
      BY <1>1, <2>2
    <3>2. QED
      BY <2>1, <2>2, <3>1
  <2>3. CASE m # k
    BY <2>1, <2>3 DEF AliveAreLaunched, Sound
  <2>4. QED
    BY <2>2, <2>3
<1>4. GroupsSuffice(M, G, D, T)
  <2>1. ASSUME NEW m \in Stages
        PROVE  /\ G[m].domain <= Width(m) /\ G[m].job = G[m].domain
               /\ G[m].taken <= G[m].domain
    BY DEF Sound, GroupsSuffice
  <2>2. /\ D[k].launched <= G[k].domain
        /\ G[k].taken + Cardinality(StartingOf(T, k)) <= D[k].launched
    <3>1. G[k].taken \in Nat /\ Cardinality(StartingOf(T, k)) \in Nat
      BY ThreadsFinite DEF Typed, Groups
    <3>2. G[k].taken + Cardinality(StartingOf(T, k)) <= C[k].launched
      BY DEF Sound, GroupsSuffice
    <3>3. QED
      BY <1>1, <3>1, <3>2
  <2>3. ASSUME NEW m \in Stages, D[m].at # "none"
        PROVE  /\ D[m].launched <= G[m].domain
               /\ G[m].taken + Cardinality(StartingOf(T, m)) <= D[m].launched
    BY <2>2, <2>3 DEF Sound, GroupsSuffice
  <2>4. (M = "early" /\ D["branches"].at \in {"launch", "loop"} /\ D["branches"].next = 1) =>
          G["dc"].taken = 0
    BY DEF Sound, GroupsSuffice, Stages
  <2>5. QED
    BY <2>1, <2>3, <2>4 DEF GroupsSuffice
<1>5. RunnersInLoop(D, T)
  BY DEF Sound, RunnersInLoop
<1>6. SuspendedJoin(M, P, D, T)
  <2>1. ASSUME NEW t \in Threads, T[t].slot = "suspended"
        PROVE  t = Branch /\ D["dc"].at \in Joins /\ D["dc"].by = Branch
    BY <2>1, Layout DEF Sound, SuspendedJoin
  <2>2. ASSUME M \in {"reserve", "plain", "early", "stage"}, ~P
        PROVE  \E m \in Stages : D[m].at \in Joins /\ D[m].by = Caller
    <3>1. PICK m \in Stages : C[m].at \in Joins /\ C[m].by = Caller
      BY <2>2 DEF Sound, SuspendedJoin
    <3>2. D[m].at \in Joins /\ D[m].by = Caller
      BY <2>2, <3>1
    <3>3. QED
      BY <3>2
  <2>3. QED
    BY <2>1, <2>2 DEF SuspendedJoin
<1>7. \A m \in Stages : D[m].at # "none" => Accounted(m, D[m])
  BY DEF Sound
<1>8. QED
  BY <1>2, <1>3, <1>4, <1>5, <1>6, <1>7 DEF Sound

(* One element more. *)
LEMMA OneMore ==
  ASSUME NEW S, IsFiniteSet(S), NEW x, NEW R, R \subseteq S \cup {x}
  PROVE  /\ IsFiniteSet(R) /\ Cardinality(R) \in Nat /\ Cardinality(S) \in Nat
         /\ Cardinality(R) <= Cardinality(S) + 1
<1>1. /\ IsFiniteSet(S \cup {x})
      /\ Cardinality(S \cup {x}) = IF x \in S THEN Cardinality(S) ELSE Cardinality(S) + 1
  BY FS_AddElement
<1>2. IsFiniteSet(R) /\ Cardinality(R) <= Cardinality(S \cup {x})
  BY <1>1, FS_Subset
<1> DEFINE a == Cardinality(R)
           b == Cardinality(S)
           d == Cardinality(S \cup {x})
<1>3. a \in Nat /\ b \in Nat /\ d \in Nat
  BY <1>1, <1>2, FS_CardinalityType
<1> HIDE DEF a, b, d
<1>4. a <= d /\ (d = b \/ d = b + 1)
  BY <1>1, <1>2 DEF a, b, d
<1>5. a <= b + 1
  BY <1>3, <1>4
<1>6. QED
  BY <1>2, <1>3, <1>5 DEF a, b

(* A thread of one stage is none of the other's. *)
LEMMA StagesApart ==
  ASSUME NEW k \in Stages, NEW w \in Workers(k), NEW m \in Stages, m # k
  PROVE  w \notin Workers(m) /\ w \in Threads /\ w # Caller
BY Layout

(* The threads of a stage when one of them changes. *)
LEMMA OneThread ==
  ASSUME NEW T, NEW U, NEW k \in Stages, NEW w \in Workers(k),
         \A t \in Threads \ {w} : U[t] = T[t]
  PROVE  /\ U[Caller] = T[Caller]
         /\ \A m \in Stages \ {k} : AliveOf(U, m) = AliveOf(T, m)
                                    /\ StartingOf(U, m) = StartingOf(T, m)
         /\ AliveOf(U, k) \subseteq AliveOf(T, k) \cup {w}
         /\ AliveOf(T, k) \subseteq AliveOf(U, k) \cup {w}
         /\ U[w].at = "none" => AliveOf(U, k) = AliveOf(T, k) \ {w}
         /\ U[w].at = T[w].at => StartingOf(U, k) = StartingOf(T, k)
<1>1. \A m \in Stages : Workers(m) \subseteq Threads /\ Caller \notin Workers(m)
  BY Layout
<1>2. \A m \in Stages \ {k} : w \notin Workers(m)
  BY StagesApart
<1>3. Caller \in Threads
  BY Layout
<1>4. QED
  BY <1>1, <1>2, <1>3 DEF AliveOf, StartingOf

(* A worker is launched: the call has counted it already. *)
LEMMA ThreadStarts ==
  ASSUME NEW M, NEW P, NEW G, NEW C, NEW T, NEW U, Typed(G, C, T), Sound(M, P, G, C, T),
         NEW k \in Stages, NEW w \in Workers(k), C[k].at = "launch",
         T[w] = NoThread, U[w] = [at |-> "starting", slot |-> "none"],
         \A t \in Threads \ {w} : U[t] = T[t],
         \E m \in 1 .. C[k].launched : w = Worker(k, m),
         G[k].taken + Cardinality(StartingOf(T, k)) < C[k].launched
  PROVE  Sound(M, P, G, C, U)
<1>0. /\ U[Caller] = T[Caller]
      /\ \A m \in Stages \ {k} : AliveOf(U, m) = AliveOf(T, m)
                                 /\ StartingOf(U, m) = StartingOf(T, m)
      /\ AliveOf(U, k) \subseteq AliveOf(T, k) \cup {w}
  <2>1. U[Caller] = T[Caller]
    BY Layout
  <2>2. ASSUME NEW m \in Stages \ {k}
        PROVE  AliveOf(U, m) = AliveOf(T, m) /\ StartingOf(U, m) = StartingOf(T, m)
    <3>1. Workers(m) \subseteq Threads \ {w}
      BY Layout, StagesApart
    <3>2. \A t \in Workers(m) : U[t] = T[t]
      BY <3>1
    <3>3. QED
      BY <3>2 DEF AliveOf, StartingOf
  <2>3. AliveOf(U, k) \subseteq AliveOf(T, k) \cup {w}
    <3>1. \A t \in Workers(k) \ {w} : U[t] = T[t]
      BY Layout
    <3>2. QED
      BY <3>1 DEF AliveOf
  <2>4. QED
    BY <2>1, <2>2, <2>3
<1>1. w \in Threads /\ w # Caller /\ C[k] \in Calls(k)
  BY Layout DEF Sound, Entered
<1>2. AliveAreLaunched(C, U)
  <2>1. U[Caller] = NoThread
    BY OneThread DEF Sound, AliveAreLaunched
  <2>2. ASSUME NEW m \in Stages, AliveOf(U, m) # {}
        PROVE  /\ C[m].at \in Unjoined
               /\ \A t \in AliveOf(U, m) : \E x \in 1 .. C[m].launched : t = Worker(m, x)
    <3>1. CASE m = k
      <4>1. \A t \in AliveOf(T, k) : \E x \in 1 .. C[k].launched : t = Worker(k, x)
        BY DEF Sound, AliveAreLaunched
      <4>2. \A t \in AliveOf(U, k) : t \in AliveOf(T, k) \/ t = w
        BY <1>0
      <4>3. QED
        BY <3>1, <4>1, <4>2 DEF Unjoined
    <3>2. CASE m # k
      <4>1. AliveOf(U, m) = AliveOf(T, m)
        BY <1>0, <3>2
      <4>2. QED
        BY <2>2, <4>1 DEF Sound, AliveAreLaunched
    <3>3. QED
      BY <3>1, <3>2
  <2>3. QED
    BY <2>1, <2>2 DEF AliveAreLaunched
<1>3. GroupsSuffice(M, G, C, U)
  <2>1. StartingOf(U, k) \subseteq StartingOf(T, k) \cup {w}
    BY <1>1, Layout DEF StartingOf
  <2>2. Cardinality(StartingOf(U, k)) <= Cardinality(StartingOf(T, k)) + 1
    BY <2>1, ThreadsFinite, OneMore
  <2>3. G[k].taken + Cardinality(StartingOf(U, k)) <= C[k].launched
    <3> DEFINE a == Cardinality(StartingOf(U, k))
               b == Cardinality(StartingOf(T, k))
    <3>1. a \in Nat /\ b \in Nat /\ G[k].taken \in Nat /\ C[k].launched \in Nat
      BY <1>1, ThreadsFinite, CallFields DEF Typed, Groups
    <3> HIDE DEF a, b
    <3>2. a <= b + 1 /\ G[k].taken + b < C[k].launched
      BY <2>2 DEF a, b
    <3>3. G[k].taken + a <= C[k].launched
      BY <3>1, <3>2
    <3>4. QED
      BY <3>3 DEF a
  <2>4. ASSUME NEW m \in Stages, C[m].at # "none"
        PROVE  /\ C[m].launched <= G[m].domain
               /\ G[m].taken + Cardinality(StartingOf(U, m)) <= C[m].launched
    <3>1. m # k => StartingOf(U, m) = StartingOf(T, m)
      BY <1>0
    <3>2. QED
      BY <2>3, <2>4, <3>1 DEF Sound, GroupsSuffice
  <2>5. QED
    BY <2>4 DEF Sound, GroupsSuffice
<1>4. RunnersInLoop(C, U)
  <2> SUFFICES ASSUME NEW m \in Stages, C[m].at # "none", NEW n \in Tasks(m),
                      C[m].runner[n] # Nobody
               PROVE  RunsIn(m, C[m], U, C[m].runner[n])
    BY DEF RunnersInLoop
  <2>1. RunsIn(m, C[m], T, C[m].runner[n])
    BY DEF Sound, RunnersInLoop
  <2>2. T[w].at # "loop"
    BY DEF NoThread
  <2>3. \A t \in Workers(m) : T[t].at = "loop" => U[t].at = "loop"
    BY <2>2, Layout
  <2>4. QED
    BY <2>1, <2>3 DEF RunsIn
<1>5. SuspendedJoin(M, P, C, U)
  BY <1>1 DEF Sound, SuspendedJoin
<1>6. QED
  BY <1>2, <1>3, <1>4, <1>5 DEF Sound

(* A worker takes its slot: the group had one. *)
LEMMA ThreadTakes ==
  ASSUME NEW M, NEW P, NEW G, NEW C, NEW T, NEW U, NEW H,
         Typed(G, C, T), Typed(H, C, U), Sound(M, P, G, C, T),
         NEW k \in Stages, NEW w \in Workers(k),
         T[w].at = "starting", U[w] = [at |-> "loop", slot |-> "active"],
         \A t \in Threads \ {w} : U[t] = T[t],
         H[k].domain = G[k].domain, H[k].job = G[k].job, H[k].taken = G[k].taken + 1,
         \A m \in Stages \ {k} : H[m] = G[m]
  PROVE  /\ G[k].taken < G[k].domain /\ G[k].job = G[k].domain
         /\ Sound(M, P, H, C, U)
<1>1. w \in Threads /\ w # Caller /\ w \in AliveOf(T, k)
  BY Layout DEF AliveOf
<1>2. /\ C[k].at \in Unjoined /\ C[k].at # "none" /\ C[k] \in Calls(k)
      /\ C[k].launched \in Nat /\ G[k].taken \in Nat /\ G[k].domain \in Nat
  <2>1. C[k].at \in Unjoined /\ C[k].at # "none"
    BY <1>1 DEF Sound, AliveAreLaunched, Unjoined, Joins
  <2>2. C[k] \in Calls(k)
    BY <2>1 DEF Sound, Entered
  <2>3. QED
    BY <2>1, <2>2, CallFields DEF Typed, Groups
<1> DEFINE a == Cardinality(StartingOf(U, k))
           b == Cardinality(StartingOf(T, k))
<1>3. a = b - 1 /\ b >= 1 /\ a \in Nat /\ b \in Nat
  <2>1. StartingOf(U, k) = StartingOf(T, k) \ {w} /\ w \in StartingOf(T, k)
    BY <1>1, Layout DEF StartingOf
  <2>2. Cardinality(StartingOf(T, k) \ {w}) = Cardinality(StartingOf(T, k)) - 1
    BY <2>1, ThreadsFinite, FS_RemoveElement
  <2>3. a \in Nat /\ b \in Nat /\ a = b - 1
    BY <2>1, <2>2, ThreadsFinite
  <2> HIDE DEF a, b
  <2>4. QED
    BY <2>3
<1>4. G[k].taken + b <= C[k].launched /\ C[k].launched <= G[k].domain
      /\ G[k].job = G[k].domain
  BY <1>2 DEF Sound, GroupsSuffice
<1> HIDE DEF a, b
<1>5. G[k].taken + 1 <= G[k].domain /\ G[k].taken < G[k].domain /\ H[k].taken + a <= C[k].launched
  BY <1>2, <1>3, <1>4
<1>6. AliveOf(U, k) = AliveOf(T, k)
  BY <1>1, Layout DEF AliveOf
<1>7. AliveAreLaunched(C, U)
  <2>1. \A m \in Stages : AliveOf(U, m) = AliveOf(T, m)
    BY <1>6, OneThread
  <2>2. U[Caller] = NoThread
    BY OneThread DEF Sound, AliveAreLaunched
  <2>3. QED
    BY <2>1, <2>2 DEF Sound, AliveAreLaunched
<1>8. GroupsSuffice(M, H, C, U)
  <2>1. ASSUME NEW m \in Stages
        PROVE  H[m].domain <= Width(m) /\ H[m].job = H[m].domain /\ H[m].taken <= H[m].domain
    BY <1>4, <1>5 DEF Sound, GroupsSuffice
  <2>2. ASSUME NEW m \in Stages, C[m].at # "none"
        PROVE  /\ C[m].launched <= H[m].domain
               /\ H[m].taken + Cardinality(StartingOf(U, m)) <= C[m].launched
    <3>1. CASE m = k
      BY <1>4, <1>5, <3>1 DEF a
    <3>2. CASE m # k
      <4>1. StartingOf(U, m) = StartingOf(T, m) /\ H[m] = G[m]
        BY <3>2, OneThread
      <4>2. QED
        BY <2>2, <4>1 DEF Sound, GroupsSuffice
    <3>3. QED
      BY <3>1, <3>2
  <2>3. ASSUME M = "early", C["branches"].at \in {"launch", "loop"}, C["branches"].next = 1
        PROVE  H["dc"].taken = 0
    <3>1. C["branches"].runner[1] = Nobody
      <4>1. "branches" \in Stages /\ C["branches"].at # "none"
        BY <2>3 DEF Stages
      <4>2. Accounted("branches", C["branches"])
        BY <4>1 DEF Sound
      <4>3. QED
        BY <2>3, <4>2, Layout DEF Accounted
    <3>2. C["dc"].at = "none"
      BY <2>3, <3>1 DEF Sound, Entered
    <3>3. k # "dc"
      BY <1>2, <3>2
    <3>4. H["dc"] = G["dc"]
      BY <3>3 DEF Stages
    <3>5. QED
      BY <2>3, <3>4 DEF Sound, GroupsSuffice
  <2>4. QED
    BY <2>1, <2>2, <2>3 DEF GroupsSuffice
<1>9. RunnersInLoop(C, U)
  <2> SUFFICES ASSUME NEW m \in Stages, C[m].at # "none", NEW n \in Tasks(m),
                      C[m].runner[n] # Nobody
               PROVE  RunsIn(m, C[m], U, C[m].runner[n])
    BY DEF RunnersInLoop
  <2>1. RunsIn(m, C[m], T, C[m].runner[n])
    BY DEF Sound, RunnersInLoop
  <2>2. \A t \in Workers(m) : T[t].at = "loop" => U[t].at = "loop"
    BY Layout
  <2>3. QED
    BY <2>1, <2>2 DEF RunsIn
<1>10. SuspendedJoin(M, P, C, U)
  BY <1>1 DEF Sound, SuspendedJoin
<1>11. Entered(M, H, C)
  <2>1. M \in {"early", "stage"}
    BY <1>2 DEF Sound, Entered
  <2>2. QED
    BY <2>1 DEF Sound, Entered
<1>12. QED
  BY <1>4, <1>5, <1>7, <1>8, <1>9, <1>10, <1>11 DEF Sound

(* A worker that runs no task ends. *)
LEMMA ThreadExits ==
  ASSUME NEW M, NEW P, NEW G, NEW C, NEW T, NEW U, Typed(G, C, T), Sound(M, P, G, C, T),
         NEW k \in Stages, NEW w \in Workers(k), T[w].at = "loop", U[w] = NoThread,
         \A t \in Threads \ {w} : U[t] = T[t],
         \A n \in Tasks(k) : C[k].runner[n] # w
  PROVE  Sound(M, P, G, C, U)
<1>0. /\ U[Caller] = T[Caller]
      /\ \A m \in Stages \ {k} : AliveOf(U, m) = AliveOf(T, m)
                                 /\ StartingOf(U, m) = StartingOf(T, m)
      /\ U[w].at = "none" => AliveOf(U, k) = AliveOf(T, k) \ {w}
  BY OneThread
<1>a. \A m \in Stages \ {k} : w \notin Workers(m)
  BY StagesApart
<1>1. w \in Threads /\ AliveOf(U, k) \subseteq AliveOf(T, k)
      /\ StartingOf(U, k) = StartingOf(T, k)
  BY Layout DEF AliveOf, StartingOf, NoThread
<1>2. /\ \A m \in Stages : AliveOf(U, m) \subseteq AliveOf(T, m)
      /\ \A m \in Stages : StartingOf(U, m) = StartingOf(T, m)
  BY <1>0, <1>1
<1>3. AliveAreLaunched(C, U)
  BY <1>0, <1>2 DEF Sound, AliveAreLaunched
<1>4. GroupsSuffice(M, G, C, U)
  BY <1>2 DEF Sound, GroupsSuffice
<1>5. RunnersInLoop(C, U)
  <2> SUFFICES ASSUME NEW m \in Stages, C[m].at # "none", NEW n \in Tasks(m),
                      C[m].runner[n] # Nobody
               PROVE  RunsIn(m, C[m], U, C[m].runner[n])
    BY DEF RunnersInLoop
  <2>1. RunsIn(m, C[m], T, C[m].runner[n])
    BY DEF Sound, RunnersInLoop
  <2>2. C[m].runner[n] \in Workers(m) => C[m].runner[n] \in Threads \ {w}
    BY <1>a, Layout
  <2>3. QED
    BY <2>1, <2>2 DEF RunsIn
<1>6. SuspendedJoin(M, P, C, U)
  BY <1>1 DEF Sound, SuspendedJoin, NoThread
<1>7. QED
  BY <1>3, <1>4, <1>5, <1>6 DEF Sound

(* The worker of the branches gives its turn up in the nested join, or has it back. *)
LEMMA SlotChanges ==
  ASSUME NEW M, NEW P, NEW G, NEW C, NEW T, NEW U, Typed(G, C, T), Sound(M, P, G, C, T),
         NEW s \in {"active", "suspended"}, T[Branch].at = "loop",
         U[Branch] = [at |-> "loop", slot |-> s],
         \A t \in Threads \ {Branch} : U[t] = T[t],
         s = "suspended" => C["dc"].at \in Joins /\ C["dc"].by = Branch
  PROVE  Sound(M, P, G, C, U)
<1>1. /\ U[Caller] = T[Caller] /\ \A t \in Threads : U[t].at = T[t].at
      /\ \A m \in Stages : AliveOf(U, m) = AliveOf(T, m) /\ StartingOf(U, m) = StartingOf(T, m)
  <2>1. U[Caller] = T[Caller] /\ \A t \in Threads : U[t].at = T[t].at
    BY Layout
  <2>2. \A m \in Stages : Workers(m) \subseteq Threads
    BY Layout
  <2>3. QED
    BY <2>1, <2>2 DEF AliveOf, StartingOf
<1>2. AliveAreLaunched(C, U)
  BY <1>1 DEF Sound, AliveAreLaunched
<1>3. GroupsSuffice(M, G, C, U)
  BY <1>1 DEF Sound, GroupsSuffice
<1>4. RunnersInLoop(C, U)
  <2>1. \A m \in Stages : \A t \in Workers(m) : U[t].at = T[t].at
    BY <1>1, Layout
  <2>2. QED
    BY <2>1 DEF Sound, RunnersInLoop, RunsIn
<1>5. SuspendedJoin(M, P, C, U)
  BY DEF Sound, SuspendedJoin
<1>6. QED
  BY <1>2, <1>3, <1>4, <1>5 DEF Sound

(* The caller has its slot, or gives it up in a join. *)
LEMMA PermitChanges ==
  ASSUME NEW M, NEW P, NEW Q, NEW G, NEW C, NEW T, Sound(M, P, G, C, T),
         Q \/ P = Q \/ \E k \in Stages : C[k].at \in Joins /\ C[k].by = Caller
  PROVE  Sound(M, Q, G, C, T)
BY DEF Sound, SuspendedJoin

(* The task that is the DC branch starts the nested stage. *)
LEMMA NestedBegins ==
  ASSUME NEW M, NEW P, NEW G, NEW C, NEW T, NEW D, Typed(G, C, T), Sound(M, P, G, C, T),
         C["branches"].at \in Unjoined, C["branches"].next = 1, NEW t \in {Caller, Branch},
         RunsIn("branches", C["branches"], T, t),
         D["branches"] \in Calls("branches"), D["branches"].next = 2,
         D["branches"].at = C["branches"].at, D["branches"].by = C["branches"].by,
         D["branches"].launched = C["branches"].launched,
         D["branches"].status = C["branches"].status,
         D["branches"].runner[1] = t, D["branches"].runner[2] = C["branches"].runner[2],
         D["dc"] \in Calls("dc"), D["dc"].at \in {"launch", "serial"}, D["dc"].by = t,
         D["dc"].launched = 0, D["dc"].next = 1,
         \A n \in Tasks("dc") : D["dc"].runner[n] = Nobody
  PROVE  Sound(M, P, G, D, T)
<1>0. "branches" \in Stages /\ "dc" \in Stages /\ Stages = {"branches", "dc"}
      /\ Tasks("branches") = {1, 2} /\ Tasks("dc") = 1 .. Count /\ t # Nobody
  BY Layout
<1>1. C["branches"].at # "none" /\ D["branches"].at # "none" /\ D["dc"].at # "none"
  BY <1>0, CallFields DEF Unjoined, Joins
<1>2. M = "early"
  BY <1>0, <1>1 DEF Sound, Entered
<1>3. Accounted("branches", C["branches"])
  BY <1>0, <1>1 DEF Sound
<1>4. C["branches"].at \in {"launch", "loop"} /\ C["branches"].runner[1] = Nobody
  <2>1. C["branches"].at \notin Joins
    BY <1>0, <1>3 DEF Accounted
  <2>2. QED
    BY <1>0, <1>3, <2>1 DEF Accounted, Unjoined
<1>5. C["dc"].at = "none" /\ AliveOf(T, "dc") = {}
  <2>1. C["dc"].at = "none"
    BY <1>2, <1>4 DEF Sound, Entered
  <2>2. QED
    BY <1>0, <2>1 DEF Sound, AliveAreLaunched, Unjoined, Joins
<1>6. Entered(M, G, D)
  BY <1>0, <1>1, <1>2 DEF Sound, Entered
<1>7. AliveAreLaunched(D, T)
  BY <1>0, <1>5 DEF Sound, AliveAreLaunched
<1>8. GroupsSuffice(M, G, D, T)
  <2>1. /\ D["branches"].launched <= G["branches"].domain
        /\ G["branches"].taken + Cardinality(StartingOf(T, "branches")) <= D["branches"].launched
    BY <1>0, <1>1 DEF Sound, GroupsSuffice
  <2>2. G["dc"].taken = 0 /\ G["dc"].domain \in Nat
    BY <1>0, <1>2, <1>4 DEF Sound, GroupsSuffice, Typed, Groups
  <2>3. Cardinality(StartingOf(T, "dc")) = 0
    <3>1. StartingOf(T, "dc") = {}
      BY <1>5 DEF StartingOf, AliveOf
    <3>2. QED
      BY <3>1, FS_EmptySet
  <2>4. /\ D["dc"].launched <= G["dc"].domain
        /\ G["dc"].taken + Cardinality(StartingOf(T, "dc")) <= D["dc"].launched
    BY <2>2, <2>3
  <2>5. QED
    BY <1>0, <2>1, <2>4 DEF Sound, GroupsSuffice
<1>9. RunnersInLoop(D, T)
  <2>1. RunsIn("branches", D["branches"], T, t)
    BY DEF RunsIn
  <2>2. C["branches"].runner[2] # Nobody => RunsIn("branches", C["branches"], T, C["branches"].runner[2])
    BY <1>0, <1>1 DEF Sound, RunnersInLoop
  <2>3. C["branches"].runner[2] # Nobody => RunsIn("branches", D["branches"], T, D["branches"].runner[2])
    BY <2>2 DEF RunsIn
  <2>4. QED
    BY <1>0, <2>1, <2>3 DEF RunnersInLoop
<1>10. SuspendedJoin(M, P, D, T)
  <2>1. \A x \in Threads : T[x].slot # "suspended"
    BY <1>5 DEF Sound, SuspendedJoin, Joins
  <2>2. ASSUME ~P PROVE \E k \in Stages : D[k].at \in Joins /\ D[k].by = Caller
    BY <1>0, <1>2, <1>4, <1>5, <2>2 DEF Sound, SuspendedJoin, Joins
  <2>3. QED
    BY <2>1, <2>2 DEF SuspendedJoin
<1>11. Accounted("dc", D["dc"])
  <2>1. \A n \in Tasks("dc") : ~(n < D["dc"].next)
    BY <1>0, Layout
  <2>2. QED
    BY <2>1 DEF Accounted, Joins
<1>12. Accounted("branches", D["branches"])
  <2>1. C["branches"].runner[2] = Nobody
    BY <1>0, <1>3, <1>4 DEF Accounted
  <2>2. D["branches"].at \in {"launch", "loop"}
    BY <1>4
  <2>3. QED
    BY <1>0, <2>1, <2>2 DEF Accounted, Joins
<1>13. QED
  BY <1>0, <1>6, <1>7, <1>8, <1>9, <1>10, <1>11, <1>12 DEF Sound

(* The DC branch ends after its nested stage. *)
LEMMA NestedEnds ==
  ASSUME NEW M, NEW P, NEW G, NEW C, NEW T, NEW D, Typed(G, C, T), Sound(M, P, G, C, T),
         C["branches"].at \in Unjoined, C["dc"].at = "done", D["dc"] = NoCall,
         D["branches"] \in Calls("branches"), D["branches"].next = C["branches"].next,
         D["branches"].at = C["branches"].at, D["branches"].by = C["branches"].by,
         D["branches"].launched = C["branches"].launched,
         D["branches"].runner[1] = Nobody, D["branches"].runner[2] = C["branches"].runner[2],
         D["branches"].status[1] \in Statuses, D["branches"].status[2] = C["branches"].status[2]
  PROVE  Sound(M, P, G, D, T)
<1>0. "branches" \in Stages /\ "dc" \in Stages /\ Stages = {"branches", "dc"}
      /\ Tasks("branches") = {1, 2} /\ D["dc"].at = "none"
  BY Layout DEF NoCall
<1>1. C["branches"].at # "none" /\ D["branches"].at # "none"
  BY <1>0, CallFields DEF Unjoined, Joins
<1>2. M = "early"
  BY <1>0, <1>1 DEF Sound, Entered
<1>3. AliveOf(T, "dc") = {}
  BY <1>0 DEF Sound, AliveAreLaunched, Unjoined, Joins
<1>4. Entered(M, G, D)
  BY <1>0, <1>1, <1>2 DEF Sound, Entered
<1>5. AliveAreLaunched(D, T)
  BY <1>0, <1>3 DEF Sound, AliveAreLaunched
<1>6. GroupsSuffice(M, G, D, T)
  BY <1>0, <1>1 DEF Sound, GroupsSuffice
<1>7. RunnersInLoop(D, T)
  <2>1. C["branches"].runner[2] # Nobody => RunsIn("branches", C["branches"], T, C["branches"].runner[2])
    BY <1>0, <1>1 DEF Sound, RunnersInLoop
  <2>2. C["branches"].runner[2] # Nobody => RunsIn("branches", D["branches"], T, D["branches"].runner[2])
    BY <2>1 DEF RunsIn
  <2>3. QED
    BY <1>0, <2>2 DEF RunnersInLoop
<1>8. SuspendedJoin(M, P, D, T)
  <2>1. \A x \in Threads : T[x].slot # "suspended"
    BY DEF Sound, SuspendedJoin, Joins
  <2>2. ASSUME ~P PROVE \E k \in Stages : D[k].at \in Joins /\ D[k].by = Caller
    BY <1>0, <1>2, <2>2 DEF Sound, SuspendedJoin, Joins
  <2>3. QED
    BY <2>1, <2>2 DEF SuspendedJoin
<1>9. Accounted("branches", D["branches"])
  <2>1. Accounted("branches", C["branches"])
    BY <1>0, <1>1 DEF Sound
  <2>2. D["branches"].at \notin {"serial", "done"}
    BY DEF Unjoined, Joins
  <2>3. QED
    BY <1>0, <2>1, <2>2 DEF Accounted
<1>10. QED
  BY <1>0, <1>4, <1>5, <1>6, <1>7, <1>8, <1>9 DEF Sound

(* Before an image enters its first stage nobody of it is alive. *)
LEMMA Outside ==
  ASSUME NEW M, NEW P, NEW G, NEW C, NEW T, Typed(G, C, T), Sound(M, P, G, C, T),
         M \notin {"early", "stage"}
  PROVE  /\ \A k \in Stages : C[k].at = "none" /\ G[k] = NoGroup /\ AliveOf(T, k) = {}
         /\ \A t \in Threads : T[t].slot # "suspended"
         /\ M \in {"reserve", "plain"} => P
<1>1. \A k \in Stages : C[k].at = "none" /\ G[k] = NoGroup
  BY DEF Sound, Entered
<1>2. \A k \in Stages : AliveOf(T, k) = {}
  BY <1>1 DEF Sound, AliveAreLaunched, Unjoined, Joins
<1>3. \A t \in Threads : T[t].slot # "suspended"
  BY <1>1, Layout DEF Sound, SuspendedJoin, Joins
<1>4. M \in {"reserve", "plain"} => P
  BY <1>1 DEF Sound, SuspendedJoin, Joins
<1>5. QED
  BY <1>1, <1>2, <1>3, <1>4

(* An image that is in no stage moves on, to one it needs its slot for or not. *)
LEMMA Waits ==
  ASSUME NEW M, NEW P, NEW G, NEW C, NEW T, Typed(G, C, T), Sound(M, P, G, C, T),
         M \notin {"early", "stage"}, NEW N \in {"queued", "reserve", "plain"}, NEW Q,
         Q \/ N = "queued"
  PROVE  Sound(N, Q, G, C, T)
<1>1. Entered(N, G, C)
  BY DEF Sound, Entered
<1>2. GroupsSuffice(N, G, C, T)
  BY DEF Sound, GroupsSuffice
<1>3. SuspendedJoin(N, Q, C, T)
  BY DEF Sound, SuspendedJoin
<1>4. QED
  BY <1>1, <1>2, <1>3 DEF Sound

(* It enters with fresh groups, and one call of its own. *)
LEMMA Enters ==
  ASSUME NEW M, NEW P, NEW G, NEW C, NEW T, Typed(G, C, T), Sound(M, P, G, C, T),
         M \in {"reserve", "plain"}, NEW N \in {"early", "stage"}, NEW H, NEW D,
         \A k \in Stages : H[k].domain \in Nat /\ H[k].domain <= Width(k)
                           /\ H[k].job = H[k].domain /\ H[k].taken = 0,
         \A k \in Stages : D[k].at # "none" =>
           /\ D[k] \in Calls(k) /\ D[k].at \in {"serial", "launch"} /\ D[k].by = Caller
           /\ D[k].launched = 0 /\ D[k].next = 1
           /\ \A n \in Tasks(k) : D[k].runner[n] = Nobody,
         N = "stage" <=> D["branches"].at = "none",
         N = "stage" <=> D["dc"].at # "none"
  PROVE  Sound(N, P, H, D, T)
<1>0. "branches" \in Stages /\ "dc" \in Stages /\ 1 \in Tasks("branches")
  BY Layout
<1>1. P /\ (\A k \in Stages : AliveOf(T, k) = {}) /\ \A t \in Threads : T[t].slot # "suspended"
  BY Outside
<1>2. Entered(N, H, D)
  BY <1>0 DEF Entered
<1>3. AliveAreLaunched(D, T)
  BY <1>1 DEF Sound, AliveAreLaunched
<1>4. GroupsSuffice(N, H, D, T)
  <2>1. ASSUME NEW k \in Stages PROVE Cardinality(StartingOf(T, k)) = 0
    <3>1. StartingOf(T, k) = {}
      BY <1>1 DEF StartingOf, AliveOf
    <3>2. QED
      BY <3>1, FS_EmptySet
  <2>2. QED
    BY <1>0, <2>1 DEF GroupsSuffice
<1>5. RunnersInLoop(D, T)
  BY DEF RunnersInLoop
<1>6. SuspendedJoin(N, P, D, T)
  BY <1>1 DEF SuspendedJoin
<1>7. ASSUME NEW k \in Stages, D[k].at # "none" PROVE Accounted(k, D[k])
  <2>1. \A n \in Tasks(k) : ~(n < D[k].next)
    BY <1>7, TasksCounted
  <2>2. QED
    BY <1>7, <2>1 DEF Accounted, Joins
<1>8. QED
  BY <1>2, <1>3, <1>4, <1>5, <1>6, <1>7 DEF Sound

(* When its own call is over, so is everything else of the image. *)
LEMMA NobodyLeft ==
  ASSUME NEW M, NEW P, NEW G, NEW C, NEW T, Typed(G, C, T), Sound(M, P, G, C, T),
         \/ M = "early" /\ C["branches"].at = "done"
         \/ M = "stage" /\ C["dc"].at = "done"
  PROVE  /\ \A k \in Stages : AliveOf(T, k) = {}
         /\ \A t \in Threads : T[t] = NoThread
         /\ SlottedOf(T) = {}
<1>0. "branches" \in Stages /\ "dc" \in Stages /\ 1 \in Tasks("branches") /\ Stages = {"branches", "dc"}
  BY Layout
<1>1. \A k \in Stages : AliveOf(T, k) = {}
  <2>1. CASE M = "stage"
    BY <1>0, <2>1 DEF Sound, Entered, AliveAreLaunched, Unjoined, Joins
  <2>2. CASE M = "early" /\ C["branches"].at = "done"
    <3>1. AliveOf(T, "branches") = {}
      BY <1>0, <2>2 DEF Sound, AliveAreLaunched, Unjoined, Joins
    <3>2. C["branches"].runner[1] = Nobody
      BY <1>0, <2>2, <3>1 DEF Sound, RunnersInLoop, RunsIn, AliveOf
    <3>3. C["dc"].at = "none"
      BY <2>2, <3>2 DEF Sound, Entered
    <3>4. AliveOf(T, "dc") = {}
      BY <1>0, <3>3 DEF Sound, AliveAreLaunched, Unjoined, Joins
    <3>5. QED
      BY <1>0, <3>1, <3>4
  <2>3. QED
    BY <2>1, <2>2
<1>2. \A t \in Threads : T[t] = NoThread
  <2> TAKE t \in Threads
  <2>1. t = Caller \/ t \in Workers("branches") \/ t \in Workers("dc")
    BY Layout
  <2>2. T[t].at = "none" \/ t = Caller
    BY <1>0, <1>1, <2>1 DEF AliveOf
  <2>3. T[t] \in ThreadStates
    BY DEF Typed
  <2>4. QED
    BY <2>2, <2>3, ThreadFields DEF Sound, AliveAreLaunched
<1>3. SlottedOf(T) = {}
  BY <1>2 DEF SlottedOf, NoThread
<1>4. QED
  BY <1>1, <1>2, <1>3

(* Then it leaves. *)
LEMMA Finishes ==
  ASSUME NEW T, \A k \in Stages : AliveOf(T, k) = {}, \A t \in Threads : T[t] = NoThread,
         NEW Q, NEW H, NEW D, \A k \in Stages : H[k] = NoGroup /\ D[k] = NoCall
  PROVE  Sound("done", Q, H, D, T)
<1>0. "branches" \in Stages /\ "dc" \in Stages
  BY Layout
<1>1. \A k \in Stages : D[k].at = "none"
  BY DEF NoCall
<1>2. Entered("done", H, D)
  BY <1>1 DEF Entered
<1>3. AliveAreLaunched(D, T)
  BY Layout DEF AliveAreLaunched
<1>4. GroupsSuffice("done", H, D, T)
  <2>1. \A k \in Stages : H[k].domain = 0 /\ H[k].job = 0 /\ H[k].taken = 0 /\ 0 <= Width(k)
    BY <1>0, Layout DEF NoGroup, Width
  <2>2. QED
    BY <1>1, <2>1 DEF GroupsSuffice
<1>5. RunnersInLoop(D, T)
  BY <1>1 DEF RunnersInLoop
<1>6. SuspendedJoin("done", Q, D, T)
  BY DEF SuspendedJoin, NoThread
<1>7. QED
  BY <1>1, <1>2, <1>3, <1>4, <1>5, <1>6 DEF Sound

-------------------------------------------------------------------------------
(* What a step changes. *)
Only(i) ==
  \A j \in Image \ {i} : /\ image'[j] = image[j] /\ permit'[j] = permit[j]
                         /\ group'[j] = group[j] /\ call'[j] = call[j] /\ thread'[j] = thread[j]

(* A step of image i that takes nothing from the budgets *)
Step(i) ==
  /\ Types' /\ Only(i) /\ ImageSound(i)' /\ terminated' = terminated
  /\ Load(group'[i], thread'[i]) <= Load(group[i], thread[i])
  /\ permit'[i] => permit[i]

(* The types of one image *)
LEMMA ImageTyped ==
  ASSUME Types, NEW i \in Image
  PROVE  /\ Typed(group[i], call[i], thread[i])
         /\ permit[i] \in BOOLEAN /\ image[i] \in ImageStates
BY DEF Types, Typed

(* A call of the image is replaced. *)
LEMMA CallSet ==
  ASSUME Types, NEW i \in Image, NEW k \in Stages, NEW c \in Calls(k),
         call' = [call EXCEPT ![i][k] = c]
  PROVE  /\ call' \in [Image -> [Stages -> CallStates]]
         /\ call'[i][k] = c
         /\ \A m \in Stages \ {k} : call'[i][m] = call[i][m]
         /\ \A j \in Image \ {i} : call'[j] = call[j]
<1>1. c \in CallStates
  BY Layout DEF CallStates
<1>2. QED
  BY <1>1 DEF Types

(* A thread of the image is replaced. *)
LEMMA ThreadSet ==
  ASSUME Types, NEW i \in Image, NEW w \in Threads, NEW s \in ThreadStates,
         thread' = [thread EXCEPT ![i][w] = s]
  PROVE  /\ thread' \in [Image -> [Threads -> ThreadStates]]
         /\ thread'[i][w] = s
         /\ \A t \in Threads \ {w} : thread'[i][t] = thread[i][t]
         /\ \A j \in Image \ {i} : thread'[j] = thread[j]
BY DEF Types

(* A call that runs is a full record. *)
LEMMA RunningCall ==
  ASSUME IInv, NEW i \in Image, NEW k \in Stages, call[i][k].at # "none"
  PROVE  call[i][k] \in Calls(k) /\ Accounted(k, call[i][k])
         /\ image[i] \in {"early", "stage"}
BY DEF IInv, ImageSound, Sound, Entered

(* The load of an image is a number. *)
LEMMA LoadType ==
  ASSUME NEW M, NEW P, NEW G, NEW C, NEW T, Typed(G, C, T), Sound(M, P, G, C, T)
  PROVE  /\ Load(G, T) \in Nat
         /\ \A k \in Stages : G[k].domain \in Nat /\ G[k].taken \in Nat
                              /\ G[k].taken <= G[k].domain /\ G[k].job = G[k].domain
<1>1. \A k \in Stages : G[k].domain \in Nat /\ G[k].taken \in Nat
                        /\ G[k].taken <= G[k].domain /\ G[k].job = G[k].domain
  BY DEF Typed, Groups, Sound, GroupsSuffice
<1>2. \A k \in Stages : G[k].domain - G[k].taken \in Nat
  BY <1>1
<1>3. Cardinality(SlottedOf(T)) \in Nat
  BY ThreadsFinite
<1>4. "branches" \in Stages /\ "dc" \in Stages
  BY Layout
<1> DEFINE a == G["branches"].domain - G["branches"].taken
           b == G["dc"].domain - G["dc"].taken
           d == Cardinality(SlottedOf(T))
<1>5. a \in Nat /\ b \in Nat /\ d \in Nat
  BY <1>2, <1>3, <1>4
<1>6. Load(G, T) = a + b + d
  BY DEF Load
<1> HIDE DEF a, b, d
<1>7. QED
  BY <1>1, <1>5, <1>6

(* The load when no slot is taken or given back. *)
LEMMA SameLoad ==
  ASSUME NEW G, NEW T, NEW U, \A t \in Threads : U[t].slot # "none" <=> T[t].slot # "none"
  PROVE  Load(G, U) = Load(G, T)
<1>1. SlottedOf(U) = SlottedOf(T)
  BY DEF SlottedOf
<1>2. QED
  BY <1>1 DEF Load

(* What the group of a running call grants *)
LEMMA GroupOf ==
  ASSUME IInv, NEW i \in Image, NEW k \in Stages
  PROVE  /\ group[i][k].domain \in Nat /\ group[i][k].taken \in Nat
         /\ group[i][k].domain <= Width(k) /\ group[i][k].job = group[i][k].domain
         /\ call[i][k].at # "none" =>
              /\ call[i][k].launched \in Nat /\ call[i][k].launched <= group[i][k].domain
              /\ Cardinality(StartingOf(thread[i], k)) \in Nat
              /\ group[i][k].taken + Cardinality(StartingOf(thread[i], k)) <= call[i][k].launched
<1>1. group[i][k] \in Groups
  BY DEF IInv, Types
<1>2. call[i][k].at # "none" => call[i][k].launched \in Nat
  BY RunningCall, CallFields
<1>3. GroupsSuffice(image[i], group[i], call[i], thread[i])
  BY DEF IInv, ImageSound, Sound
<1>4. QED
  BY <1>1, <1>2, <1>3, ThreadsFinite DEF GroupsSuffice, Groups

(* LaunchWorker: the call counts it, and a thread that did not exist starts. *)
LEMMA LaunchStep ==
  ASSUME IInv, NEW i \in Image, NEW k \in Stages, Launch(i, k)
  PROVE  Step(i)
<1> DEFINE old == call[i][k]
           c == [call[i][k] EXCEPT !.launched = call[i][k].launched + 1]
           w == Worker(k, call[i][k].launched + 1)
           s == [at |-> "starting", slot |-> "none"]
<1>1. /\ old.at = "launch" /\ old.launched < group[i][k].domain
      /\ call' = [call EXCEPT ![i][k] = c]
      /\ thread' = [thread EXCEPT ![i][w].at = "starting"]
      /\ UNCHANGED <<queue, image, permit, group, terminated>>
  BY DEF Launch, Spawned
<1>2. old \in Calls(k) /\ Accounted(k, old) /\ old.at # "none" /\ old.launched \in Nat
  BY <1>1, RunningCall, CallFields
<1>3. /\ c \in Calls(k) /\ c.at = old.at /\ c.by = old.by /\ c.launched = old.launched + 1
      /\ c.next = old.next /\ c.runner = old.runner /\ c.status = old.status
      /\ c.result = old.result
  BY <1>2 DEF Calls
<1>4. /\ Types /\ Sound(image[i], permit[i], group[i], call[i], thread[i])
      /\ Typed(group[i], call[i], thread[i])
  BY ImageTyped DEF IInv, ImageSound
<1>5. w \in Workers(k) /\ thread[i][w] = NoThread
  <2>1. w \in Workers(k) /\ \A m \in 1 .. old.launched : w # Worker(k, m)
    BY <1>1, <1>2, GroupOf, Layout DEF Worker, Width
  <2>2. w \notin AliveOf(thread[i], k)
    BY <1>4, <2>1 DEF Sound, AliveAreLaunched
  <2>3. thread[i][w].at = "none" /\ w \in Threads
    BY <2>1, <2>2, Layout DEF AliveOf
  <2>4. QED
    BY <1>4, <2>1, <2>3, ThreadFields DEF Typed
<1>6. s \in ThreadStates /\ w \in Threads
  BY <1>5, Layout DEF ThreadStates
<1> HIDE DEF c, w, s
<1>7. thread' = [thread EXCEPT ![i][w] = s]
  <2>1. [thread[i][w] EXCEPT !.at = "starting"] = s
    BY <1>5 DEF NoThread, s
  <2>2. thread' = [thread EXCEPT ![i][w] = [thread[i][w] EXCEPT !.at = "starting"]]
    BY <1>1
  <2>3. QED
    BY <2>1, <2>2
<1>8. /\ call' \in [Image -> [Stages -> CallStates]]
      /\ call'[i][k] = c
      /\ \A m \in Stages \ {k} : call'[i][m] = call[i][m]
      /\ \A j \in Image \ {i} : call'[j] = call[j]
  BY <1>1, <1>3, <1>4, CallSet
<1>9. /\ thread' \in [Image -> [Threads -> ThreadStates]]
      /\ thread'[i][w] = s
      /\ \A t \in Threads \ {w} : thread'[i][t] = thread[i][t]
      /\ \A j \in Image \ {i} : thread'[j] = thread[j]
  BY <1>4, <1>6, <1>7, ThreadSet
<1>10. Types' /\ Only(i)
  BY <1>1, <1>4, <1>8, <1>9 DEF Types, Only
<1>11. Sound(image[i], permit[i], group[i], call'[i], thread[i])
  <2>1. \A n \in Tasks(k) : c.runner[n] # Nobody => RunsIn(k, c, thread[i], c.runner[n])
    BY <1>2, <1>3, <1>4 DEF Sound, RunnersInLoop, RunsIn
  <2>2. Accounted(k, c)
    BY <1>2, <1>3 DEF Accounted
  <2>3. old.launched <= c.launched /\ c.launched <= group[i][k].domain
    BY <1>1, <1>2, <1>3, GroupOf
  <2>4. c.at \in Unjoined /\ c.at \notin Joins /\ old.at \notin Joins
    BY <1>1, <1>3 DEF Unjoined, Joins
  <2>5. QED
    BY <1>2, <1>3, <1>4, <1>8, <2>1, <2>2, <2>3, <2>4, CallChanges
<1>12. Sound(image[i], permit[i], group[i], call'[i], thread'[i])
  <2>1. Typed(group[i], call'[i], thread[i])
    BY <1>4, <1>8 DEF Typed
  <2>2. group[i][k].taken + Cardinality(StartingOf(thread[i], k)) < call'[i][k].launched
    <3>1. call[i][k].at # "none"
      BY <1>2
    <3>2. QED
      BY <1>2, <1>3, <1>8, <3>1, GroupOf
  <2>3. \E m \in 1 .. call'[i][k].launched : w = Worker(k, m)
    BY <1>2, <1>3, <1>8 DEF w
  <2>4. call'[i][k].at = "launch" /\ thread'[i][w] = [at |-> "starting", slot |-> "none"]
    BY <1>1, <1>3, <1>8, <1>9 DEF s
  <2>5. QED
    BY <1>5, <1>9, <1>11, <2>1, <2>2, <2>3, <2>4, ThreadStarts
<1>13. Load(group[i], thread'[i]) = Load(group[i], thread[i])
  <2>1. \A t \in Threads : thread'[i][t].slot # "none" <=> thread[i][t].slot # "none"
    BY <1>5, <1>9 DEF s, NoThread
  <2>2. QED
    BY <2>1, SameLoad
<1>14. Load(group[i], thread[i]) \in Nat
  BY <1>4, LoadType
<1>15. ImageSound(i)' /\ terminated' = terminated /\ group' = group /\ permit' = permit
  BY <1>1, <1>12 DEF ImageSound
<1>16. QED
  BY <1>10, <1>13, <1>14, <1>15 DEF Step

(* A call of image i moves on to c, its caller and the workers launched as    *)
(* before: what is to be shown of c.                                        *)
Moves(i, k, c) ==
  /\ call[i][k].at # "none" /\ c \in Calls(k)
  /\ c.by = call[i][k].by /\ c.launched = call[i][k].launched
  /\ AliveOf(thread[i], k) # {} => c.at \in Unjoined
  /\ k = "branches" => c.runner[1] = call[i][k].runner[1]
  /\ (k = "branches" /\ c.at \in {"launch", "loop"} /\ c.next = 1) =>
       call[i][k].at \in {"launch", "loop"} /\ call[i][k].next = 1
  /\ \A n \in Tasks(k) : c.runner[n] # Nobody => RunsIn(k, c, thread[i], c.runner[n])
  /\ Accounted(k, c)
  /\ (call[i][k].at \in Joins /\ c.at \notin Joins) => Participates(i, c.by)

(* Then the image is as sound as before. *)
LEMMA CallMoves ==
  ASSUME IInv, NEW i \in Image, NEW k \in Stages, NEW c, Moves(i, k, c),
         call' = [call EXCEPT ![i][k] = c]
  PROVE  /\ call' \in [Image -> [Stages -> CallStates]] /\ call'[i][k] = c
         /\ \A j \in Image \ {i} : call'[j] = call[j]
         /\ Typed(group[i], call'[i], thread[i])
         /\ Sound(image[i], permit[i], group[i], call'[i], thread[i])
<1>1. /\ Types /\ Sound(image[i], permit[i], group[i], call[i], thread[i])
      /\ Typed(group[i], call[i], thread[i])
  BY ImageTyped DEF IInv, ImageSound
<1>2. c \in Calls(k) /\ call[i][k].at # "none" /\ call[i][k] \in Calls(k)
  BY RunningCall DEF Moves
<1>3. /\ call' \in [Image -> [Stages -> CallStates]] /\ call'[i][k] = c
      /\ \A m \in Stages \ {k} : call'[i][m] = call[i][m]
      /\ \A j \in Image \ {i} : call'[j] = call[j]
  BY <1>1, <1>2, CallSet
<1>4. call[i][k].launched <= c.launched /\ c.launched <= group[i][k].domain
  BY <1>2, GroupOf DEF Moves
<1>5. (call[i][k].at \in Joins /\ c.at \notin Joins) =>
        IF c.by = Caller THEN permit[i] ELSE thread[i][c.by].slot = "active"
  BY DEF Moves, Participates
<1>6. Sound(image[i], permit[i], group[i], call'[i], thread[i])
  <2>1. /\ c.by = call[i][k].by
        /\ AliveOf(thread[i], k) # {} => c.at \in Unjoined
        /\ k = "branches" => c.runner[1] = call[i][k].runner[1]
        /\ (k = "branches" /\ c.at \in {"launch", "loop"} /\ c.next = 1) =>
             call[i][k].at \in {"launch", "loop"} /\ call[i][k].next = 1
        /\ \A n \in Tasks(k) : c.runner[n] # Nobody => RunsIn(k, c, thread[i], c.runner[n])
        /\ Accounted(k, c)
    BY DEF Moves
  <2>2. \A n \in Tasks(k) : call'[i][k].runner[n] # Nobody =>
          RunsIn(k, call'[i][k], thread[i], call'[i][k].runner[n])
    BY <1>3, <2>1
  <2>3. Accounted(k, call'[i][k]) /\ call'[i][k] \in Calls(k) /\ call'[i][k].by = call[i][k].by
    BY <1>2, <1>3, <2>1
  <2>4. /\ AliveOf(thread[i], k) # {} => call'[i][k].at \in Unjoined
        /\ k = "branches" => call'[i][k].runner[1] = call[i][k].runner[1]
        /\ k = "branches" /\ call'[i][k].at \in {"launch", "loop"} /\ call'[i][k].next = 1 =>
             call[i][k].at \in {"launch", "loop"} /\ call[i][k].next = 1
        /\ call[i][k].at \in Joins /\ call'[i][k].at \notin Joins =>
             IF call'[i][k].by = Caller THEN permit[i]
             ELSE thread[i][call'[i][k].by].slot = "active"
        /\ call[i][k].launched <= call'[i][k].launched
        /\ call'[i][k].launched <= group[i][k].domain
    BY <1>3, <1>4, <1>5, <2>1
  <2>5. QED
    BY <1>1, <1>2, <1>3, <2>2, <2>3, <2>4, CallChanges
<1>7. Typed(group[i], call'[i], thread[i])
  BY <1>1, <1>3 DEF Typed
<1>8. QED
  BY <1>3, <1>6, <1>7

(* When nothing else changes, that is a step. *)
LEMMA CallStep ==
  ASSUME IInv, NEW i \in Image, NEW k \in Stages, NEW c, Moves(i, k, c),
         call' = [call EXCEPT ![i][k] = c],
         UNCHANGED <<queue, image, permit, group, thread, terminated>>
  PROVE  Step(i)
<1>1. /\ call' \in [Image -> [Stages -> CallStates]]
      /\ \A j \in Image \ {i} : call'[j] = call[j]
      /\ Sound(image[i], permit[i], group[i], call'[i], thread[i])
  BY CallMoves
<1>2. Types' /\ Only(i) /\ ImageSound(i)'
  BY <1>1 DEF IInv, Types, Only, ImageSound
<1>3. Load(group[i], thread[i]) \in Nat
  BY ImageTyped, LoadType DEF IInv, ImageSound
<1>4. QED
  BY <1>2, <1>3 DEF Step

(* The caller takes part. *)
LEMMA ParticipateStep ==
  ASSUME IInv, NEW i \in Image, NEW k \in Stages, Participate(i, k)
  PROVE  Step(i)
<1> DEFINE c == [call[i][k] EXCEPT !.at = "loop"]
<1>1. /\ call[i][k].at = "launch" /\ call' = [call EXCEPT ![i][k] = c]
      /\ UNCHANGED <<queue, image, permit, group, thread, terminated>>
  BY DEF Participate
<1>2. call[i][k] \in Calls(k) /\ Accounted(k, call[i][k]) /\ call[i][k].at # "none"
  BY <1>1, RunningCall
<1>3. /\ c \in Calls(k) /\ c.at = "loop" /\ c.by = call[i][k].by
      /\ c.launched = call[i][k].launched /\ c.next = call[i][k].next
      /\ c.runner = call[i][k].runner /\ c.status = call[i][k].status
  BY <1>2 DEF Calls, Unjoined
<1> HIDE DEF c
<1>4. \A n \in Tasks(k) : c.runner[n] # Nobody => RunsIn(k, c, thread[i], c.runner[n])
  BY <1>1, <1>2, <1>3 DEF IInv, ImageSound, Sound, RunnersInLoop, RunsIn
<1>5. Accounted(k, c)
  BY <1>1, <1>2, <1>3 DEF Accounted, Joins
<1>6. Moves(i, k, c)
  BY <1>1, <1>2, <1>3, <1>4, <1>5 DEF Moves, Unjoined, Joins
<1>7. QED
  BY <1>1, <1>6, CallStep

(* A call that a worker makes is the nested one, of the branches' worker. *)
LEMMA NestedCaller ==
  ASSUME IInv, NEW i \in Image, NEW k \in Stages, call[i][k].at # "none", call[i][k].by # Caller
  PROVE  /\ k = "dc" /\ call[i][k].by = Branch /\ thread[i][Branch].at = "loop"
         /\ thread[i][Branch].slot \in {"active", "suspended"}
<1>1. /\ Sound(image[i], permit[i], group[i], call[i], thread[i])
      /\ Typed(group[i], call[i], thread[i])
  BY ImageTyped DEF IInv, ImageSound
<1>2. call[i][k] \in Calls(k) /\ image[i] \in {"early", "stage"}
  BY RunningCall
<1>3. call[i][k].by = Branch
  BY <1>2, CallFields
<1>4. k = "dc" /\ image[i] = "early"
  BY <1>1, <1>2, Layout DEF Sound, Entered
<1>5. /\ call[i]["branches"].at # "none" /\ call[i]["branches"].by = Caller
      /\ call[i]["branches"].runner[1] = Branch
  BY <1>1, <1>3, <1>4, Layout DEF Sound, Entered
<1>6. "branches" \in Stages /\ 1 \in Tasks("branches") /\ Branch # Nobody /\ Branch # Caller
      /\ Branch \in Threads
  BY Layout
<1>7. RunsIn("branches", call[i]["branches"], thread[i], Branch)
  BY <1>1, <1>5, <1>6 DEF Sound, RunnersInLoop
<1>8. thread[i][Branch].at = "loop"
  BY <1>5, <1>6, <1>7 DEF RunsIn
<1>9. thread[i][Branch].slot \in {"active", "suspended"}
  <2>1. thread[i][Branch] \in ThreadStates
    BY <1>1, <1>6 DEF Typed
  <2>2. QED
    BY <1>8, <2>1, ThreadFields
<1>10. QED
  BY <1>3, <1>4, <1>8, <1>9

(* The slot of the branches' worker is given up for the nested join, or used again. *)
LEMMA SlotSet ==
  ASSUME Types, NEW i \in Image, NEW s \in {"active", "suspended"}, thread[i][Branch].at = "loop",
         thread[i][Branch].slot # "none",
         NEW u, u = [thread[i][Branch] EXCEPT !.slot = s],
         thread' = [thread EXCEPT ![i][Branch] = u]
  PROVE  /\ thread' \in [Image -> [Threads -> ThreadStates]]
         /\ thread'[i][Branch] = [at |-> "loop", slot |-> s]
         /\ \A t \in Threads \ {Branch} : thread'[i][t] = thread[i][t]
         /\ \A j \in Image \ {i} : thread'[j] = thread[j]
         /\ Load(group[i], thread'[i]) = Load(group[i], thread[i])
<1>1. thread[i][Branch] \in [at : {"loop"}, slot : {"active", "suspended"}] /\ Branch \in Threads
  BY Layout DEF Types, ThreadStates, NoThread
<1>2. u = [at |-> "loop", slot |-> s]
  BY <1>1
<1>3. u \in ThreadStates /\ u.slot # "none"
  BY <1>2 DEF ThreadStates
<1>4. /\ thread' \in [Image -> [Threads -> ThreadStates]]
      /\ thread'[i][Branch] = u
      /\ \A t \in Threads \ {Branch} : thread'[i][t] = thread[i][t]
      /\ \A j \in Image \ {i} : thread'[j] = thread[j]
  BY <1>1, <1>3, ThreadSet
<1>5. \A t \in Threads : thread'[i][t].slot # "none" <=> thread[i][t].slot # "none"
  BY <1>3, <1>4
<1>6. Load(group[i], thread'[i]) = Load(group[i], thread[i])
  BY <1>5, SameLoad
<1>7. QED
  BY <1>2, <1>4, <1>6

(* JoinCpuWorkers: no task is left, and whoever joins gives its slot or its turn up. *)
LEMMA JoinStep ==
  ASSUME IInv, NEW i \in Image, NEW k \in Stages, NEW after \in Joins,
         JoinCpuWorkers(i, k, after), UNCHANGED <<queue, image, group, terminated>>,
         \/ call[i][k].at = "launch" /\ after # "join"
         \/ call[i][k].at = "loop" /\ Drained(i, k, call[i][k].by)
  PROVE  Step(i)
<1> DEFINE old == call[i][k]
           c == [call[i][k] EXCEPT !.at = after, !.next = Cardinality(Tasks(k)) + 1]
<1>0. old \in Calls(k) /\ Accounted(k, old) /\ old.at # "none" /\ old.at \in {"launch", "loop"}
  BY RunningCall
<1>1. PICK N \in Nat : Tasks(k) = 1 .. N /\ Cardinality(Tasks(k)) = N /\ N >= 1
  BY TasksCounted
<1>2. /\ c \in Calls(k) /\ c.at = after /\ c.by = old.by /\ c.launched = old.launched
      /\ c.next = N + 1 /\ c.runner = old.runner /\ c.status = old.status
  <2>1. Cardinality(Tasks(k)) + 1 = N + 1 /\ N + 1 \in Nat \ {0}
    BY <1>1
  <2>2. c = [old EXCEPT !.at = after, !.next = N + 1]
    BY <2>1
  <2> HIDE DEF c
  <2>3. QED
    BY <1>0, <2>1, <2>2 DEF Calls, Unjoined
<1>3. /\ call' = [call EXCEPT ![i][k] = c]
      /\ IF old.launched = 0 THEN UNCHANGED <<permit, thread>>
         ELSE IF old.by = Caller
           THEN permit' = [permit EXCEPT ![i] = FALSE] /\ UNCHANGED thread
           ELSE thread' = [thread EXCEPT ![i][old.by].slot = "suspended"] /\ UNCHANGED permit
  <2>1. call' = [call EXCEPT ![i][k] = c]
    BY DEF JoinCpuWorkers
  <2> HIDE DEF c
  <2>2. QED
    BY <2>1 DEF JoinCpuWorkers
<1>4. /\ Sound(image[i], permit[i], group[i], call[i], thread[i])
      /\ Typed(group[i], call[i], thread[i]) /\ Types
  BY ImageTyped DEF IInv, ImageSound
<1> HIDE DEF c
<1>5. \A n \in Tasks(k) : c.runner[n] # Nobody => RunsIn(k, c, thread[i], c.runner[n])
  <2> SUFFICES ASSUME NEW n \in Tasks(k), old.runner[n] # Nobody
               PROVE  RunsIn(k, c, thread[i], old.runner[n])
    BY <1>2
  <2>1. RunsIn(k, old, thread[i], old.runner[n])
    BY <1>0, <1>4 DEF Sound, RunnersInLoop
  <2>2. old.at = "loop" => old.runner[n] # old.by
    BY DEF Drained, Running
  <2>3. QED
    BY <2>1, <2>2 DEF RunsIn
<1>6. Accounted(k, c)
  <2>1. c.next \notin Tasks(k)
    BY <1>1, <1>2
  <2>2. ASSUME after = "join", NEW n \in Tasks(k)
        PROVE  c.runner[n] # Nobody \/ c.status[n] \in Statuses
    <3>1. old.next \notin Tasks(k) /\ old.next \in Nat /\ old.next >= 1
      BY <1>0, <2>2, CallFields DEF Drained
    <3>2. n < old.next
      BY <1>1, <3>1
    <3>3. QED
      BY <1>0, <1>2, <3>2 DEF Accounted
  <2>3. QED
    BY <1>2, <2>1, <2>2 DEF Accounted, Joins
<1>7. Moves(i, k, c)
  BY <1>0, <1>1, <1>2, <1>5, <1>6 DEF Moves, Unjoined, Joins
<1>8. /\ call' \in [Image -> [Stages -> CallStates]] /\ call'[i][k] = c
      /\ \A j \in Image \ {i} : call'[j] = call[j]
      /\ Typed(group[i], call'[i], thread[i])
      /\ Sound(image[i], permit[i], group[i], call'[i], thread[i])
  BY <1>3, <1>7, CallMoves
<1>9. Load(group[i], thread[i]) \in Nat
  BY <1>4, LoadType
<1>10. CASE old.launched = 0
  BY <1>3, <1>7, <1>10, CallStep
<1>11. CASE old.launched # 0 /\ old.by = Caller
  <2>1. permit' = [permit EXCEPT ![i] = FALSE] /\ UNCHANGED thread
    BY <1>3, <1>11
  <2>2. permit' \in [Image -> BOOLEAN] /\ (\A j \in Image \ {i} : permit'[j] = permit[j])
        /\ ~permit'[i]
    BY <1>4, <2>1 DEF Types
  <2>3. Sound(image[i], permit'[i], group[i], call'[i], thread[i])
    BY <1>2, <1>8, <1>11, PermitChanges
  <2>4. Types' /\ Only(i) /\ ImageSound(i)'
    BY <1>4, <1>8, <2>1, <2>2, <2>3 DEF Types, Only, ImageSound
  <2>5. QED
    BY <1>9, <2>1, <2>2, <2>4 DEF Step
<1>12. CASE old.launched # 0 /\ old.by # Caller
  <2>1. /\ k = "dc" /\ old.by = Branch /\ thread[i][Branch].at = "loop"
        /\ thread[i][Branch].slot \in {"active", "suspended"}
    BY <1>0, <1>12, NestedCaller
  <2>2. thread' = [thread EXCEPT ![i][Branch].slot = "suspended"] /\ UNCHANGED permit
    BY <1>3, <1>12, <2>1
  <2>3. /\ thread' \in [Image -> [Threads -> ThreadStates]]
        /\ thread'[i][Branch] = [at |-> "loop", slot |-> "suspended"]
        /\ \A t \in Threads \ {Branch} : thread'[i][t] = thread[i][t]
        /\ \A j \in Image \ {i} : thread'[j] = thread[j]
        /\ Load(group[i], thread'[i]) = Load(group[i], thread[i])
    <3> DEFINE u == [thread[i][Branch] EXCEPT !.slot = "suspended"]
    <3>1. thread' = [thread EXCEPT ![i][Branch] = u]
      BY <2>2
    <3> HIDE DEF u
    <3>2. u = [thread[i][Branch] EXCEPT !.slot = "suspended"] /\ thread[i][Branch].slot # "none"
      BY <2>1 DEF u
    <3>3. QED
      BY <1>4, <2>1, <3>1, <3>2, SlotSet
  <2>4. call'[i]["dc"].at \in Joins /\ call'[i]["dc"].by = Branch
    BY <1>2, <1>8, <2>1
  <2>5. Sound(image[i], permit[i], group[i], call'[i], thread'[i])
    BY <1>8, <2>1, <2>3, <2>4, SlotChanges
  <2>6. Types' /\ Only(i) /\ ImageSound(i)'
    BY <1>4, <1>8, <2>2, <2>3, <2>5 DEF Types, Only, ImageSound
  <2>7. QED
    BY <1>9, <2>2, <2>3, <2>6 DEF Step
<1>13. QED
  BY <1>10, <1>11, <1>12

(* A launch that fails, and the end of the caller's loop *)
LEMMA LaunchFailsStep ==
  ASSUME IInv, NEW i \in Image, NEW k \in Stages, LaunchFails(i, k)
  PROVE  Step(i)
<1>1. PICK after \in {"stop", "stop_retry"} : JoinCpuWorkers(i, k, after)
  BY DEF LaunchFails
<1>2. after \in Joins /\ after # "join" /\ call[i][k].at = "launch"
      /\ UNCHANGED <<queue, image, group, terminated>>
  BY DEF LaunchFails, Joins
<1>3. QED
  BY <1>1, <1>2, JoinStep

(* JoinCpuWorkers at the end of the loop *)
LEMMA JoinAfterLoopStep ==
  ASSUME IInv, NEW i \in Image, NEW k \in Stages, JoinAfterLoop(i, k)
  PROVE  Step(i)
<1>1. "join" \in Joins
  BY DEF Joins
<1>2. QED
  BY <1>1, JoinStep DEF JoinAfterLoop

(* Who is in the loop of a call runs in a call that is not over. *)
LEMMA LoopOf ==
  ASSUME IInv, NEW i \in Image, NEW k \in Stages, NEW t \in Threads, InLoop(i, k, t)
  PROVE  /\ call[i][k].at \in Unjoined /\ call[i][k].at # "none"
         /\ call[i][k] \in Calls(k) /\ Accounted(k, call[i][k])
         /\ RunsIn(k, call[i][k], thread[i], t)
         /\ t \notin Workers(k) => call[i][k].by = t
<1>1. Sound(image[i], permit[i], group[i], call[i], thread[i])
  BY DEF IInv, ImageSound
<1>2. RunsIn(k, call[i][k], thread[i], t) /\ (t \notin Workers(k) => call[i][k].by = t)
  BY DEF InLoop, RunsIn
<1>3. call[i][k].at \in Unjoined
  <2>1. CASE t \in Workers(k)
    <3>1. t \in AliveOf(thread[i], k)
      BY <2>1 DEF InLoop, AliveOf
    <3>2. QED
      BY <1>1, <3>1 DEF Sound, AliveAreLaunched
  <2>2. CASE t \notin Workers(k)
    BY <2>2 DEF InLoop, Unjoined
  <2>3. QED
    BY <2>1, <2>2
<1>4. call[i][k].at # "none"
  BY <1>3 DEF Unjoined, Joins
<1>5. QED
  BY <1>2, <1>3, <1>4, RunningCall

(* A call none of whose workers is alive, and whose caller is not in its loop, *)
(* runs no task.                                                           *)
LEMMA NoRunner ==
  ASSUME IInv, NEW i \in Image, NEW k \in Stages, call[i][k].at # "none", call[i][k].at # "loop",
         AliveOf(thread[i], k) = {}
  PROVE  \A n \in Tasks(k) : call[i][k].runner[n] = Nobody
<1>1. RunnersInLoop(call[i], thread[i])
  BY DEF IInv, ImageSound, Sound
<1>2. QED
  BY <1>1 DEF RunnersInLoop, RunsIn, AliveOf

(* Every worker was joined: the call is over, or its tasks are retried. *)
LEMMA ConcludeStep ==
  ASSUME IInv, NEW i \in Image, NEW k \in Stages, Conclude(i, k)
  PROVE  Step(i)
<1> DEFINE old == call[i][k]
<1>1. /\ old.at \in Joins /\ Participates(i, old.by) /\ AliveOf(thread[i], k) = {}
      /\ UNCHANGED <<queue, image, permit, group, thread, terminated>>
  BY DEF Conclude, Joins, Alive, AliveOf
<1>2. old \in Calls(k) /\ Accounted(k, old) /\ old.at # "none" /\ old.at # "loop"
  BY <1>1, RunningCall DEF Joins
<1>3. \A n \in Tasks(k) : old.runner[n] = Nobody
  BY <1>1, <1>2, NoRunner
<1>4. PICK N \in Nat : Tasks(k) = 1 .. N /\ N >= 1
  BY TasksCounted
<1>5. ASSUME NEW c \in Calls(k), c.by = old.by, c.launched = old.launched, c.runner = old.runner,
             c.at \in {"serial", "done"}, Accounted(k, c)
      PROVE  Moves(i, k, c)
  BY <1>1, <1>2, <1>3, <1>5 DEF Moves
<1>6. CASE old.at = "join"
  <2> DEFINE r == IF \E n \in Tasks(k) : old.status[n] = "error" THEN "error" ELSE "ok"
             c == [call[i][k] EXCEPT !.at = "done", !.result = r]
  <2>1. call' = [call EXCEPT ![i][k] = c]
    BY <1>6 DEF Conclude
  <2>2. /\ c \in Calls(k) /\ c.at = "done" /\ c.by = old.by /\ c.launched = old.launched
        /\ c.runner = old.runner /\ c.status = old.status /\ c.result = r
    BY <1>2 DEF Calls, Unjoined, Statuses
  <2> HIDE DEF c
  <2>3. \A n \in Tasks(k) : old.status[n] \in Statuses
    <3>1. old.next \in Nat /\ old.next >= 1 /\ old.next \notin Tasks(k)
      BY <1>1, <1>2, CallFields DEF Accounted
    <3>2. \A n \in Tasks(k) : n < old.next
      BY <1>4, <3>1
    <3>3. QED
      BY <1>2, <1>3, <1>6, <3>2 DEF Accounted
  <2>4. Accounted(k, c)
    BY <2>2, <2>3 DEF Accounted, Joins, Statuses
  <2>5. Moves(i, k, c)
    BY <1>5, <2>2, <2>4
  <2>6. QED
    BY <1>1, <2>1, <2>5, CallStep
<1>7. CASE old.at = "stop"
  <2> DEFINE c == [call[i][k] EXCEPT !.at = "done", !.result = "launch_failed"]
  <2>1. call' = [call EXCEPT ![i][k] = c]
    BY <1>7 DEF Conclude
  <2>2. /\ c \in Calls(k) /\ c.at = "done" /\ c.by = old.by /\ c.launched = old.launched
        /\ c.runner = old.runner /\ c.result = "launch_failed"
    BY <1>2 DEF Calls, Unjoined, Statuses
  <2> HIDE DEF c
  <2>3. Accounted(k, c)
    BY <2>2 DEF Accounted, Joins
  <2>4. Moves(i, k, c)
    BY <1>5, <2>2, <2>3
  <2>5. QED
    BY <1>1, <2>1, <2>4, CallStep
<1>8. CASE old.at = "stop_retry"
  <2> DEFINE c == [call[i][k] EXCEPT !.at = "serial", !.next = 1,
                                     !.status = [n \in Tasks(k) |-> "none"]]
  <2>1. call' = [call EXCEPT ![i][k] = c]
    BY <1>8 DEF Conclude
  <2>2. /\ c \in Calls(k) /\ c.at = "serial" /\ c.by = old.by /\ c.launched = old.launched
        /\ c.runner = old.runner /\ c.next = 1
    <3> DEFINE st == [n \in Tasks(k) |-> "none"]
    <3>1. st \in [Tasks(k) -> {"none"} \cup Statuses]
      OBVIOUS
    <3>2. c = [old EXCEPT !.at = "serial", !.next = 1, !.status = st]
      OBVIOUS
    <3> HIDE DEF c, st
    <3>3. 1 \in Nat \ {0}
      OBVIOUS
    <3>4. QED
      BY <1>2, <3>1, <3>2, <3>3 DEF Calls
  <2> HIDE DEF c
  <2>3. Accounted(k, c)
    <3>1. \A n \in Tasks(k) : ~(n < c.next)
      BY <1>4, <2>2
    <3>2. QED
      BY <2>2, <3>1 DEF Accounted, Joins
  <2>4. Moves(i, k, c)
    BY <1>5, <2>2, <2>3
  <2>5. QED
    BY <1>1, <2>1, <2>4, CallStep
<1>9. QED
  BY <1>1, <1>6, <1>7, <1>8 DEF Joins

(* The serial loop runs the next task, and is over after the last one or an error. *)
LEMMA RunSeriallyStep ==
  ASSUME IInv, NEW i \in Image, RunSerially(i)
  PROVE  Step(i)
<1> DEFINE old == call[i]["dc"]
<1>0. "dc" \in Stages /\ Tasks("dc") = 1 .. Count /\ Count \in Nat
  BY Layout
<1>1. /\ old.at = "serial" /\ Participates(i, old.by)
      /\ UNCHANGED <<queue, image, permit, group, thread, terminated>>
  BY DEF RunSerially
<1>2. old \in Calls("dc") /\ Accounted("dc", old) /\ old.at # "none" /\ old.next \in Nat
      /\ old.next >= 1
  BY <1>0, <1>1, RunningCall, CallFields
<1>3. AliveOf(thread[i], "dc") = {}
  BY <1>0, <1>1 DEF IInv, ImageSound, Sound, AliveAreLaunched, Unjoined, Joins
<1>4. \A n \in Tasks("dc") : old.runner[n] = Nobody
  BY <1>0, <1>1, <1>2, <1>3, NoRunner
<1>5. \A n \in Tasks("dc") : n < old.next => old.status[n] = "ok"
  BY <1>1, <1>2 DEF Accounted
<1>6. ASSUME NEW c \in Calls("dc"), c.by = old.by, c.launched = old.launched,
             c.runner = old.runner, c.at \in {"serial", "done"}, Accounted("dc", c)
      PROVE  Moves(i, "dc", c)
  BY <1>1, <1>2, <1>3, <1>4, <1>6 DEF Moves
<1>7. CASE old.next \notin Tasks("dc")
  <2> DEFINE c == [call[i]["dc"] EXCEPT !.at = "done", !.result = "ok"]
  <2>1. call' = [call EXCEPT ![i]["dc"] = c]
    BY <1>7 DEF RunSerially
  <2>2. /\ c \in Calls("dc") /\ c.at = "done" /\ c.by = old.by /\ c.launched = old.launched
        /\ c.runner = old.runner /\ c.status = old.status /\ c.result = "ok"
    BY <1>2 DEF Calls, Unjoined, Statuses
  <2> HIDE DEF c
  <2>3. \A n \in Tasks("dc") : old.status[n] = "ok"
    BY <1>0, <1>2, <1>5, <1>7
  <2>4. Accounted("dc", c)
    BY <2>2, <2>3 DEF Accounted, Joins
  <2>5. QED
    BY <1>0, <1>1, <1>6, <2>1, <2>2, <2>4, CallStep
<1>8. CASE old.next \in Tasks("dc")
  <2> DEFINE st(status) == [old.status EXCEPT ![old.next] = status]
             c(status) == IF status = "ok" THEN [old EXCEPT !.next = old.next + 1, !.status = st(status)]
                          ELSE [old EXCEPT !.at = "done", !.result = status, !.status = st(status)]
  <2>1. PICK status \in Statuses : call' = [call EXCEPT ![i]["dc"] = c(status)]
    <3>1. PICK status \in Statuses :
            call' = [call EXCEPT ![i]["dc"] =
              IF status = "ok" THEN [@ EXCEPT !.next = old.next + 1, !.status[old.next] = status]
              ELSE [@ EXCEPT !.at = "done", !.result = status, !.status[old.next] = status]]
      BY <1>8 DEF RunSerially
    <3>2. CASE status = "ok"
      <4>1. call' = [call EXCEPT ![i]["dc"] =
                       [old EXCEPT !.next = old.next + 1, !.status[old.next] = status]]
        BY <3>1, <3>2
      <4>2. c(status) = [old EXCEPT !.next = old.next + 1, !.status[old.next] = status]
        BY <3>2
      <4> HIDE DEF c
      <4>3. QED
        BY <4>1, <4>2
    <3>3. CASE status # "ok"
      <4>1. call' = [call EXCEPT ![i]["dc"] =
                       [old EXCEPT !.at = "done", !.result = status, !.status[old.next] = status]]
        BY <3>1, <3>3
      <4>2. c(status) = [old EXCEPT !.at = "done", !.result = status, !.status[old.next] = status]
        BY <3>3
      <4> HIDE DEF c
      <4>3. QED
        BY <4>1, <4>2
    <3> HIDE DEF c
    <3>4. QED
      BY <3>2, <3>3
  <2>2. /\ st(status) \in [Tasks("dc") -> {"none"} \cup Statuses]
        /\ st(status)[old.next] = status
        /\ \A n \in Tasks("dc") \ {old.next} : st(status)[n] = old.status[n]
    BY <1>2, <1>8 DEF Calls
  <2> HIDE DEF st
  <2>3. /\ c(status) \in Calls("dc") /\ c(status).by = old.by
        /\ c(status).launched = old.launched /\ c(status).runner = old.runner
        /\ c(status).status = st(status)
        /\ IF status = "ok" THEN c(status).at = "serial" /\ c(status).next = old.next + 1
           ELSE c(status).at = "done" /\ c(status).result = status
    <3>1. CASE status = "ok"
      <4>1. c(status) = [old EXCEPT !.next = old.next + 1, !.status = st(status)]
        BY <3>1
      <4> HIDE DEF c
      <4>2. old.next + 1 \in Nat \ {0}
        BY <1>2
      <4>3. QED
        BY <1>1, <1>2, <2>2, <3>1, <4>1, <4>2 DEF Calls
    <3>2. CASE status # "ok"
      <4>1. c(status) = [old EXCEPT !.at = "done", !.result = status, !.status = st(status)]
        BY <3>2
      <4> HIDE DEF c
      <4>2. QED
        BY <1>1, <1>2, <2>2, <3>2, <4>1 DEF Calls
    <3>3. QED
      BY <3>1, <3>2
  <2> HIDE DEF c
  <2>4. Accounted("dc", c(status))
    <3>1. CASE status = "ok"
      <4>1. \A n \in Tasks("dc") : n < c(status).next => n < old.next \/ n = old.next
        BY <1>0, <1>2, <2>3, <3>1
      <4>2. \A n \in Tasks("dc") : n < c(status).next => c(status).status[n] = "ok"
        BY <1>5, <2>2, <2>3, <3>1, <4>1
      <4>3. QED
        BY <2>3, <3>1, <4>2 DEF Accounted, Joins
    <3>2. CASE status # "ok"
      BY <1>8, <2>2, <2>3, <3>2 DEF Accounted, Joins, Statuses
    <3>3. QED
      BY <3>1, <3>2
  <2>5. QED
    BY <1>0, <1>1, <1>6, <2>1, <2>3, <2>4, CallStep
<1>9. QED
  BY <1>7, <1>8

(* The join is over: the caller queues for a slot, the worker uses its own again. *)
LEMMA ResumeStep ==
  ASSUME IInv, NEW i \in Image, NEW k \in Stages, Resume(i, k)
  PROVE  Step(i)
<1>1. /\ call[i][k].at \in Joins /\ ~Participates(i, call[i][k].by)
      /\ UNCHANGED <<image, permit, group, call, terminated>>
      /\ IF call[i][k].by = Caller
           THEN Queue(i) /\ UNCHANGED thread
           ELSE thread' = [thread EXCEPT ![i][call[i][k].by].slot = "active"] /\ UNCHANGED queue
  BY DEF Resume, Joins
<1>2. /\ Sound(image[i], permit[i], group[i], call[i], thread[i])
      /\ Typed(group[i], call[i], thread[i]) /\ Types
  BY ImageTyped DEF IInv, ImageSound
<1>3. Load(group[i], thread[i]) \in Nat
  BY <1>2, LoadType
<1>4. CASE call[i][k].by = Caller
  <2>1. queue' = Append(queue, i) /\ queue \in Seq(Image) /\ UNCHANGED thread
    BY <1>1, <1>2, <1>4 DEF Queue, Types
  <2>2. queue' \in Seq(Image)
    BY <2>1
  <2>3. Types' /\ Only(i) /\ ImageSound(i)'
    BY <1>1, <1>2, <2>1, <2>2 DEF Types, Only, ImageSound
  <2>4. QED
    BY <1>1, <1>3, <2>1, <2>3 DEF Step
<1>5. CASE call[i][k].by # Caller
  <2>1. /\ call[i][k].by = Branch /\ thread[i][Branch].at = "loop"
        /\ thread[i][Branch].slot \in {"active", "suspended"}
    BY <1>1, <1>5, NestedCaller DEF Joins
  <2>2. thread' = [thread EXCEPT ![i][Branch].slot = "active"] /\ UNCHANGED queue
    BY <1>1, <1>5, <2>1
  <2>3. /\ thread' \in [Image -> [Threads -> ThreadStates]]
        /\ thread'[i][Branch] = [at |-> "loop", slot |-> "active"]
        /\ \A t \in Threads \ {Branch} : thread'[i][t] = thread[i][t]
        /\ \A j \in Image \ {i} : thread'[j] = thread[j]
        /\ Load(group[i], thread'[i]) = Load(group[i], thread[i])
    <3> DEFINE u == [thread[i][Branch] EXCEPT !.slot = "active"]
    <3>1. thread' = [thread EXCEPT ![i][Branch] = u]
      BY <2>2
    <3> HIDE DEF u
    <3>2. u = [thread[i][Branch] EXCEPT !.slot = "active"] /\ thread[i][Branch].slot # "none"
      BY <2>1 DEF u
    <3>3. QED
      BY <1>2, <2>1, <3>1, <3>2, SlotSet
  <2>4. Sound(image[i], permit[i], group[i], call[i], thread'[i])
    BY <1>2, <2>1, <2>3, SlotChanges
  <2>5. Types' /\ Only(i) /\ ImageSound(i)'
    BY <1>1, <1>2, <2>2, <2>3, <2>4 DEF Types, Only, ImageSound
  <2>6. QED
    BY <1>1, <1>3, <2>3, <2>5 DEF Step
<1>6. QED
  BY <1>4, <1>5

(* A call begins with nothing handed out. *)
LEMMA Begun ==
  ASSUME NEW k \in Stages, NEW by \in {Caller, Branch}, NEW workers
  PROVE  /\ Begin(k, by, workers) \in Calls(k)
         /\ Begin(k, by, workers).at \in {"launch", "serial"}
         /\ Begin(k, by, workers).by = by /\ Begin(k, by, workers).launched = 0
         /\ Begin(k, by, workers).next = 1
         /\ \A m \in Tasks(k) : Begin(k, by, workers).runner[m] = Nobody
<1> DEFINE b == Begin(k, by, workers)
           r == [m \in Tasks(k) |-> Nobody]
           st == [m \in Tasks(k) |-> "none"]
           at == IF workers = 0 THEN "serial" ELSE "launch"
<1>1. r \in [Tasks(k) -> Threads \cup {Nobody}] /\ \A m \in Tasks(k) : r[m] = Nobody
  OBVIOUS
<1>2. st \in [Tasks(k) -> {"none"} \cup Statuses]
  OBVIOUS
<1>3. at \in {"launch", "serial"} /\ 1 \in Nat \ {0}
  OBVIOUS
<1>4. b = [at |-> at, by |-> by, launched |-> 0, next |-> 1, runner |-> r, status |-> st,
           result |-> "none"]
  BY DEF Begin
<1> HIDE DEF b, r, st, at
<1>5. /\ b \in Calls(k) /\ b.at \in {"launch", "serial"} /\ b.by = by /\ b.launched = 0
      /\ b.next = 1 /\ \A m \in Tasks(k) : b.runner[m] = Nobody
  BY <1>1, <1>2, <1>3, <1>4 DEF Calls, Unjoined
<1>6. QED
  BY <1>5 DEF b

(* A task is handed out, and when it is the DC branch its stage begins. *)
LEMMA FetchTaskStep ==
  ASSUME IInv, NEW i \in Image, NEW k \in Stages, NEW t \in Threads, FetchTask(i, k, t)
  PROVE  Step(i)
<1> DEFINE old == call[i][k]
           n == call[i][k].next
           run == [call[i][k].runner EXCEPT ![call[i][k].next] = t]
           c == [call[i][k] EXCEPT !.next = call[i][k].next + 1, !.runner = run]
<1>1. /\ InLoop(i, k, t) /\ n \in Tasks(k)
      /\ UNCHANGED <<queue, image, permit, group, thread, terminated>>
  BY DEF FetchTask
<1>2. /\ old.at \in Unjoined /\ old.at # "none" /\ old \in Calls(k) /\ Accounted(k, old)
      /\ RunsIn(k, old, thread[i], t) /\ (t \notin Workers(k) => old.by = t)
  BY <1>1, LoopOf
<1>3. old.at \in {"launch", "loop"} /\ n \in Nat /\ n >= 1
  BY <1>1, <1>2, CallFields DEF Accounted, Unjoined
<1>4. /\ run \in [Tasks(k) -> Threads \cup {Nobody}] /\ run[n] = t
      /\ \A m \in Tasks(k) \ {n} : run[m] = old.runner[m]
  BY <1>1, <1>2 DEF Calls
<1>5. [call EXCEPT ![i][k] = [@ EXCEPT !.next = n + 1, !.runner[n] = t]] =
        [call EXCEPT ![i][k] = c]
  <2>1. [old EXCEPT !.next = n + 1, !.runner[n] = t] = c
    OBVIOUS
  <2>2. QED
    BY <2>1
<1> HIDE DEF run
<1>6. /\ c \in Calls(k) /\ c.at = old.at /\ c.by = old.by /\ c.launched = old.launched
      /\ c.next = n + 1 /\ c.runner = run /\ c.status = old.status
  <2>1. n + 1 \in Nat \ {0}
    BY <1>3
  <2>2. QED
    BY <1>2, <1>4, <2>1 DEF Calls
<1> HIDE DEF c
<1>7. CASE ~(k = "branches" /\ n = 1)
  <2>1. call' = [call EXCEPT ![i][k] = c]
    BY <1>5, <1>7 DEF FetchTask
  <2>2. \A m \in Tasks(k) : c.runner[m] # Nobody => RunsIn(k, c, thread[i], c.runner[m])
    <3>1. \A m \in Tasks(k) \ {n} : old.runner[m] # Nobody => RunsIn(k, old, thread[i], old.runner[m])
      BY <1>2 DEF IInv, ImageSound, Sound, RunnersInLoop
    <3>2. \A m \in Tasks(k) : c.runner[m] # Nobody => RunsIn(k, old, thread[i], c.runner[m])
      BY <1>2, <1>4, <1>6, <3>1
    <3>3. QED
      BY <1>6, <3>2 DEF RunsIn
  <2>3. Accounted(k, c)
    <3>1. \A m \in Tasks(k) : m \in Nat
      BY TasksCounted
    <3>2. \A m \in Tasks(k) : m < n + 1 => m < n \/ m = n
      BY <1>3, <3>1
    <3>3. \A m \in Tasks(k) : m >= n + 1 => m >= n /\ m # n
      BY <1>3, <3>1
    <3>4. t # Nobody
      BY Layout
    <3>5. QED
      BY <1>2, <1>3, <1>4, <1>6, <3>2, <3>3, <3>4 DEF Accounted, Joins
  <2>4. k = "branches" => c.runner[1] = old.runner[1] /\ c.next # 1
    BY <1>3, <1>4, <1>6, <1>7, Layout
  <2>5. Moves(i, k, c)
    BY <1>2, <1>3, <1>6, <2>2, <2>3, <2>4 DEF Moves, Joins
  <2>6. QED
    BY <1>1, <2>1, <2>5, CallStep
<1>8. CASE k = "branches" /\ n = 1
  <2> DEFINE b == Begin("dc", t, Spawned(i, "dc"))
  <2>0. "dc" \in Stages /\ "branches" \in Stages /\ Tasks("dc") = 1 .. Count
        /\ Tasks("branches") = {1, 2} /\ Workers("branches") = {Branch}
    BY Layout
  <2>1. call' = [[call EXCEPT ![i][k] = c] EXCEPT ![i]["dc"] = b]
    BY <1>5, <1>8 DEF FetchTask
  <2>2. Types /\ Sound(image[i], permit[i], group[i], call[i], thread[i])
        /\ Typed(group[i], call[i], thread[i])
    BY ImageTyped DEF IInv, ImageSound
  <2>3. t \in {Caller, Branch}
    <3>1. old.by = Caller
      BY <1>2, <1>8, <2>0, <2>2, RunningCall DEF Sound, Entered
    <3>2. QED
      BY <1>2, <1>8, <2>0, <3>1
  <2>4. /\ b \in Calls("dc") /\ b.at \in {"launch", "serial"} /\ b.by = t /\ b.launched = 0
        /\ b.next = 1 /\ \A m \in Tasks("dc") : b.runner[m] = Nobody
    BY <2>0, <2>3, Begun
  <2> HIDE DEF b
  <2>5. c \in CallStates /\ b \in CallStates
    BY <1>6, <1>8, <2>4 DEF CallStates
  <2>6. /\ call' \in [Image -> [Stages -> CallStates]]
        /\ call'[i]["branches"] = c /\ call'[i]["dc"] = b
        /\ \A j \in Image \ {i} : call'[j] = call[j]
    BY <1>8, <2>0, <2>1, <2>2, <2>5 DEF Types
  <2>7. Sound(image[i], permit[i], group[i], call'[i], thread[i])
    <3>1. /\ call'[i]["branches"] \in Calls("branches") /\ call'[i]["branches"].next = 2
          /\ call'[i]["branches"].at = call[i]["branches"].at
          /\ call'[i]["branches"].by = call[i]["branches"].by
          /\ call'[i]["branches"].launched = call[i]["branches"].launched
          /\ call'[i]["branches"].status = call[i]["branches"].status
          /\ call'[i]["branches"].runner[1] = t
          /\ call'[i]["branches"].runner[2] = call[i]["branches"].runner[2]
      BY <1>4, <1>6, <1>8, <2>0, <2>6
    <3>2. /\ call'[i]["dc"] \in Calls("dc") /\ call'[i]["dc"].at \in {"launch", "serial"}
          /\ call'[i]["dc"].by = t /\ call'[i]["dc"].launched = 0 /\ call'[i]["dc"].next = 1
          /\ \A m \in Tasks("dc") : call'[i]["dc"].runner[m] = Nobody
      BY <2>4, <2>6
    <3>3. /\ call[i]["branches"].at \in Unjoined /\ call[i]["branches"].next = 1
          /\ RunsIn("branches", call[i]["branches"], thread[i], t)
      BY <1>2, <1>8
    <3>4. QED
      BY <2>2, <2>3, <3>1, <3>2, <3>3, NestedBegins
  <2>8. Types' /\ Only(i) /\ ImageSound(i)'
    BY <1>1, <2>2, <2>6, <2>7 DEF Types, Only, ImageSound
  <2>9. Load(group[i], thread[i]) \in Nat
    BY <2>2, LoadType
  <2>10. QED
    BY <1>1, <2>8, <2>9 DEF Step
<1>9. QED
  BY <1>7, <1>8

(* A task is done; when it is the DC branch its stage, which is over, is dropped. *)
LEMMA FinishTaskStep ==
  ASSUME IInv, NEW i \in Image, NEW k \in Stages, NEW t \in Threads, FinishTask(i, k, t)
  PROVE  Step(i)
<1> DEFINE old == call[i][k]
<1>1. PICK n \in Running(i, k, t), status \in Statuses :
        /\ (k = "branches" /\ n = 1) => call[i]["dc"].at = "done"
        /\ LET finished == [call EXCEPT ![i][k] =
                              [@ EXCEPT !.status[n] = status, !.runner[n] = Nobody]]
           IN call' = IF k = "branches" /\ n = 1
                        THEN [finished EXCEPT ![i]["dc"] = NoCall] ELSE finished
  BY DEF FinishTask
<1>2. InLoop(i, k, t) /\ UNCHANGED <<queue, image, permit, group, thread, terminated>>
      /\ n \in Tasks(k) /\ old.runner[n] = t
  BY DEF FinishTask, Running
<1>3. old.at \in Unjoined /\ old.at # "none" /\ old \in Calls(k) /\ Accounted(k, old)
  BY <1>2, LoopOf
<1> DEFINE run == [call[i][k].runner EXCEPT ![n] = Nobody]
           st == [call[i][k].status EXCEPT ![n] = status]
           c == [call[i][k] EXCEPT !.status = st, !.runner = run]
<1>4. /\ run \in [Tasks(k) -> Threads \cup {Nobody}] /\ run[n] = Nobody
      /\ \A m \in Tasks(k) \ {n} : run[m] = old.runner[m]
  BY <1>2, <1>3 DEF Calls
<1>5. /\ st \in [Tasks(k) -> {"none"} \cup Statuses] /\ st[n] = status
      /\ \A m \in Tasks(k) \ {n} : st[m] = old.status[m]
  BY <1>2, <1>3 DEF Calls
<1>6. call' = IF k = "branches" /\ n = 1
                THEN [[call EXCEPT ![i][k] = c] EXCEPT ![i]["dc"] = NoCall]
                ELSE [call EXCEPT ![i][k] = c]
  <2>1. [old EXCEPT !.status[n] = status, !.runner[n] = Nobody] = c
    OBVIOUS
  <2> HIDE DEF c, run, st
  <2> DEFINE f == [call EXCEPT ![i][k] = [old EXCEPT !.status[n] = status, !.runner[n] = Nobody]]
             g == [call EXCEPT ![i][k] = c]
  <2>2. f = g
    BY <2>1
  <2>3. call' = IF k = "branches" /\ n = 1 THEN [f EXCEPT ![i]["dc"] = NoCall] ELSE f
    BY <1>1
  <2> HIDE DEF f, g
  <2>4. call' = IF k = "branches" /\ n = 1 THEN [g EXCEPT ![i]["dc"] = NoCall] ELSE g
    BY <2>2, <2>3
  <2>5. QED
    BY <2>4 DEF g
<1> HIDE DEF run, st
<1>7. /\ c \in Calls(k) /\ c.at = old.at /\ c.by = old.by /\ c.launched = old.launched
      /\ c.next = old.next /\ c.runner = run /\ c.status = st
  BY <1>3, <1>4, <1>5 DEF Calls
<1> HIDE DEF c
<1>8. CASE ~(k = "branches" /\ n = 1)
  <2>1. call' = [call EXCEPT ![i][k] = c]
    BY <1>6, <1>8
  <2>2. \A m \in Tasks(k) : c.runner[m] # Nobody => RunsIn(k, c, thread[i], c.runner[m])
    <3>1. \A m \in Tasks(k) : old.runner[m] # Nobody => RunsIn(k, old, thread[i], old.runner[m])
      BY <1>3 DEF IInv, ImageSound, Sound, RunnersInLoop
    <3>2. \A m \in Tasks(k) : c.runner[m] # Nobody => RunsIn(k, old, thread[i], c.runner[m])
      BY <1>4, <1>7, <3>1
    <3>3. QED
      BY <1>7, <3>2 DEF RunsIn
  <2>3. Accounted(k, c)
    <3>1. old.at \notin {"serial", "done"}
      BY <1>3 DEF Unjoined, Joins
    <3>2. \A m \in Tasks(k) : c.status[m] = old.status[m] \/ c.status[m] \in Statuses
      BY <1>5, <1>7
    <3>3. \A m \in Tasks(k) : c.runner[m] = old.runner[m] \/ c.status[m] \in Statuses
      BY <1>4, <1>5, <1>7
    <3>4. \A m \in Tasks(k) : old.runner[m] = Nobody => c.runner[m] = Nobody
      BY <1>4, <1>7
    <3>5. QED
      BY <1>3, <1>7, <3>1, <3>2, <3>3, <3>4 DEF Accounted
  <2>4. k = "branches" => c.runner[1] = old.runner[1]
    BY <1>4, <1>7, <1>8, Layout
  <2>5. Moves(i, k, c)
    BY <1>3, <1>7, <2>2, <2>3, <2>4 DEF Moves
  <2>6. QED
    BY <1>2, <2>1, <2>5, CallStep
<1>9. CASE k = "branches" /\ n = 1
  <2>0. "dc" \in Stages /\ "branches" \in Stages /\ Tasks("branches") = {1, 2}
    BY Layout
  <2>1. call' = [[call EXCEPT ![i][k] = c] EXCEPT ![i]["dc"] = NoCall]
    BY <1>6, <1>9
  <2>2. Types /\ Sound(image[i], permit[i], group[i], call[i], thread[i])
        /\ Typed(group[i], call[i], thread[i])
    BY ImageTyped DEF IInv, ImageSound
  <2>3. c \in CallStates /\ NoCall \in CallStates
    BY <1>7, <1>9 DEF CallStates
  <2>4. /\ call' \in [Image -> [Stages -> CallStates]]
        /\ call'[i]["branches"] = c /\ call'[i]["dc"] = NoCall
        /\ \A j \in Image \ {i} : call'[j] = call[j]
    BY <1>9, <2>0, <2>1, <2>2, <2>3 DEF Types
  <2>5. Sound(image[i], permit[i], group[i], call'[i], thread[i])
    <3>1. /\ call'[i]["branches"] \in Calls("branches")
          /\ call'[i]["branches"].next = call[i]["branches"].next
          /\ call'[i]["branches"].at = call[i]["branches"].at
          /\ call'[i]["branches"].by = call[i]["branches"].by
          /\ call'[i]["branches"].launched = call[i]["branches"].launched
          /\ call'[i]["branches"].runner[1] = Nobody
          /\ call'[i]["branches"].runner[2] = call[i]["branches"].runner[2]
          /\ call'[i]["branches"].status[1] \in Statuses
          /\ call'[i]["branches"].status[2] = call[i]["branches"].status[2]
      BY <1>4, <1>5, <1>7, <1>9, <2>0, <2>4
    <3>2. call[i]["branches"].at \in Unjoined /\ call[i]["dc"].at = "done"
      BY <1>1, <1>3, <1>9
    <3>3. QED
      BY <2>2, <2>4, <3>1, <3>2, NestedEnds
  <2>6. Types' /\ Only(i) /\ ImageSound(i)'
    BY <1>2, <2>2, <2>4, <2>5 DEF Types, Only, ImageSound
  <2>7. Load(group[i], thread[i]) \in Nat
    BY <2>2, LoadType
  <2>8. QED
    BY <1>2, <2>6, <2>7 DEF Step
<1>10. QED
  BY <1>8, <1>9

(* A worker ends, and gives its slot back. *)
LEMMA ExitStep ==
  ASSUME IInv, NEW i \in Image, NEW k \in Stages, NEW t \in Threads, Exit(i, k, t)
  PROVE  Step(i)
<1>1. /\ t \in Workers(k) /\ thread[i][t].at = "loop" /\ Running(i, k, t) = {}
      /\ thread' = [thread EXCEPT ![i][t] = NoThread]
      /\ UNCHANGED <<queue, image, permit, group, call, terminated>>
  BY DEF Exit, Drained, InLoop
<1>2. /\ Sound(image[i], permit[i], group[i], call[i], thread[i])
      /\ Typed(group[i], call[i], thread[i]) /\ Types
  BY ImageTyped DEF IInv, ImageSound
<1>3. NoThread \in ThreadStates
  BY DEF ThreadStates
<1>4. /\ thread' \in [Image -> [Threads -> ThreadStates]]
      /\ thread'[i][t] = NoThread
      /\ \A u \in Threads \ {t} : thread'[i][u] = thread[i][u]
      /\ \A j \in Image \ {i} : thread'[j] = thread[j]
  BY <1>1, <1>2, <1>3, ThreadSet
<1>5. \A n \in Tasks(k) : call[i][k].runner[n] # t
  BY <1>1 DEF Running
<1>6. Sound(image[i], permit[i], group[i], call[i], thread'[i])
  <2>1. \A u \in Threads \ {t} : thread'[i][u] = thread[i][u]
    BY <1>4
  <2>2. thread'[i][t] = NoThread /\ t \in Workers(k) /\ thread[i][t].at = "loop"
    BY <1>1, <1>4
  <2>3. QED
    BY <1>2, <1>5, <2>1, <2>2, ThreadExits
<1>7. Types' /\ Only(i) /\ ImageSound(i)'
  BY <1>1, <1>2, <1>4, <1>6 DEF Types, Only, ImageSound
<1>8. Load(group[i], thread'[i]) <= Load(group[i], thread[i])
  <2>1. SlottedOf(thread'[i]) \subseteq SlottedOf(thread[i])
    BY <1>4 DEF SlottedOf, NoThread
  <2>2. Cardinality(SlottedOf(thread'[i])) <= Cardinality(SlottedOf(thread[i]))
    BY <2>1, ThreadsFinite, FS_Subset
  <2> DEFINE free == (group[i]["branches"].domain - group[i]["branches"].taken)
                       + (group[i]["dc"].domain - group[i]["dc"].taken)
             a == Cardinality(SlottedOf(thread'[i]))
             b == Cardinality(SlottedOf(thread[i]))
  <2>3. a \in Nat /\ b \in Nat /\ free \in Int
    <3>1. \A m \in Stages : group[i][m].domain \in Nat /\ group[i][m].taken \in Nat
      BY <1>2, LoadType
    <3>a. /\ group[i]["branches"].domain \in Nat /\ group[i]["branches"].taken \in Nat
          /\ group[i]["dc"].domain \in Nat /\ group[i]["dc"].taken \in Nat
      BY <3>1, Layout
    <3>2. free \in Int
      BY <3>a
    <3>3. QED
      BY <3>2, ThreadsFinite
  <2>4. Load(group[i], thread'[i]) = free + a /\ Load(group[i], thread[i]) = free + b /\ a <= b
    BY <2>2 DEF Load
  <2> HIDE DEF free, a, b
  <2>5. QED
    BY <2>3, <2>4
<1>9. QED
  BY <1>1, <1>7, <1>8 DEF Step

(* CpuWorkerScope: the slot a worker takes is one its group holds of both budgets. *)
LEMMA TakeStep ==
  ASSUME IInv, NEW i \in Image, NEW t \in Threads \ {Caller}, Take(i, t)
  PROVE  Step(i)
<1> DEFINE k == StageOf(t)
           g == [group[i][StageOf(t)] EXCEPT !.taken = group[i][StageOf(t)].taken + 1]
           s == [at |-> "loop", slot |-> "active"]
           H == [group[i] EXCEPT ![StageOf(t)] = g]
           U == [thread[i] EXCEPT ![t] = s]
<1>1. thread[i][t].at = "starting" /\ UNCHANGED <<queue, image, permit, call>>
  BY DEF Take
<1>2. /\ Sound(image[i], permit[i], group[i], call[i], thread[i])
      /\ Typed(group[i], call[i], thread[i]) /\ Types
  BY ImageTyped DEF IInv, ImageSound
<1>3. k \in Stages /\ t \in Workers(k) /\ t \in Threads
  BY Layout DEF StageOf
<1>4. /\ g \in Groups /\ g.domain = group[i][k].domain /\ g.job = group[i][k].job
      /\ g.taken = group[i][k].taken + 1
  BY <1>2, <1>3 DEF Typed, Groups
<1>5. s \in ThreadStates /\ s.slot # "none"
  BY DEF ThreadStates
<1>6. thread[i][t].slot = "none"
  BY <1>1, <1>2, <1>3, ThreadFields DEF Typed
<1>7. /\ (group[i][k].taken < Smaller(group[i][k].domain, group[i][k].job)) =>
           /\ group' = [group EXCEPT ![i][k] = g]
           /\ thread' = [thread EXCEPT ![i][t] = s]
           /\ UNCHANGED terminated
  BY DEF Take
<1> HIDE DEF k, g
<1>8. /\ H \in [Stages -> Groups] /\ H[k] = g /\ \A m \in Stages \ {k} : H[m] = group[i][m]
  BY <1>2, <1>3, <1>4 DEF Typed, k
<1>9. /\ U \in [Threads -> ThreadStates] /\ U[t] = s
      /\ \A u \in Threads \ {t} : U[u] = thread[i][u]
  BY <1>2, <1>3, <1>5 DEF Typed
<1>10. Typed(H, call[i], U)
  BY <1>2, <1>8, <1>9 DEF Typed
<1>11. /\ group[i][k].taken < group[i][k].domain /\ group[i][k].job = group[i][k].domain
       /\ Sound(image[i], permit[i], H, call[i], U)
  <2> HIDE DEF H, U
  <2>1. /\ H[k].domain = group[i][k].domain /\ H[k].job = group[i][k].job
        /\ H[k].taken = group[i][k].taken + 1 /\ U[t] = [at |-> "loop", slot |-> "active"]
    BY <1>4, <1>8, <1>9
  <2>2. \A u \in Threads \ {t} : U[u] = thread[i][u]
    BY <1>9
  <2>3. \A m \in Stages \ {k} : H[m] = group[i][m]
    BY <1>8
  <2>4. thread[i][t].at = "starting" /\ k \in Stages /\ t \in Workers(k)
    BY <1>1, <1>3
  <2>5. /\ Typed(group[i], call[i], thread[i]) /\ Typed(H, call[i], U)
        /\ Sound(image[i], permit[i], group[i], call[i], thread[i])
    BY <1>2, <1>10
  <2>6. Sound(image[i], permit[i], H, call[i], U)
    BY <2>1, <2>2, <2>3, <2>4, <2>5, ThreadTakes
  <2>7. group[i][k].taken < group[i][k].domain
    <3>1. H[k].taken <= H[k].domain
      BY <1>3, <2>6 DEF Sound, GroupsSuffice
    <3>2. group[i][k].taken \in Nat /\ group[i][k].domain \in Nat
      BY <1>3, <2>5, LoadType
    <3>3. group[i][k].taken + 1 <= group[i][k].domain
      BY <2>1, <3>1
    <3>4. QED
      BY <3>2, <3>3
  <2>8. QED
    BY <1>3, <2>5, <2>6, <2>7, LoadType
<1>12. /\ group' = [group EXCEPT ![i][k] = g]
       /\ thread' = [thread EXCEPT ![i][t] = s]
       /\ UNCHANGED terminated
  BY <1>7, <1>11 DEF Smaller
<1> HIDE DEF s
<1>13. /\ group' \in [Image -> [Stages -> Groups]] /\ group'[i] = H
       /\ \A j \in Image \ {i} : group'[j] = group[j]
  BY <1>2, <1>3, <1>4, <1>12 DEF Types, k
<1>14. /\ thread' \in [Image -> [Threads -> ThreadStates]] /\ thread'[i] = U
       /\ \A j \in Image \ {i} : thread'[j] = thread[j]
  BY <1>2, <1>3, <1>5, <1>12 DEF Types
<1> HIDE DEF H, U
<1>15. Types' /\ Only(i) /\ ImageSound(i)'
  BY <1>1, <1>2, <1>11, <1>13, <1>14 DEF Types, Only, ImageSound
<1>16. Load(H, U) = Load(group[i], thread[i])
  <2>1. SlottedOf(U) = SlottedOf(thread[i]) \cup {t} /\ t \notin SlottedOf(thread[i])
    BY <1>3, <1>5, <1>6, <1>9 DEF SlottedOf
  <2>2. Cardinality(SlottedOf(U)) = Cardinality(SlottedOf(thread[i])) + 1
    BY <2>1, ThreadsFinite, FS_AddElement
  <2>3. \A m \in Stages : group[i][m].domain \in Nat /\ group[i][m].taken \in Nat
    BY <1>2, LoadType
  <2> DEFINE a == Cardinality(SlottedOf(U))
             b == Cardinality(SlottedOf(thread[i]))
  <2>4. a = b + 1 /\ a \in Nat /\ b \in Nat
    BY <2>2, ThreadsFinite
  <2>5. /\ Load(H, U) = (H["branches"].domain - H["branches"].taken)
                          + (H["dc"].domain - H["dc"].taken) + a
        /\ Load(group[i], thread[i]) = (group[i]["branches"].domain - group[i]["branches"].taken)
                          + (group[i]["dc"].domain - group[i]["dc"].taken) + b
    BY DEF Load
  <2> HIDE DEF a, b
  <2>n. /\ group[i]["branches"].domain \in Nat /\ group[i]["branches"].taken \in Nat
        /\ group[i]["dc"].domain \in Nat /\ group[i]["dc"].taken \in Nat
    BY <2>3, Layout
  <2> DEFINE p == group[i]["branches"].domain
             q == group[i]["branches"].taken
             r == group[i]["dc"].domain
             v == group[i]["dc"].taken
  <2>6. CASE k = "dc"
    <3>1. H["branches"] = group[i]["branches"] /\ H["dc"].domain = group[i]["dc"].domain
          /\ H["dc"].taken = group[i]["dc"].taken + 1
      BY <1>4, <1>8, <2>6, Layout
    <3>2. /\ p \in Nat /\ q \in Nat /\ r \in Nat /\ v \in Nat
          /\ Load(H, U) = (p - q) + (r - (v + 1)) + a
          /\ Load(group[i], thread[i]) = (p - q) + (r - v) + b
      BY <2>n, <2>5, <3>1
    <3> HIDE DEF p, q, r, v
    <3>3. QED
      BY <2>4, <3>2
  <2>7. CASE k = "branches"
    <3>1. H["dc"] = group[i]["dc"] /\ H["branches"].domain = group[i]["branches"].domain
          /\ H["branches"].taken = group[i]["branches"].taken + 1
      BY <1>4, <1>8, <2>7, Layout
    <3>2. /\ p \in Nat /\ q \in Nat /\ r \in Nat /\ v \in Nat
          /\ Load(H, U) = (p - (q + 1)) + (r - v) + a
          /\ Load(group[i], thread[i]) = (p - q) + (r - v) + b
      BY <2>n, <2>5, <3>1
    <3> HIDE DEF p, q, r, v
    <3>3. QED
      BY <2>4, <3>2
  <2>8. QED
    BY <1>3, <2>6, <2>7, Layout
<1>17. Load(group[i], thread[i]) \in Nat
  BY <1>2, LoadType
<1>18. QED
  <2>1. Load(group'[i], thread'[i]) = Load(group[i], thread[i])
    BY <1>13, <1>14, <1>16
  <2>2. Load(group'[i], thread'[i]) <= Load(group[i], thread[i])
    BY <1>17, <2>1
  <2>3. permit' = permit /\ terminated' = terminated
    BY <1>1, <1>12
  <2>4. QED
    BY <1>15, <2>2, <2>3 DEF Step

-------------------------------------------------------------------------------
(* What an image holds of the domain, of the values *)
Own(P, G, T) ==
  (IF P THEN 1 ELSE 0) + ((G["branches"].domain - G["branches"].taken)
                            + (G["dc"].domain - G["dc"].taken)) + Cardinality(SlottedOf(T))

(* That is its load, and its caller's slot. *)
LEMMA OwnIs ==
  ASSUME NEW M, NEW P \in BOOLEAN, NEW G, NEW C, NEW T, Typed(G, C, T), Sound(M, P, G, C, T)
  PROVE  /\ Own(P, G, T) = (IF P THEN 1 ELSE 0) + Load(G, T)
         /\ Own(P, G, T) \in Nat /\ Load(G, T) \in Nat
<1>1. /\ \A k \in Stages : G[k].domain \in Nat /\ G[k].taken \in Nat
      /\ Load(G, T) \in Nat
  BY LoadType
<1>2. /\ G["branches"].domain \in Nat /\ G["branches"].taken \in Nat
      /\ G["dc"].domain \in Nat /\ G["dc"].taken \in Nat
  BY <1>1, Layout
<1> DEFINE o == IF P THEN 1 ELSE 0
           a == G["branches"].domain - G["branches"].taken
           b == G["dc"].domain - G["dc"].taken
           d == Cardinality(SlottedOf(T))
<1>3. a \in Int /\ b \in Int /\ d \in Nat /\ o \in Nat
  BY <1>2, ThreadsFinite
<1>4. Own(P, G, T) = o + (a + b) + d /\ Load(G, T) = a + b + d
  BY DEF Own, Load
<1> HIDE DEF o, a, b, d
<1>5. Own(P, G, T) = o + Load(G, T)
  BY <1>3, <1>4
<1>6. Own(P, G, T) \in Nat
  BY <1>1, <1>3, <1>5
<1>7. QED
  BY <1>1, <1>5, <1>6 DEF o

OwnAll(P, G, T) == [i \in Image |-> Own(P[i], G[i], T[i])]

(* The domain's sum, of a state and of the next *)
LEMMA ProtectedIs ==
  /\ Protected = SumOver(OwnAll(permit, group, thread), Image)
  /\ Protected' = SumOver(OwnAll(permit', group', thread'), Image)
BY DEF Protected, Holds, Unclaimed, Slotted, SlottedOf, Own, OwnAll, SumOver, SumFunction

(* A step of image i within what the domain and its own budget have left *)
Within(i) ==
  /\ Types' /\ Only(i) /\ ImageSound(i)' /\ terminated' = terminated
  /\ Own(permit'[i], group'[i], thread'[i])
       <= Own(permit[i], group[i], thread[i]) + (Limit - Protected)
  /\ 1 + Load(group'[i], thread'[i]) <= JobLimit[i]

(* The domain's sum is a number within the limit. *)
LEMMA ProtectedType ==
  ASSUME IInv
  PROVE  /\ Protected \in Nat /\ Protected <= Limit
         /\ \A i \in Image : /\ OwnAll(permit, group, thread)[i] \in Nat
                             /\ OwnAll(permit, group, thread)[i] =
                                  Own(permit[i], group[i], thread[i])
                             /\ JobLimit[i] \in Nat
<1>1. ASSUME NEW i \in Image PROVE Own(permit[i], group[i], thread[i]) \in Nat
  BY ImageTyped, OwnIs DEF IInv, ImageSound
<1>2. \A i \in Image : /\ OwnAll(permit, group, thread)[i] \in Nat
                       /\ OwnAll(permit, group, thread)[i] =
                            Own(permit[i], group[i], thread[i])
  BY <1>1 DEF OwnAll
<1>3. Protected \in Nat
  BY <1>2, LimitsAssumption, ProtectedIs, SumType
<1>4. Protected <= Limit /\ \A i \in Image : JobLimit[i] \in Nat
  BY LimitsAssumption DEF IInv, WithinLimits
<1>5. QED
  BY <1>2, <1>3, <1>4

(* A step that gives the budgets something back stays within. *)
LEMMA StepWithin ==
  ASSUME IInv, NEW i \in Image, Step(i)
  PROVE  Within(i)
<1>1. /\ Types /\ Sound(image[i], permit[i], group[i], call[i], thread[i])
      /\ Typed(group[i], call[i], thread[i]) /\ permit[i] \in BOOLEAN
  BY ImageTyped DEF IInv, ImageSound
<1>2. /\ Sound(image'[i], permit'[i], group'[i], call'[i], thread'[i])
      /\ Typed(group'[i], call'[i], thread'[i]) /\ permit'[i] \in BOOLEAN
  BY DEF Step, ImageSound, Types, Typed
<1> DEFINE a == Own(permit[i], group[i], thread[i])
           b == Own(permit'[i], group'[i], thread'[i])
           x == Load(group[i], thread[i])
           y == Load(group'[i], thread'[i])
<1>3. a = (IF permit[i] THEN 1 ELSE 0) + x /\ a \in Nat /\ x \in Nat
  BY <1>1, OwnIs
<1>4. b = (IF permit'[i] THEN 1 ELSE 0) + y /\ b \in Nat /\ y \in Nat
  BY <1>2, OwnIs
<1>5. y <= x /\ (permit'[i] => permit[i])
  BY DEF Step
<1>6. 1 + x <= JobLimit[i]
  BY DEF IInv, WithinLimits
<1>7. Limit - Protected \in Nat /\ JobLimit[i] \in Nat
  BY LimitsAssumption, ProtectedType
<1> HIDE DEF a, b, x, y
<1>8. b <= a + (Limit - Protected)
  <2> DEFINE z == Limit - Protected
  <2>1. z \in Nat
    BY <1>7
  <2> HIDE DEF z
  <2>2. b <= a
    <3>1. CASE permit[i]
      BY <1>3, <1>4, <1>5, <3>1
    <3>2. CASE ~permit[i]
      BY <1>3, <1>4, <1>5, <3>2
    <3>3. QED
      BY <3>1, <3>2
  <2>3. b <= a + z
    BY <1>3, <1>4, <2>1, <2>2
  <2>4. QED
    BY <2>3 DEF z
<1>9. 1 + y <= JobLimit[i]
  BY <1>3, <1>4, <1>5, <1>6, <1>7
<1>10. QED
  BY <1>8, <1>9 DEF Step, Within, a, b, y

(* Such a step preserves the invariant: the others are as sound as before, and *)
(* the domain's sum grows by what this image's does.                        *)
LEMMA Preserved ==
  ASSUME IInv, NEW i \in Image, Within(i)
  PROVE  IInv'
<1>1. ASSUME NEW j \in Image PROVE ImageSound(j)'
  <2>1. CASE j = i
    BY <2>1 DEF Within
  <2>2. CASE j # i
    BY <2>2 DEF Within, Only, IInv, ImageSound
  <2>3. QED
    BY <2>1, <2>2
<1>2. ASSUME NEW j \in Image PROVE 1 + Load(group'[j], thread'[j]) <= JobLimit[j]
  <2>1. CASE j = i
    BY <2>1 DEF Within
  <2>2. CASE j # i
    BY <2>2 DEF Within, Only, IInv, WithinLimits
  <2>3. QED
    BY <2>1, <2>2
<1>3. Protected' <= Limit
  <2> DEFINE f == OwnAll(permit, group, thread)
             g == OwnAll(permit', group', thread')
  <2>1. f[i] = Own(permit[i], group[i], thread[i]) /\ g[i] = Own(permit'[i], group'[i], thread'[i])
    BY DEF OwnAll
  <2>2. \A j \in Image \ {i} : g[j] = f[j]
    BY DEF OwnAll, Within, Only
  <2>3. \A j \in Image : f[j] \in Nat
    BY ProtectedType
  <2>4. \A j \in Image : g[j] \in Nat
    <3> TAKE j \in Image
    <3>1. /\ Sound(image'[j], permit'[j], group'[j], call'[j], thread'[j])
          /\ Typed(group'[j], call'[j], thread'[j]) /\ permit'[j] \in BOOLEAN
      BY <1>1 DEF Within, ImageSound, Types, Typed
    <3>2. Own(permit'[j], group'[j], thread'[j]) \in Nat
      BY <3>1, OwnIs
    <3>3. QED
      BY <3>2 DEF OwnAll
  <2>5. Protected = SumOver(f, Image) /\ Protected' = SumOver(g, Image)
    BY ProtectedIs
  <2>6. g[i] <= f[i] + (Limit - Protected)
    BY <2>1 DEF Within
  <2> HIDE DEF f, g
  <2>7. /\ IsFiniteSet(Image \ {i}) /\ SumOver(f, Image \ {i}) \in Nat
        /\ SumOver(f, Image) = f[i] + SumOver(f, Image \ {i})
    BY <2>3, LimitsAssumption, SumRemove
  <2>8. /\ SumOver(g, Image \ {i}) \in Nat
        /\ SumOver(g, Image) = g[i] + SumOver(g, Image \ {i})
    BY <2>4, LimitsAssumption, SumRemove
  <2>9. SumOver(g, Image \ {i}) = SumOver(f, Image \ {i})
    BY <2>2, <2>7, SumSame
  <2> DEFINE r == SumOver(f, Image \ {i})
             p == Protected
             q == Protected'
             u == f[i]
             v == g[i]
  <2>10. /\ r \in Nat /\ u \in Nat /\ v \in Nat /\ Limit \in Nat
         /\ p = u + r /\ q = v + r /\ v <= u + (Limit - p)
    BY <2>3, <2>4, <2>5, <2>6, <2>7, <2>8, <2>9, Layout
  <2> HIDE DEF r, p, q, u, v
  <2>11. q <= Limit
    BY <2>10
  <2>12. QED
    BY <2>11 DEF q
<1>4. Types' /\ ~terminated'
  BY DEF Within, IInv
<1>5. QED
  BY <1>1, <1>2, <1>3, <1>4 DEF IInv, WithinLimits

(* The image queues for its first slot. *)
LEMMA StartStep ==
  ASSUME IInv, NEW i \in Image, Start(i)
  PROVE  Within(i)
<1>1. /\ Types /\ Sound(image[i], permit[i], group[i], call[i], thread[i])
      /\ Typed(group[i], call[i], thread[i]) /\ permit[i] \in BOOLEAN
  BY ImageTyped DEF IInv, ImageSound
<1>2. /\ image[i] = "start" /\ image' = [image EXCEPT ![i] = "queued"]
      /\ queue' = Append(queue, i) /\ UNCHANGED <<permit, group, call, thread, terminated>>
  BY DEF Start, Queue
<1>3. /\ image' \in [Image -> ImageStates] /\ image'[i] = "queued"
      /\ \A j \in Image \ {i} : image'[j] = image[j]
  BY <1>1, <1>2 DEF Types, ImageStates
<1>4. queue' \in Seq(Image)
  BY <1>1, <1>2 DEF Types
<1>5. Sound("queued", permit[i], group[i], call[i], thread[i])
  <2>1. image[i] \notin {"early", "stage"}
    BY <1>2
  <2>2. QED
    BY <1>1, <2>1, Waits
<1>6. Types' /\ Only(i) /\ ImageSound(i)'
  BY <1>1, <1>2, <1>3, <1>4, <1>5 DEF Types, Only, ImageSound
<1>7. Load(group[i], thread[i]) \in Nat
  BY <1>1, LoadType
<1>8. QED
  BY <1>2, <1>6, <1>7, StepWithin DEF Step

(* The image is over: nothing of it is alive, and all goes back. *)
LEMMA FinishStep ==
  ASSUME IInv, NEW i \in Image, Finish(i)
  PROVE  Within(i)
<1>1. /\ Types /\ Sound(image[i], permit[i], group[i], call[i], thread[i])
      /\ Typed(group[i], call[i], thread[i])
  BY ImageTyped DEF IInv, ImageSound
<1>2. /\ \/ image[i] = "early" /\ call[i]["branches"].at = "done"
         \/ image[i] = "stage" /\ call[i]["dc"].at = "done"
      /\ group' = [group EXCEPT ![i] = [k \in Stages |-> NoGroup]]
      /\ permit' = [permit EXCEPT ![i] = FALSE]
      /\ call' = [call EXCEPT ![i] = [k \in Stages |-> NoCall]]
      /\ image' = [image EXCEPT ![i] = "done"]
      /\ UNCHANGED <<queue, thread, terminated>>
  BY DEF Finish
<1> DEFINE G == [k \in Stages |-> NoGroup]
           C == [k \in Stages |-> NoCall]
<1>3. /\ G \in [Stages -> Groups] /\ C \in [Stages -> CallStates]
      /\ \A k \in Stages : G[k] = NoGroup /\ C[k] = NoCall
  BY DEF NoGroup, Groups, CallStates
<1> HIDE DEF G, C
<1>4. /\ image' \in [Image -> ImageStates] /\ image'[i] = "done"
      /\ permit' \in [Image -> BOOLEAN] /\ ~permit'[i]
      /\ group' \in [Image -> [Stages -> Groups]] /\ group'[i] = G
      /\ call' \in [Image -> [Stages -> CallStates]] /\ call'[i] = C
  BY <1>1, <1>2, <1>3 DEF Types, ImageStates, G, C
<1>5. \A j \in Image \ {i} : /\ image'[j] = image[j] /\ permit'[j] = permit[j]
                             /\ group'[j] = group[j] /\ call'[j] = call[j]
  BY <1>1, <1>2 DEF Types
<1>6. \A k \in Stages : group'[i][k] = NoGroup /\ call'[i][k] = NoCall
  BY <1>3, <1>4
<1>7. Sound("done", permit'[i], group'[i], call'[i], thread[i]) /\ SlottedOf(thread[i]) = {}
  <2>1. \/ image[i] = "early" /\ call[i]["branches"].at = "done"
        \/ image[i] = "stage" /\ call[i]["dc"].at = "done"
    BY <1>2
  <2>2. /\ \A k \in Stages : AliveOf(thread[i], k) = {}
        /\ \A t \in Threads : thread[i][t] = NoThread
    BY <1>1, <2>1, NobodyLeft
  <2>3. SlottedOf(thread[i]) = {}
    BY <1>1, <2>1, NobodyLeft
  <2>4. QED
    BY <1>6, <2>2, <2>3, Finishes
<1>8. Types' /\ Only(i) /\ ImageSound(i)'
  BY <1>1, <1>2, <1>4, <1>5, <1>7 DEF Types, Only, ImageSound
<1>9. Load(group'[i], thread'[i]) = 0
  <2>1. group'[i]["branches"] = NoGroup /\ group'[i]["dc"] = NoGroup
    BY <1>6, Layout
  <2>2. Cardinality(SlottedOf(thread[i])) = 0
    BY <1>7, FS_EmptySet
  <2>3. QED
    BY <1>2, <2>1, <2>2 DEF Load, NoGroup
<1>10. Load(group'[i], thread'[i]) <= Load(group[i], thread[i])
  BY <1>1, <1>9, LoadType
<1>11. QED
  BY <1>2, <1>4, <1>8, <1>10, StepWithin DEF Step

(* The first in the queue takes a slot, and the domain has one. *)
LEMMA AcquireStep ==
  ASSUME IInv, NEW i \in Image, Acquire(i)
  PROVE  Within(i)
<1>1. /\ Types /\ Sound(image[i], permit[i], group[i], call[i], thread[i])
      /\ Typed(group[i], call[i], thread[i]) /\ permit[i] \in BOOLEAN
  BY ImageTyped DEF IInv, ImageSound
<1>2. /\ queue # <<>> /\ Protected < Limit /\ queue' = Tail(queue)
      /\ permit' = [permit EXCEPT ![i] = TRUE]
      /\ image' = [image EXCEPT ![i] = IF @ = "queued" THEN "reserve" ELSE @]
      /\ UNCHANGED <<group, call, thread, terminated>>
  BY DEF Acquire
<1>3. /\ image' \in [Image -> ImageStates]
      /\ image'[i] = IF image[i] = "queued" THEN "reserve" ELSE image[i]
      /\ \A j \in Image \ {i} : image'[j] = image[j]
  BY <1>1, <1>2 DEF Types, ImageStates
<1>4. /\ permit' \in [Image -> BOOLEAN] /\ permit'[i]
      /\ \A j \in Image \ {i} : permit'[j] = permit[j]
  BY <1>1, <1>2 DEF Types
<1>5. queue' \in Seq(Image)
  BY <1>1, <1>2 DEF Types
<1>6. Sound(image'[i], permit'[i], group[i], call[i], thread[i])
  <2>1. CASE image[i] = "queued"
    <3>1. image'[i] = "reserve" /\ image[i] \notin {"early", "stage"}
      BY <1>3, <2>1
    <3>2. Sound("reserve", permit'[i], group[i], call[i], thread[i])
      BY <1>1, <1>4, <3>1, Waits
    <3>3. QED
      BY <3>1, <3>2
  <2>2. CASE image[i] # "queued"
    <3>1. image'[i] = image[i]
      BY <1>3, <2>2
    <3>2. QED
      BY <1>1, <1>4, <3>1, PermitChanges
  <2>3. QED
    BY <2>1, <2>2
<1>7. Types' /\ Only(i) /\ ImageSound(i)'
  BY <1>1, <1>2, <1>3, <1>4, <1>5, <1>6 DEF Types, Only, ImageSound
<1>8. 1 + Load(group'[i], thread'[i]) <= JobLimit[i]
  BY <1>2 DEF IInv, WithinLimits
<1> DEFINE a == Own(permit[i], group[i], thread[i])
           b == Own(permit'[i], group'[i], thread'[i])
           x == Load(group[i], thread[i])
           z == Limit - Protected
<1>9. a = (IF permit[i] THEN 1 ELSE 0) + x /\ a \in Nat /\ x \in Nat
  BY <1>1, OwnIs
<1>10. b = 1 + x
  <2>1. permit'[i] \in BOOLEAN
    BY <1>4
  <2>2. Own(permit'[i], group[i], thread[i]) = (IF permit'[i] THEN 1 ELSE 0) + x
    BY <1>1, <1>6, <2>1, OwnIs
  <2>3. QED
    BY <1>2, <1>4, <2>2
<1>11. z \in Nat /\ z >= 1
  BY <1>2, LimitsAssumption, ProtectedType
<1> HIDE DEF a, b, x, z
<1>12. b <= a + z
  <2>1. a >= x
    BY <1>9
  <2>2. QED
    BY <1>9, <1>10, <1>11, <2>1
<1>13. QED
  BY <1>2, <1>7, <1>8, <1>12 DEF Within, a, b, z

(* The image's own budget, by what it keeps from others *)
LEMMA JobProtectedIs ==
  ASSUME IInv, NEW i \in Image
  PROVE  JobProtected(i) = 1 + Load(group[i], thread[i]) /\ Load(group[i], thread[i]) \in Nat
<1>0. /\ Sound(image[i], permit[i], group[i], call[i], thread[i])
      /\ Typed(group[i], call[i], thread[i])
  BY ImageTyped DEF IInv, ImageSound
<1>1. /\ \A k \in Stages : group[i][k].domain \in Nat /\ group[i][k].taken \in Nat
                            /\ group[i][k].job = group[i][k].domain
      /\ Load(group[i], thread[i]) \in Nat
  BY <1>0, LoadType
<1>2. /\ group[i]["branches"].domain \in Nat /\ group[i]["branches"].taken \in Nat
      /\ group[i]["dc"].domain \in Nat /\ group[i]["dc"].taken \in Nat
      /\ group[i]["branches"].job = group[i]["branches"].domain
      /\ group[i]["dc"].job = group[i]["dc"].domain
  BY <1>1, Layout
<1> DEFINE a == group[i]["branches"].domain - group[i]["branches"].taken
           b == group[i]["dc"].domain - group[i]["dc"].taken
           d == Cardinality(SlottedOf(thread[i]))
<1>3. a \in Int /\ b \in Int /\ d \in Nat
  BY <1>2, ThreadsFinite
<1>4. Load(group[i], thread[i]) = a + b + d
  BY DEF Load
<1>5. JobProtected(i) = 1 + (a + b) + d
  BY <1>2 DEF JobProtected, Unclaimed, Slotted, SlottedOf
<1> HIDE DEF a, b, d
<1>6. QED
  BY <1>1, <1>3, <1>4, <1>5

(* CpuWorkerGroup's grant fits both budgets. *)
LEMMA GrantFits ==
  ASSUME IInv, NEW i \in Image, NEW participants \in Nat \ {0}
  PROVE  /\ Grant(i, participants) \in Nat /\ Grant(i, participants) <= participants - 1
         /\ Grant(i, participants) <= Limit - Protected
         /\ 1 + Load(group[i], thread[i]) + Grant(i, participants) <= JobLimit[i]
<1>1. Limit - Protected \in Nat /\ participants - 1 \in Nat
  BY LimitsAssumption, ProtectedType
<1>2. /\ Types /\ Sound(image[i], permit[i], group[i], call[i], thread[i])
      /\ Typed(group[i], call[i], thread[i])
  BY ImageTyped DEF IInv, ImageSound
<1>3. JobProtected(i) = 1 + Load(group[i], thread[i]) /\ Load(group[i], thread[i]) \in Nat
  BY JobProtectedIs
<1>4. 1 + Load(group[i], thread[i]) <= JobLimit[i] /\ JobLimit[i] \in Nat
  BY ProtectedType DEF IInv, WithinLimits
<1> DEFINE x == Load(group[i], thread[i])
           z == Limit - Protected
           l == JobLimit[i]
           p == participants - 1
           job == Smaller(p, l - JobProtected(i))
           n == Grant(i, participants)
<1>5. n = IF queue # <<>> THEN 0 ELSE Smaller(job, z)
  BY DEF Grant
<1>6. JobProtected(i) = 1 + x /\ x \in Nat /\ z \in Nat /\ l \in Nat /\ p \in Nat /\ 1 + x <= l
  BY <1>1, <1>3, <1>4
<1> HIDE DEF x, z, l, p, n
<1>7. job \in Nat /\ job <= p /\ 1 + x + job <= l
  BY <1>6 DEF Smaller
<1> HIDE DEF job
<1>8. n \in Nat /\ n <= p /\ n <= z /\ 1 + x + n <= l
  BY <1>5, <1>6, <1>7 DEF Smaller
<1>9. QED
  BY <1>8 DEF n, p, z, x, l

(* An image enters with groups H of n slots together, and calls D. *)
LEMMA EnterStep ==
  ASSUME IInv, NEW i \in Image, image[i] \in {"reserve", "plain"},
         NEW n \in Nat, n <= Limit - Protected,
         1 + Load(group[i], thread[i]) + n <= JobLimit[i],
         NEW N \in {"early", "stage"}, NEW H \in [Stages -> Groups], NEW D \in [Stages -> CallStates],
         \A k \in Stages : H[k].domain \in Nat /\ H[k].domain <= Width(k)
                           /\ H[k].job = H[k].domain /\ H[k].taken = 0,
         H["branches"].domain + H["dc"].domain = n,
         \A k \in Stages : D[k].at # "none" =>
           /\ D[k] \in Calls(k) /\ D[k].at \in {"serial", "launch"} /\ D[k].by = Caller
           /\ D[k].launched = 0 /\ D[k].next = 1
           /\ \A m \in Tasks(k) : D[k].runner[m] = Nobody,
         N = "stage" <=> D["branches"].at = "none",
         N = "stage" <=> D["dc"].at # "none",
         image' = [image EXCEPT ![i] = N], group' = [group EXCEPT ![i] = H],
         call' = [call EXCEPT ![i] = D], UNCHANGED <<queue, permit, thread, terminated>>
  PROVE  Within(i)
<1>1. /\ Types /\ Sound(image[i], permit[i], group[i], call[i], thread[i])
      /\ Typed(group[i], call[i], thread[i]) /\ permit[i] \in BOOLEAN
  BY ImageTyped DEF IInv, ImageSound
<1>2. N \in ImageStates
  BY DEF ImageStates
<1>3. /\ image' \in [Image -> ImageStates] /\ image'[i] = N
      /\ group' \in [Image -> [Stages -> Groups]] /\ group'[i] = H
      /\ call' \in [Image -> [Stages -> CallStates]] /\ call'[i] = D
  BY <1>1, <1>2 DEF Types
<1>4. \A j \in Image \ {i} : /\ image'[j] = image[j] /\ group'[j] = group[j]
                             /\ call'[j] = call[j]
  BY <1>1 DEF Types
<1>5. Sound(N, permit[i], H, D, thread[i])
  BY <1>1, Enters
<1>6. Types' /\ Only(i) /\ ImageSound(i)'
  BY <1>1, <1>3, <1>4, <1>5 DEF Types, Only, ImageSound
<1>7. Load(group[i], thread[i]) = Cardinality(SlottedOf(thread[i]))
  <2>1. group[i]["branches"] = NoGroup /\ group[i]["dc"] = NoGroup
    BY <1>1, Outside, Layout
  <2>2. Cardinality(SlottedOf(thread[i])) \in Nat
    BY ThreadsFinite
  <2>3. QED
    BY <2>1, <2>2 DEF Load, NoGroup
<1>8. Load(H, thread[i]) = n + Cardinality(SlottedOf(thread[i]))
  <2>1. /\ H["branches"].domain \in Nat /\ H["dc"].domain \in Nat
        /\ H["branches"].taken = 0 /\ H["dc"].taken = 0
    BY Layout
  <2>2. Cardinality(SlottedOf(thread[i])) \in Nat
    BY ThreadsFinite
  <2> DEFINE p == H["branches"].domain
             q == H["dc"].domain
             d == Cardinality(SlottedOf(thread[i]))
  <2>3. Load(H, thread[i]) = (p - 0) + (q - 0) + d /\ p \in Nat /\ q \in Nat /\ d \in Nat /\ p + q = n
    BY <2>1, <2>2 DEF Load
  <2> HIDE DEF p, q, d
  <2>4. Load(H, thread[i]) = n + d
    BY <2>3
  <2>5. QED
    BY <2>4 DEF d
<1> DEFINE a == Own(permit[i], group[i], thread[i])
           b == Own(permit[i], H, thread[i])
           o == IF permit[i] THEN 1 ELSE 0
           x == Load(group[i], thread[i])
           y == Load(H, thread[i])
           z == Limit - Protected
           l == JobLimit[i]
<1>9. a = o + x /\ x \in Nat
  BY <1>1, OwnIs
<1>10. b = o + y
  <2>1. Typed(H, D, thread[i])
    BY <1>1 DEF Typed
  <2>2. QED
    BY <1>1, <1>5, <2>1, OwnIs
<1>11. y = n + x /\ z \in Nat /\ l \in Nat /\ o \in Nat /\ n <= z /\ 1 + x + n <= l
  BY <1>7, <1>8, LimitsAssumption, ProtectedType
<1> HIDE DEF a, b, o, x, y, z, l
<1>12. b <= a + z /\ 1 + y <= l
  BY <1>9, <1>10, <1>11
<1>13. /\ Own(permit'[i], group'[i], thread'[i]) = b /\ Load(group'[i], thread'[i]) = y
       /\ terminated' = terminated
  BY <1>3 DEF b, y
<1>14. QED
  BY <1>6, <1>12, <1>13 DEF Within, a, z, l

(* The early schedule: the whole of the DC stage's workers and a branch, or nothing *)
LEMMA AdmitEarlyStep ==
  ASSUME IInv, NEW i \in Image, AdmitEarly(i)
  PROVE  Within(i)
<1> DEFINE n == Grant(i, Participants + 1)
<1>0. /\ Types /\ Sound(image[i], permit[i], group[i], call[i], thread[i])
      /\ Typed(group[i], call[i], thread[i]) /\ permit[i] \in BOOLEAN
  BY ImageTyped DEF IInv, ImageSound
<1>1. /\ image[i] = "reserve" /\ UNCHANGED <<queue, permit, thread, terminated>>
      /\ IF Participants < Ceiling /\ n = Participants
          THEN /\ group' = SplitWorkers(i, n)
               /\ call' = [call EXCEPT ![i]["branches"] = Begin("branches", Caller, 1)]
               /\ image' = [image EXCEPT ![i] = "early"]
          ELSE image' = [image EXCEPT ![i] = "plain"] /\ UNCHANGED <<group, call>>
  BY DEF AdmitEarly
<1> HIDE DEF n
<1>2. CASE Participants < Ceiling /\ n = Participants
  <2> DEFINE H == [k \in Stages |-> Slots(IF k = "branches" THEN 1 ELSE n - 1)]
             b == Begin("branches", Caller, 1)
             D == [call[i] EXCEPT !["branches"] = b]
  <2>1. /\ group' = [group EXCEPT ![i] = H] /\ call' = [call EXCEPT ![i] = D]
        /\ image' = [image EXCEPT ![i] = "early"]
    BY <1>1, <1>2 DEF SplitWorkers
  <2>2. /\ n \in Nat /\ n <= Limit - Protected
        /\ 1 + Load(group[i], thread[i]) + n <= JobLimit[i]
    <3>1. Participants + 1 \in Nat \ {0}
      BY Layout
    <3>2. QED
      BY <3>1, GrantFits DEF n
  <2>3. n >= 1 /\ n - 1 \in Nat /\ n - 1 <= Ceiling - 1
    BY <1>2, Layout
  <2>4. "branches" \in Stages /\ "dc" \in Stages /\ Stages = {"branches", "dc"}
    BY Layout
  <2>5. /\ H \in [Stages -> Groups] /\ H["branches"].domain + H["dc"].domain = n
        /\ \A k \in Stages : H[k].domain \in Nat /\ H[k].domain <= Width(k)
                           /\ H[k].job = H[k].domain /\ H[k].taken = 0
    <3>1. H["branches"] = [domain |-> 1, job |-> 1, taken |-> 0]
          /\ H["dc"] = [domain |-> n - 1, job |-> n - 1, taken |-> 0]
      BY <2>4 DEF Slots
    <3>2. H \in [Stages -> Groups]
      BY <2>3 DEF Slots, Groups
    <3> HIDE DEF H
    <3>3. H["branches"].domain + H["dc"].domain = n
      BY <2>2, <3>1
    <3>4. QED
      BY <2>3, <2>4, <3>1, <3>2, <3>3 DEF Width
  <2>6. /\ b \in Calls("branches") /\ b.at \in {"serial", "launch"} /\ b.at # "none"
        /\ b.by = Caller /\ b.launched = 0 /\ b.next = 1
        /\ \A m \in Tasks("branches") : b.runner[m] = Nobody
    BY <2>4, Begun
  <2> HIDE DEF H, b
  <2>7. call[i]["dc"].at = "none"
    BY <1>0, <1>1, <2>4, Outside
  <2>8. D \in [Stages -> CallStates] /\ D["branches"] = b /\ D["dc"] = call[i]["dc"]
    <3>1. b \in CallStates
      BY <2>6 DEF CallStates
    <3>2. QED
      BY <1>0, <2>4, <3>1 DEF Typed
  <2> HIDE DEF D
  <2>9. \A k \in Stages : D[k].at # "none" =>
           /\ D[k] \in Calls(k) /\ D[k].at \in {"serial", "launch"} /\ D[k].by = Caller
           /\ D[k].launched = 0 /\ D[k].next = 1
           /\ \A m \in Tasks(k) : D[k].runner[m] = Nobody
    BY <2>4, <2>6, <2>7, <2>8
  <2>10. D["branches"].at # "none" /\ D["dc"].at = "none"
    BY <2>6, <2>7, <2>8
  <2>11. /\ image[i] \in {"reserve", "plain"}
         /\ "early" = "stage" <=> D["branches"].at = "none"
         /\ "early" = "stage" <=> D["dc"].at # "none"
    BY <1>1, <2>10
  <2>12. UNCHANGED <<queue, permit, thread, terminated>>
    BY <1>1
  <2>13. QED
    BY <2>1, <2>2, <2>5, <2>8, <2>9, <2>11, <2>12, EnterStep
<1>3. CASE ~(Participants < Ceiling /\ n = Participants)
  <2>1. image' = [image EXCEPT ![i] = "plain"] /\ UNCHANGED <<group, call>>
    BY <1>1, <1>3
  <2>2. /\ image' \in [Image -> ImageStates] /\ image'[i] = "plain"
        /\ \A j \in Image \ {i} : image'[j] = image[j]
    BY <1>0, <2>1 DEF Types, ImageStates
  <2>3. image[i] \notin {"early", "stage"} /\ permit[i]
    BY <1>0, <1>1, Outside
  <2>4. Sound("plain", permit[i], group[i], call[i], thread[i])
    BY <1>0, <2>3, Waits
  <2>5. Types' /\ Only(i) /\ ImageSound(i)'
    BY <1>0, <1>1, <2>1, <2>2, <2>4 DEF Types, Only, ImageSound
  <2>6. Load(group[i], thread[i]) \in Nat
    BY <1>0, LoadType
  <2>7. QED
    BY <1>1, <2>1, <2>5, <2>6, StepWithin DEF Step
<1>4. QED
  BY <1>2, <1>3

(* A stage of its own, with the workers that are to be had *)
LEMMA StartStageStep ==
  ASSUME IInv, NEW i \in Image, StartStage(i)
  PROVE  Within(i)
<1> DEFINE n == Grant(i, Smaller(Ceiling, Count))
           H == [group[i] EXCEPT !["dc"] = Slots(n)]
           b == Begin("dc", Caller, n)
           D == [call[i] EXCEPT !["dc"] = b]
<1>0. /\ Types /\ Sound(image[i], permit[i], group[i], call[i], thread[i])
      /\ Typed(group[i], call[i], thread[i])
  BY ImageTyped DEF IInv, ImageSound
<1>1. /\ image[i] = "plain" /\ UNCHANGED <<queue, permit, thread, terminated>>
      /\ group' = [group EXCEPT ![i] = H] /\ call' = [call EXCEPT ![i] = D]
      /\ image' = [image EXCEPT ![i] = "stage"]
  BY DEF StartStage
<1>2. /\ n \in Nat /\ n <= Smaller(Ceiling, Count) - 1 /\ n <= Limit - Protected
      /\ 1 + Load(group[i], thread[i]) + n <= JobLimit[i]
  <2>1. Smaller(Ceiling, Count) \in Nat \ {0}
    BY Layout DEF Smaller
  <2> DEFINE w == Smaller(Ceiling, Count)
  <2> HIDE DEF w
  <2>2. w \in Nat \ {0}
    BY <2>1 DEF w
  <2>3. /\ Grant(i, w) \in Nat /\ Grant(i, w) <= w - 1 /\ Grant(i, w) <= Limit - Protected
        /\ 1 + Load(group[i], thread[i]) + Grant(i, w) <= JobLimit[i]
    BY <2>2, GrantFits
  <2>4. QED
    BY <2>3 DEF w
<1> HIDE DEF n
<1>3. n <= Ceiling - 1
  BY <1>2, Layout DEF Smaller
<1>4. "branches" \in Stages /\ "dc" \in Stages /\ Stages = {"branches", "dc"}
  BY Layout
<1>5. group[i]["branches"] = NoGroup /\ call[i]["branches"].at = "none"
  BY <1>0, <1>1, <1>4, Outside
<1>6. /\ H \in [Stages -> Groups] /\ H["branches"].domain + H["dc"].domain = n
      /\ \A k \in Stages : H[k].domain \in Nat /\ H[k].domain <= Width(k)
                           /\ H[k].job = H[k].domain /\ H[k].taken = 0
  <2>1. H["branches"] = [domain |-> 0, job |-> 0, taken |-> 0]
        /\ H["dc"] = [domain |-> n, job |-> n, taken |-> 0]
    BY <1>0, <1>4, <1>5 DEF Slots, NoGroup, Typed
  <2>2. H \in [Stages -> Groups]
    BY <1>0, <1>2 DEF Slots, Groups, Typed
  <2> HIDE DEF H
  <2>3. H["branches"].domain + H["dc"].domain = n
    BY <1>2, <2>1
  <2>4. QED
    BY <1>2, <1>3, <1>4, <2>1, <2>2, <2>3 DEF Width
<1>7. /\ b \in Calls("dc") /\ b.at \in {"serial", "launch"} /\ b.at # "none"
      /\ b.by = Caller /\ b.launched = 0 /\ b.next = 1
      /\ \A m \in Tasks("dc") : b.runner[m] = Nobody
  BY <1>4, Begun
<1> HIDE DEF H, b
<1>8. D \in [Stages -> CallStates] /\ D["dc"] = b /\ D["branches"] = call[i]["branches"]
  <2>1. b \in CallStates
    BY <1>7 DEF CallStates
  <2>2. QED
    BY <1>0, <1>4, <2>1 DEF Typed
<1> HIDE DEF D
<1>9. \A k \in Stages : D[k].at # "none" =>
         /\ D[k] \in Calls(k) /\ D[k].at \in {"serial", "launch"} /\ D[k].by = Caller
         /\ D[k].launched = 0 /\ D[k].next = 1
         /\ \A m \in Tasks(k) : D[k].runner[m] = Nobody
  BY <1>4, <1>5, <1>7, <1>8
<1>10. D["dc"].at # "none" /\ D["branches"].at = "none"
  BY <1>5, <1>7, <1>8
<1>11. QED
  BY <1>1, <1>2, <1>6, <1>8, <1>9, <1>10, EnterStep

-------------------------------------------------------------------------------
(* In the first state no image has begun. *)
LEMMA InitIInv == Init => IInv
<1> SUFFICES ASSUME Init PROVE IInv
  OBVIOUS
<1>0. "branches" \in Stages /\ "dc" \in Stages
  BY Layout
<1>1. /\ NoGroup \in Groups /\ NoCall \in CallStates /\ NoThread \in ThreadStates
      /\ NoCall.at = "none" /\ NoThread.at = "none" /\ NoThread.slot = "none"
      /\ NoGroup.domain = 0 /\ NoGroup.taken = 0 /\ NoGroup.job = 0
  BY DEF NoGroup, Groups, CallStates, ThreadStates, NoCall, NoThread
<1>2. Types
  BY <1>1 DEF Init, Types, ImageStates
<1>3. \A i \in Image :
        /\ image[i] = "start" /\ permit[i] = FALSE
        /\ \A k \in Stages : group[i][k] = NoGroup /\ call[i][k] = NoCall
        /\ \A t \in Threads : thread[i][t] = NoThread
  BY DEF Init
<1>4. \A i \in Image : SlottedOf(thread[i]) = {} /\ Cardinality(SlottedOf(thread[i])) = 0
  <2> TAKE i \in Image
  <2>1. SlottedOf(thread[i]) = {}
    BY <1>1, <1>3 DEF SlottedOf
  <2>2. QED
    BY <2>1, FS_EmptySet
<1>5. ASSUME NEW i \in Image PROVE ImageSound(i)
  <2>1. \A k \in Stages : AliveOf(thread[i], k) = {} /\ StartingOf(thread[i], k) = {}
    BY <1>1, <1>3, Layout DEF AliveOf, StartingOf
  <2>2. Entered(image[i], group[i], call[i])
    BY <1>1, <1>3 DEF Entered
  <2>3. AliveAreLaunched(call[i], thread[i])
    BY <1>3, <2>1, Layout DEF AliveAreLaunched
  <2>4. GroupsSuffice(image[i], group[i], call[i], thread[i])
    <3>1. \A k \in Stages : 0 <= Width(k)
      BY Layout DEF Width
    <3>2. QED
      BY <1>1, <1>3, <3>1 DEF GroupsSuffice
  <2>5. RunnersInLoop(call[i], thread[i])
    BY <1>1, <1>3 DEF RunnersInLoop
  <2>6. SuspendedJoin(image[i], permit[i], call[i], thread[i])
    BY <1>1, <1>3 DEF SuspendedJoin
  <2>7. QED
    BY <1>1, <1>3, <2>2, <2>3, <2>4, <2>5, <2>6 DEF ImageSound, Sound
<1>6. \A i \in Image : Load(group[i], thread[i]) = 0 /\ Own(permit[i], group[i], thread[i]) = 0
  <2> TAKE i \in Image
  <2>1. group[i]["branches"] = NoGroup /\ group[i]["dc"] = NoGroup /\ ~permit[i]
    BY <1>0, <1>3
  <2>2. QED
    BY <1>1, <1>4, <2>1 DEF Load, Own
<1>7. Protected <= Limit
  <2> DEFINE f == OwnAll(permit, group, thread)
  <2>1. \A i \in Image : f[i] = 0
    BY <1>6 DEF OwnAll
  <2> DEFINE P == {s \in SUBSET Image : SumOver(f, s) = 0}
  <2>2. {} \in P
    BY SumEmpty
  <2> HIDE DEF f
  <2>3. ASSUME NEW s \in SUBSET Image, NEW x \in s, s \ {x} \in P PROVE s \in P
    <3>1. IsFiniteSet(s)
      BY LimitsAssumption, FS_Subset
    <3>2. SumOver(f, s) = f[x] + SumOver(f, s \ {x})
      BY <2>1, <3>1, SumRemove
    <3>3. QED
      BY <2>1, <2>3, <3>2
  <2> HIDE DEF P
  <2>4. SUBSET Image \subseteq P
    BY <2>2, <2>3, LimitsAssumption, ElementInduction
  <2>5. SumOver(f, Image) = 0
    BY <2>4 DEF P
  <2>6. Protected = 0
    BY <2>5, ProtectedIs DEF f
  <2>7. QED
    BY <2>6, Layout
<1>8. \A i \in Image : 1 + Load(group[i], thread[i]) <= JobLimit[i]
  BY <1>6, LimitsAssumption
<1>9. QED
  BY <1>2, <1>5, <1>7, <1>8 DEF IInv, WithinLimits, Init

(* Every step preserves the invariant. *)
LEMMA NextIInv == IInv /\ [Next]_vars => IInv'
<1> SUFFICES ASSUME IInv, [Next]_vars PROVE IInv'
  OBVIOUS
<1>1. ASSUME NEW i \in Image, Admission(i) PROVE IInv'
  <2>1. Within(i)
    BY <1>1, StartStep, AcquireStep, AdmitEarlyStep, StartStageStep, FinishStep DEF Admission
  <2>2. QED
    BY <2>1, Preserved
<1>2. ASSUME NEW i \in Image, Step(i) PROVE IInv'
  BY <1>2, StepWithin, Preserved
<1>3. ASSUME NEW i \in Image, RunSerially(i) PROVE IInv'
  BY <1>2, <1>3, RunSeriallyStep
<1>4. ASSUME NEW i \in Image, NEW k \in Stages, CallingThread(i, k) PROVE IInv'
  BY <1>2, <1>4, LaunchStep, LaunchFailsStep, ParticipateStep, JoinAfterLoopStep, ResumeStep,
     ConcludeStep DEF CallingThread
<1>5. ASSUME NEW i \in Image, NEW t \in Threads, Thread(i, t) PROVE IInv'
  <2>1. CASE t # Caller /\ Take(i, t)
    <3>1. t \in Threads \ {Caller}
      BY <2>1
    <3>2. QED
      BY <1>2, <2>1, <3>1, TakeStep
  <2>2. ASSUME NEW k \in Stages, FetchTask(i, k, t) \/ FinishTask(i, k, t) \/ Exit(i, k, t)
        PROVE  IInv'
    BY <1>2, <2>2, FetchTaskStep, FinishTaskStep, ExitStep
  <2>3. QED
    BY <1>5, <2>1, <2>2 DEF Thread
<1>6. CASE UNCHANGED vars
  BY <1>6 DEF vars, IInv, Types, ImageSound, WithinLimits, Protected, Holds, Unclaimed, Slotted
<1>7. QED
  BY <1>1, <1>3, <1>4, <1>5, <1>6 DEF Next

(* The invariant holds throughout: what every image has launched, joined and *)
(* holds of the budgets is consistent, whatever the number of images, tasks   *)
(* and slots.                                                              *)
THEOREM Invariance == Spec => []IInv
<1>1. Init => IInv
  BY InitIInv
<1>2. IInv /\ [Next]_vars => IInv'
  BY NextIInv
<1>3. QED
  BY <1>1, <1>2, PTL DEF Spec

(* A call that returned left no thread behind and ran what its result says. *)
LEMMA CallIsOverHolds == IInv => CallIsOver
<1> SUFFICES ASSUME IInv, NEW i \in Image, NEW k \in Stages, call[i][k].at = "done"
             PROVE  /\ Alive(i, k) = {}
                    /\ \A n \in Tasks(k) : call[i][k].runner[n] = Nobody
                    /\ call[i][k].result = "ok" => \A n \in Tasks(k) : call[i][k].status[n] = "ok"
                    /\ call[i][k].result = "error" => \E n \in Tasks(k) : call[i][k].status[n] = "error"
  BY DEF CallIsOver
<1>1. Accounted(k, call[i][k])
  BY RunningCall
<1>2. AliveOf(thread[i], k) = {}
  BY DEF IInv, ImageSound, Sound, AliveAreLaunched, Unjoined, Joins
<1>3. \A n \in Tasks(k) : call[i][k].runner[n] = Nobody
  BY <1>2, NoRunner
<1>4. QED
  BY <1>1, <1>2, <1>3 DEF Accounted, Alive, AliveOf

(* A thread that holds a task runs on a slot, or waits in a join for others that do. *)
LEMMA RunnerAdmitted ==
  ASSUME IInv, NEW i \in Image, NEW t \in Threads, NEW k \in Stages,
         call[i][k].at # "none", Running(i, k, t) # {}
  PROVE  \/ Participates(i, t)
         \/ \E nested \in Stages \ {k} : call[i][nested].at # "none" /\ call[i][nested].by = t
<1>1. /\ Sound(image[i], permit[i], group[i], call[i], thread[i])
      /\ Typed(group[i], call[i], thread[i])
  BY ImageTyped DEF IInv, ImageSound
<1>2. PICK n \in Tasks(k) : call[i][k].runner[n] = t
  BY DEF Running
<1>3. t # Nobody
  BY Layout
<1>4. RunsIn(k, call[i][k], thread[i], t)
  BY <1>1, <1>2, <1>3 DEF Sound, RunnersInLoop
<1>5. CASE t \in Workers(k) /\ thread[i][t].at = "loop"
  <2>1. t # Caller
    BY <1>5, Layout
  <2>2. thread[i][t].slot \in {"active", "suspended"}
    <3>1. thread[i][t] \in ThreadStates
      BY <1>1 DEF Typed
    <3>2. QED
      BY <1>5, <3>1, ThreadFields
  <2>3. CASE thread[i][t].slot = "active"
    BY <2>1, <2>3 DEF Participates
  <2>4. CASE thread[i][t].slot = "suspended"
    <3>1. t = Branch /\ call[i]["dc"].at \in Joins /\ call[i]["dc"].by = t
      BY <1>1, <2>4 DEF Sound, SuspendedJoin
    <3>2. k # "dc" /\ "dc" \in Stages
      BY <1>5, <3>1, Layout
    <3>3. QED
      BY <3>1, <3>2 DEF Joins
  <2>5. QED
    BY <2>2, <2>3, <2>4
<1>6. CASE t = call[i][k].by /\ call[i][k].at = "loop"
  <2>1. CASE t = Caller
    <3>1. CASE permit[i]
      BY <2>1, <3>1 DEF Participates
    <3>2. CASE ~permit[i]
      <4>1. image[i] \in {"early", "stage"}
        BY <1>6, RunningCall
      <4>2. PICK m \in Stages : call[i][m].at \in Joins /\ call[i][m].by = Caller
        BY <1>1, <3>2, <4>1 DEF Sound, SuspendedJoin
      <4>3. m # k /\ call[i][m].at # "none"
        BY <1>6, <4>2 DEF Joins
      <4>4. QED
        BY <2>1, <4>2, <4>3
    <3>3. QED
      BY <3>1, <3>2
  <2>2. CASE t # Caller
    <3>1. k = "dc" /\ t = Branch /\ thread[i][t].slot \in {"active", "suspended"}
      BY <1>6, <2>2, NestedCaller
    <3>2. thread[i][t].slot # "suspended"
      BY <1>1, <1>6, <3>1 DEF Sound, SuspendedJoin, Joins
    <3>3. QED
      BY <2>2, <3>1, <3>2 DEF Participates
  <2>3. QED
    BY <2>1, <2>2
<1>7. QED
  BY <1>4, <1>5, <1>6 DEF RunsIn

(* Nothing that was not admitted runs. *)
LEMMA OnlyAdmittedHolds == IInv => OnlyAdmittedThreadsRun
<1> SUFFICES ASSUME IInv PROVE OnlyAdmittedThreadsRun
  OBVIOUS
<1>1. ~terminated /\ Protected <= Limit
  BY DEF IInv, WithinLimits
<1>2. ASSUME NEW i \in Image PROVE JobProtected(i) <= JobLimit[i]
  <2>1. JobProtected(i) = 1 + Load(group[i], thread[i])
    BY JobProtectedIs
  <2>2. QED
    BY <2>1 DEF IInv, WithinLimits
<1>3. QED
  BY <1>1, <1>2, RunnerAdmitted DEF OnlyAdmittedThreadsRun

(* A call of RunParallelWork that returned is over, for all its threads and tasks. *)
THEOREM ReturnedCallsAreOver == Spec => []CallIsOver
BY Invariance, CallIsOverHolds, PTL

(* The budgets hold, no worker finds its slot gone, and what runs has a slot. *)
THEOREM RunningIsAdmitted == Spec => []OnlyAdmittedThreadsRun
BY Invariance, OnlyAdmittedHolds, PTL
===============================================================================
