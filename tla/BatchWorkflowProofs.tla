------------------------- MODULE BatchWorkflowProofs -------------------------
(***************************************************************************)
(* Theorems on the batch driver, for any number of callers, workers, jobs   *)
(* and slots and for any request arrays: its books, who holds what while    *)
(* waiting, that each image is encoded once, and that it implements the     *)
(* abstract driver.                                                         *)
(***************************************************************************)
EXTENDS BatchWorkflow, FiniteSetTheorems, TLAPS

-----------------------------------------------------------------------------
(* Types.  That remaining_workers_ is not decremented below zero rests on   *)
(* the driver's books, and that no more than Slots participate on the       *)
(* admission of each: both come later.                                      *)
CallType == [at : CallAt, asked : Batches \cup {<<>>},
             answer : {"none", "unavailable", "error", "published", "closed"},
             results : Seq(Results), inside : BOOLEAN, closed : BOOLEAN]
WorkerType == [at : InBatch \cup {"awake", "asleep", "gone"},
               seen : 0 .. Wrap - 1, index : Nat]

Types ==
  /\ closing \in BOOLEAN /\ stopping \in BOOLEAN
  /\ driver \in Callers \cup {None}
  /\ generation \in 0 .. Wrap - 1 /\ remaining \in Int
  /\ in_flight \in 0 .. MaxInFlight /\ next_index \in Nat /\ terminal \in Nat
  /\ status \in Seq(Results)
  /\ call \in [Callers -> CallType]
  /\ worker \in [Workers -> WorkerType]
  /\ job \in [Jobs -> {"outside", "start", "encode", "blocked", "again"}]
  /\ memory \in Callers \cup Jobs \cup {None}

LEMMA Wrapping == (generation \in 0 .. Wrap - 1) =>
                    /\ (generation + 1) % Wrap \in 0 .. Wrap - 1
                    /\ (generation + 1) % Wrap # generation
<1> SUFFICES ASSUME generation \in 0 .. Wrap - 1
             PROVE  /\ (generation + 1) % Wrap \in 0 .. Wrap - 1
                    /\ (generation + 1) % Wrap # generation
  OBVIOUS
<1>1. Wrap \in Nat /\ Wrap > 1
  BY BatchAssumption
<1>2. CASE generation + 1 < Wrap
  <2>1. (generation + 1) % Wrap = generation + 1
    BY <1>1, <1>2
  <2> QED  BY <1>1, <1>2, <2>1
<1>3. CASE generation + 1 = Wrap
  <2>1. (generation + 1) % Wrap = 0
    BY <1>1, <1>3
  <2> QED  BY <1>1, <1>3, <2>1
<1> QED
  BY <1>1, <1>2, <1>3

LEMMA PlannedType ==
  ASSUME NEW batch \in Batches \cup {<<>>}
  PROVE  /\ Planned(batch) \in Seq(Results) /\ Len(Planned(batch)) = Len(batch)
         /\ DOMAIN Planned(batch) = 1 .. Len(batch)
         /\ Len(batch) \in Nat /\ batch \in Seq({"good", "bad"})
         /\ WorkSlots(batch) \subseteq 0 .. MaxInFlight
<1>1. batch \in Seq({"good", "bad"}) /\ Len(batch) \in Nat
  <2>1. CASE batch \in Batches
    BY <2>1, BatchAssumption
  <2>2. CASE batch = <<>>
    BY <2>2
  <2> QED  BY <2>1, <2>2
<1>2. \A i \in 1 .. Len(batch) : (IF batch[i] = "good" THEN "pending" ELSE "invalid") \in Results
  BY DEF Results
<1>3. Planned(batch) \in Seq(Results) /\ Len(Planned(batch)) = Len(batch)
  BY <1>1, <1>2 DEF Planned
<1>4. WorkSlots(batch) \subseteq 0 .. MaxInFlight
  BY BatchAssumption DEF WorkSlots
<1> QED
  BY <1>1, <1>3, <1>4 DEF Planned

(* The records of the callers, field by field.                              *)
LEMMA CallerTypes ==
  ASSUME NEW r \in CallType
  PROVE  /\ r.at \in CallAt /\ r.asked \in Batches \cup {<<>>} /\ r.results \in Seq(Results)
         /\ r.answer \in {"none", "unavailable", "error", "published", "closed"}
         /\ r.inside \in BOOLEAN /\ r.closed \in BOOLEAN
<1> QED  BY DEF CallType

(* [call[d]] after the step differs from before in nothing but "at".        *)
Moves(c, place) ==
  \A d \in Callers : /\ call'[d].at = (IF d = c THEN place ELSE call[d].at)
                     /\ call'[d].asked = call[d].asked /\ call'[d].answer = call[d].answer
                     /\ call'[d].results = call[d].results
                     /\ call'[d].inside = call[d].inside /\ call'[d].closed = call[d].closed

LEMMA GoesToMoves ==
  ASSUME Types, NEW c \in Callers, NEW place \in CallAt, GoesTo(c, place)
  PROVE  call' \in [Callers -> CallType] /\ Moves(c, place)
<1>1. call \in [Callers -> CallType] /\ call' = [call EXCEPT ![c].at = place]
  BY DEF Types, GoesTo
<1>2. [call[c] EXCEPT !.at = place] \in CallType
  BY <1>1 DEF CallType
<1>3. call' \in [Callers -> CallType]
  BY <1>1, <1>2
<1>4. \A d \in Callers : call'[d] = IF d = c THEN [call[c] EXCEPT !.at = place] ELSE call[d]
  BY <1>1
<1>5. /\ [call[c] EXCEPT !.at = place].at = place
      /\ [call[c] EXCEPT !.at = place].asked = call[c].asked
      /\ [call[c] EXCEPT !.at = place].answer = call[c].answer
      /\ [call[c] EXCEPT !.at = place].results = call[c].results
      /\ [call[c] EXCEPT !.at = place].inside = call[c].inside
      /\ [call[c] EXCEPT !.at = place].closed = call[c].closed
  BY <1>1 DEF CallType
<1> QED
  BY <1>3, <1>4, <1>5 DEF Moves

Ends(c, answer, results) ==
  \A d \in Callers : /\ call'[d].at = (IF d = c THEN "returned" ELSE call[d].at)
                     /\ call'[d].answer = (IF d = c THEN answer ELSE call[d].answer)
                     /\ call'[d].results = (IF d = c THEN results ELSE call[d].results)
                     /\ call'[d].asked = call[d].asked
                     /\ call'[d].inside = call[d].inside /\ call'[d].closed = call[d].closed

LEMMA ReturnsEnds ==
  ASSUME Types, NEW c \in Callers,
         NEW answer \in {"none", "unavailable", "error", "published", "closed"},
         NEW results \in Seq(Results), Returns(c, answer, results)
  PROVE  /\ call' \in [Callers -> CallType] /\ Ends(c, answer, results)
         /\ cpu' = cpu \ {c}
         /\ memory' = (IF memory = c THEN None ELSE memory)
         /\ driver' = (IF driver = c THEN None ELSE driver)
<1> DEFINE r == [call[c] EXCEPT !.at = "returned", !.answer = answer, !.results = results]
<1>1. call \in [Callers -> CallType] /\ call' = [call EXCEPT ![c] = r]
  BY DEF Types, Returns
<1>2. r \in CallType
  BY <1>1 DEF CallType, CallAt
<1>3. /\ r.at = "returned" /\ r.answer = answer /\ r.results = results
      /\ r.asked = call[c].asked /\ r.inside = call[c].inside /\ r.closed = call[c].closed
  BY <1>1 DEF CallType
<1> HIDE DEF r
<1>4. /\ call' \in [Callers -> CallType]
      /\ \A d \in Callers : call'[d] = IF d = c THEN r ELSE call[d]
  BY <1>1, <1>2
<1> QED
  BY <1>3, <1>4 DEF Ends, Returns, Drop

(* The other ways in which a caller's record changes.                       *)
LEMMA EncodeCall ==
  ASSUME Types, NEW c \in Callers, NEW b \in Batches, Encode(c, b)
  PROVE  /\ call' \in [Callers -> CallType]
         /\ \A d \in Callers :
              /\ call'[d].at = (IF d = c THEN "arriving" ELSE call[d].at)
              /\ call'[d].asked = (IF d = c THEN b ELSE call[d].asked)
              /\ call'[d].answer = call[d].answer
              /\ call'[d].results = call[d].results
              /\ call'[d].inside = call[d].inside
              /\ call'[d].closed = call[d].closed
<1> DEFINE r == [call[c] EXCEPT !.at = "arriving", !.asked = b]
<1>1. call \in [Callers -> CallType] /\ call' = [call EXCEPT ![c] = r]
  BY DEF Types, Encode
<1>2. call[c] \in CallType
  BY <1>1
<1>3. r \in CallType
  BY <1>2 DEF CallType, CallAt
<1>4. /\ r.at = "arriving" /\ r.asked = b /\ r.answer = call[c].answer
      /\ r.results = call[c].results /\ r.inside = call[c].inside
      /\ r.closed = call[c].closed
  BY <1>2 DEF CallType
<1> HIDE DEF r
<1>5. /\ call' \in [Callers -> CallType]
      /\ \A d \in Callers : call'[d] = IF d = c THEN r ELSE call[d]
  BY <1>1, <1>3
<1> QED
  BY <1>4, <1>5

LEMMA LeaveCall ==
  ASSUME Types, NEW c \in Callers, Leave(c)
  PROVE  /\ call' \in [Callers -> CallType]
         /\ \A d \in Callers :
              /\ call'[d].at = (IF d = c THEN "outside" ELSE call[d].at)
              /\ call'[d].asked = (IF d = c THEN <<>> ELSE call[d].asked)
              /\ call'[d].answer = (IF d = c THEN "none" ELSE call[d].answer)
              /\ call'[d].results = (IF d = c THEN <<>> ELSE call[d].results)
              /\ call'[d].inside = call[d].inside
              /\ call'[d].closed = call[d].closed
<1> DEFINE r == [Outside EXCEPT !.inside = call[c].inside, !.closed = call[c].closed]
<1>1. call \in [Callers -> CallType] /\ call' = [call EXCEPT ![c] = r]
  BY DEF Types, Leave
<1>2. call[c] \in CallType
  BY <1>1
<1>3. r \in CallType
  <2>1. Outside \in CallType
    BY DEF CallType, CallAt, Outside
  <2>2. /\ call[c].inside \in BOOLEAN /\ call[c].closed \in BOOLEAN
    BY <1>2 DEF CallType
  <2> QED  BY <2>1, <2>2 DEF CallType
<1>4. /\ r.at = "outside" /\ r.asked = <<>> /\ r.answer = "none" /\ r.results = <<>>
      /\ r.inside = call[c].inside /\ r.closed = call[c].closed
  BY <1>2 DEF CallType, Outside
<1> HIDE DEF r
<1>5. /\ call' \in [Callers -> CallType]
      /\ \A d \in Callers : call'[d] = IF d = c THEN r ELSE call[d]
  BY <1>1, <1>3
<1> QED
  BY <1>4, <1>5

LEMMA EnterScopeCall ==
  ASSUME Types, NEW c \in Callers, EnterScope(c)
  PROVE  /\ call' \in [Callers -> CallType]
         /\ \A d \in Callers :
              /\ call'[d].at = call[d].at
              /\ call'[d].asked = call[d].asked
              /\ call'[d].answer = call[d].answer
              /\ call'[d].results = call[d].results
              /\ call'[d].inside = (IF d = c THEN TRUE ELSE call[d].inside)
              /\ call'[d].closed = call[d].closed
<1> DEFINE r == [call[c] EXCEPT !.inside = TRUE]
<1>1. call \in [Callers -> CallType] /\ call' = [call EXCEPT ![c] = r]
  BY DEF Types, EnterScope
<1>2. call[c] \in CallType
  BY <1>1
<1>3. r \in CallType
  BY <1>2 DEF CallType, CallAt
<1>4. /\ r.at = call[c].at /\ r.asked = call[c].asked /\ r.answer = call[c].answer
      /\ r.results = call[c].results /\ r.inside = TRUE /\ r.closed = call[c].closed
  BY <1>2 DEF CallType
<1> HIDE DEF r
<1>5. /\ call' \in [Callers -> CallType]
      /\ \A d \in Callers : call'[d] = IF d = c THEN r ELSE call[d]
  BY <1>1, <1>3
<1> QED
  BY <1>4, <1>5

LEMMA LeaveScopeCall ==
  ASSUME Types, NEW c \in Callers, LeaveScope(c)
  PROVE  /\ call' \in [Callers -> CallType]
         /\ \A d \in Callers :
              /\ call'[d].at = call[d].at
              /\ call'[d].asked = call[d].asked
              /\ call'[d].answer = call[d].answer
              /\ call'[d].results = call[d].results
              /\ call'[d].inside = (IF d = c THEN FALSE ELSE call[d].inside)
              /\ call'[d].closed = call[d].closed
<1> DEFINE r == [call[c] EXCEPT !.inside = FALSE]
<1>1. call \in [Callers -> CallType] /\ call' = [call EXCEPT ![c] = r]
  BY DEF Types, LeaveScope
<1>2. call[c] \in CallType
  BY <1>1
<1>3. r \in CallType
  BY <1>2 DEF CallType, CallAt
<1>4. /\ r.at = call[c].at /\ r.asked = call[c].asked /\ r.answer = call[c].answer
      /\ r.results = call[c].results /\ r.inside = FALSE /\ r.closed = call[c].closed
  BY <1>2 DEF CallType
<1> HIDE DEF r
<1>5. /\ call' \in [Callers -> CallType]
      /\ \A d \in Callers : call'[d] = IF d = c THEN r ELSE call[d]
  BY <1>1, <1>3
<1> QED
  BY <1>4, <1>5

LEMMA ShutdownCall ==
  ASSUME Types, NEW c \in Callers, Shutdown(c)
  PROVE  /\ call' \in [Callers -> CallType]
         /\ \A d \in Callers :
              /\ call'[d].at = (IF d = c THEN "closing" ELSE call[d].at)
              /\ call'[d].asked = call[d].asked
              /\ call'[d].answer = call[d].answer
              /\ call'[d].results = call[d].results
              /\ call'[d].inside = call[d].inside
              /\ call'[d].closed = (IF d = c THEN TRUE ELSE call[d].closed)
<1> DEFINE r == [call[c] EXCEPT !.at = "closing", !.closed = TRUE]
<1>1. call \in [Callers -> CallType] /\ call' = [call EXCEPT ![c] = r]
  BY DEF Types, Shutdown
<1>2. call[c] \in CallType
  BY <1>1
<1>3. r \in CallType
  BY <1>2 DEF CallType, CallAt
<1>4. /\ r.at = "closing" /\ r.asked = call[c].asked /\ r.answer = call[c].answer
      /\ r.results = call[c].results /\ r.inside = call[c].inside /\ r.closed = TRUE
  BY <1>2 DEF CallType
<1> HIDE DEF r
<1>5. /\ call' \in [Callers -> CallType]
      /\ \A d \in Callers : call'[d] = IF d = c THEN r ELSE call[d]
  BY <1>1, <1>3
<1> QED
  BY <1>4, <1>5

LEMMA JoinCall ==
  ASSUME Types, NEW c \in Callers, Join(c)
  PROVE  /\ call' \in [Callers -> CallType]
         /\ \A d \in Callers :
              /\ call'[d].at = (IF d = c
                                  THEN (IF call[c].inside THEN "rejoin" ELSE "returned")
                                  ELSE call[d].at)
              /\ call'[d].asked = call[d].asked
              /\ call'[d].answer = (IF d # c THEN call[d].answer
                                      ELSE IF call[c].inside THEN "none" ELSE "closed")
              /\ call'[d].results = call[d].results
              /\ call'[d].inside = call[d].inside
              /\ call'[d].closed = call[d].closed
<1> DEFINE r == [call[c] EXCEPT !.at = IF call[c].inside THEN "rejoin" ELSE "returned",
                                !.answer = IF call[c].inside THEN "none" ELSE "closed"]
<1>1. call \in [Callers -> CallType] /\ call' = [call EXCEPT ![c] = r]
  BY DEF Types, Join
<1>2. call[c] \in CallType
  BY <1>1
<1>3. r \in CallType
  BY <1>2 DEF CallType, CallAt
<1>4. /\ r.at = (IF call[c].inside THEN "rejoin" ELSE "returned")
      /\ r.asked = call[c].asked
      /\ r.answer = (IF call[c].inside THEN "none" ELSE "closed") /\ r.results = call[c].results
      /\ r.inside = call[c].inside /\ r.closed = call[c].closed
  BY <1>2 DEF CallType
<1> HIDE DEF r
<1>5. /\ call' \in [Callers -> CallType]
      /\ \A d \in Callers : call'[d] = IF d = c THEN r ELSE call[d]
  BY <1>1, <1>3
<1> QED
  BY <1>4, <1>5

LEMMA RejoinCall ==
  ASSUME Types, NEW c \in Callers, Rejoin(c)
  PROVE  /\ call' \in [Callers -> CallType]
         /\ \A d \in Callers :
              /\ call'[d].at = (IF d = c THEN "returned" ELSE call[d].at)
              /\ call'[d].asked = call[d].asked
              /\ call'[d].answer = (IF d = c THEN "closed" ELSE call[d].answer)
              /\ call'[d].results = call[d].results
              /\ call'[d].inside = call[d].inside
              /\ call'[d].closed = call[d].closed
<1> DEFINE r == [call[c] EXCEPT !.at = "returned", !.answer = "closed"]
<1>1. call \in [Callers -> CallType] /\ call' = [call EXCEPT ![c] = r]
  BY DEF Types, Rejoin
<1>2. call[c] \in CallType
  BY <1>1
<1>3. r \in CallType
  BY <1>2 DEF CallType, CallAt
<1>4. /\ r.at = "returned" /\ r.asked = call[c].asked
      /\ r.answer = "closed" /\ r.results = call[c].results
      /\ r.inside = call[c].inside /\ r.closed = call[c].closed
  BY <1>2 DEF CallType
<1> HIDE DEF r
<1>5. /\ call' \in [Callers -> CallType]
      /\ \A d \in Callers : call'[d] = IF d = c THEN r ELSE call[d]
  BY <1>1, <1>3
<1> QED
  BY <1>4, <1>5

LEMMA LeaveBatchCall ==
  ASSUME Types, NEW w \in Workers, LeaveBatch(w)
  PROVE  /\ call' \in [Callers -> CallType]
         /\ \A d \in Callers :
              /\ call'[d].at = (IF remaining' = 0 /\ call[d].at = "asleep"
                                  THEN "wait"
                                  ELSE call[d].at)
              /\ call'[d].asked = call[d].asked /\ call'[d].answer = call[d].answer
              /\ call'[d].results = call[d].results
              /\ call'[d].inside = call[d].inside /\ call'[d].closed = call[d].closed
<1>1. \A d \in Callers : call[d] \in CallType
  BY DEF Types
<1>2. \A d \in Callers : call'[d] = IF remaining' = 0 /\ call[d].at = "asleep"
                                      THEN [call[d] EXCEPT !.at = "wait"] ELSE call[d]
  BY DEF LeaveBatch
<1>3. \A d \in Callers :
        /\ [call[d] EXCEPT !.at = "wait"] \in CallType
        /\ [call[d] EXCEPT !.at = "wait"].at = "wait"
        /\ [call[d] EXCEPT !.at = "wait"].asked = call[d].asked
        /\ [call[d] EXCEPT !.at = "wait"].answer = call[d].answer
        /\ [call[d] EXCEPT !.at = "wait"].results = call[d].results
        /\ [call[d] EXCEPT !.at = "wait"].inside = call[d].inside
        /\ [call[d] EXCEPT !.at = "wait"].closed = call[d].closed
  <2> SUFFICES ASSUME NEW d \in Callers
               PROVE  /\ [call[d] EXCEPT !.at = "wait"] \in CallType
                      /\ [call[d] EXCEPT !.at = "wait"].at = "wait"
                      /\ [call[d] EXCEPT !.at = "wait"].asked = call[d].asked
                      /\ [call[d] EXCEPT !.at = "wait"].answer = call[d].answer
                      /\ [call[d] EXCEPT !.at = "wait"].results = call[d].results
                      /\ [call[d] EXCEPT !.at = "wait"].inside = call[d].inside
                      /\ [call[d] EXCEPT !.at = "wait"].closed = call[d].closed
    OBVIOUS
  <2> QED  BY <1>1 DEF CallType, CallAt
<1>4. call' \in [Callers -> CallType]
  <2>1. call' = [c \in Callers |-> IF remaining' = 0 /\ call[c].at = "asleep"
                                     THEN [call[c] EXCEPT !.at = "wait"] ELSE call[c]]
    BY DEF LeaveBatch
  <2> QED  BY <1>1, <1>3, <2>1
<1> QED
  BY <1>2, <1>3, <1>4

(* The records of the workers.                                              *)
WorkerMoves(w, place) ==
  \A v \in Workers : /\ worker'[v].at = (IF v = w THEN place ELSE worker[v].at)
                     /\ worker'[v].seen = worker[v].seen /\ worker'[v].index = worker[v].index

LEMMA WorkerGoesToMoves ==
  ASSUME Types, NEW w \in Workers, NEW place \in InBatch \cup {"awake", "asleep", "gone"},
         WorkerGoesTo(w, place)
  PROVE  worker' \in [Workers -> WorkerType] /\ WorkerMoves(w, place)
<1> DEFINE r == [worker[w] EXCEPT !.at = place]
<1>1. worker \in [Workers -> WorkerType] /\ worker' = [worker EXCEPT ![w] = r]
  BY DEF Types, WorkerGoesTo
<1>2. worker[w] \in WorkerType
  BY <1>1
<1>3. r \in WorkerType /\ r.at = place /\ r.seen = worker[w].seen /\ r.index = worker[w].index
  BY <1>2 DEF WorkerType
<1> HIDE DEF r
<1>4. /\ worker' \in [Workers -> WorkerType]
      /\ \A v \in Workers : worker'[v] = IF v = w THEN r ELSE worker[v]
  BY <1>1, <1>3
<1> QED
  BY <1>3, <1>4 DEF WorkerMoves

LEMMA Notified ==
  ASSUME Types, NotifyWorkers
  PROVE  /\ worker' \in [Workers -> WorkerType]
         /\ \A v \in Workers :
              /\ worker'[v].at = (IF worker[v].at = "asleep" THEN "awake" ELSE worker[v].at)
              /\ worker'[v].seen = worker[v].seen /\ worker'[v].index = worker[v].index
<1>1. \A v \in Workers : worker[v] \in WorkerType
  BY DEF Types
<1>2. \A v \in Workers :
        /\ [worker[v] EXCEPT !.at = "awake"] \in WorkerType
        /\ [worker[v] EXCEPT !.at = "awake"].at = "awake"
        /\ [worker[v] EXCEPT !.at = "awake"].seen = worker[v].seen
        /\ [worker[v] EXCEPT !.at = "awake"].index = worker[v].index
  BY <1>1 DEF WorkerType
<1>3. /\ worker' \in [Workers -> WorkerType]
      /\ \A v \in Workers : worker'[v] = IF worker[v].at = "asleep"
                                           THEN [worker[v] EXCEPT !.at = "awake"] ELSE worker[v]
  BY <1>1, <1>2 DEF NotifyWorkers
<1> QED
  BY <1>2, <1>3

LEMMA FetchWorker ==
  ASSUME Types, NEW w \in Workers, Fetch(w)
  PROVE  /\ worker' \in [Workers -> WorkerType]
         /\ \A v \in Workers :
              /\ worker'[v].at = (IF v = w THEN (IF next_index > Len(status) THEN "leave"
                     ELSE IF status[next_index] = "pending" THEN "start" ELSE "check") ELSE worker[v].at)
              /\ worker'[v].seen = worker[v].seen
              /\ worker'[v].index = (IF v = w
                                       THEN (IF next_index > Len(status) THEN 0 ELSE next_index)
                                       ELSE worker[v].index)
<1> DEFINE r == [worker[w] EXCEPT
       !.at = IF next_index > Len(status) THEN "leave"
              ELSE IF status[next_index] = "pending" THEN "start" ELSE "check",
       !.index = IF next_index > Len(status) THEN 0 ELSE next_index]
<1>1. worker \in [Workers -> WorkerType] /\ worker' = [worker EXCEPT ![w] = r]
  BY DEF Types, Fetch, WorkerGoesTo
<1>2. worker[w] \in WorkerType /\ generation \in 0 .. Wrap - 1 /\ next_index \in Nat
  BY <1>1 DEF Types
<1>3. r \in WorkerType
  BY <1>2 DEF WorkerType, InBatch
<1>4. /\ r.at = (IF next_index > Len(status) THEN "leave"
                     ELSE IF status[next_index] = "pending" THEN "start" ELSE "check")
      /\ r.seen = worker[w].seen
      /\ r.index = (IF next_index > Len(status) THEN 0 ELSE next_index)
  BY <1>2 DEF WorkerType
<1> HIDE DEF r
<1>5. /\ worker' \in [Workers -> WorkerType]
      /\ \A v \in Workers : worker'[v] = IF v = w THEN r ELSE worker[v]
  BY <1>1, <1>3
<1> QED
  BY <1>4, <1>5

LEMMA FinishWorker ==
  ASSUME Types, NEW w \in Workers, NEW result, ImageEnds(w, result)
  PROVE  /\ worker' \in [Workers -> WorkerType]
         /\ \A v \in Workers :
              /\ worker'[v].at = (IF v = w THEN "check" ELSE worker[v].at)
              /\ worker'[v].seen = worker[v].seen
              /\ worker'[v].index = (IF v = w THEN 0 ELSE worker[v].index)
<1> DEFINE r == [worker[w] EXCEPT !.at = "check", !.index = 0]
<1>1. worker \in [Workers -> WorkerType] /\ worker' = [worker EXCEPT ![w] = r]
  BY DEF Types, ImageEnds
<1>2. worker[w] \in WorkerType /\ generation \in 0 .. Wrap - 1 /\ next_index \in Nat
  BY <1>1 DEF Types
<1>3. r \in WorkerType
  BY <1>2 DEF WorkerType, InBatch
<1>4. /\ r.at = "check" /\ r.seen = worker[w].seen /\ r.index = 0
  BY <1>2 DEF WorkerType
<1> HIDE DEF r
<1>5. /\ worker' \in [Workers -> WorkerType]
      /\ \A v \in Workers : worker'[v] = IF v = w THEN r ELSE worker[v]
  BY <1>1, <1>3
<1> QED
  BY <1>4, <1>5

LEMMA WaitForWorkWorker ==
  ASSUME Types, NEW w \in Workers, WaitForWork(w)
  PROVE  /\ worker' \in [Workers -> WorkerType]
         /\ \/ stopping /\ WorkerMoves(w, "gone")
            \/ ~stopping /\ worker[w].seen = generation /\ WorkerMoves(w, "asleep")
            \/ /\ ~stopping /\ worker[w].seen # generation
               /\ \A v \in Workers :
                    /\ worker'[v].at = (IF v = w THEN "check" ELSE worker[v].at)
                    /\ worker'[v].seen = (IF v = w THEN generation ELSE worker[v].seen)
                    /\ worker'[v].index = worker[v].index
<1>1. CASE stopping
  <2>1. WorkerGoesTo(w, "gone")
    BY <1>1 DEF WaitForWork
  <2> QED  BY <1>1, <2>1, WorkerGoesToMoves
<1>2. CASE ~stopping /\ worker[w].seen = generation
  <2>1. WorkerGoesTo(w, "asleep")
    BY <1>2 DEF WaitForWork
  <2> QED  BY <1>2, <2>1, WorkerGoesToMoves
<1>3. CASE ~stopping /\ worker[w].seen # generation
  <2> DEFINE r == [worker[w] EXCEPT !.at = "check", !.seen = generation]
  <2>1. worker \in [Workers -> WorkerType] /\ worker' = [worker EXCEPT ![w] = r]
    BY <1>3 DEF Types, WaitForWork
  <2>2. worker[w] \in WorkerType /\ generation \in 0 .. Wrap - 1
    BY <2>1 DEF Types
  <2>3. r \in WorkerType /\ r.at = "check" /\ r.seen = generation /\ r.index = worker[w].index
    BY <2>2 DEF WorkerType, InBatch
  <2> HIDE DEF r
  <2>4. /\ worker' \in [Workers -> WorkerType]
        /\ \A v \in Workers : worker'[v] = IF v = w THEN r ELSE worker[v]
    BY <2>1, <2>3
  <2> QED  BY <1>3, <2>3, <2>4
<1> QED
  BY <1>1, <1>2, <1>3

LEMMA WorkerTypes ==
  ASSUME NEW r \in WorkerType
  PROVE  /\ r.at \in InBatch \cup {"awake", "asleep", "gone"}
         /\ r.seen \in 0 .. Wrap - 1 /\ r.index \in Nat
<1> QED  BY DEF WorkerType

LEMMA NoResults == <<>> \in Seq(Results)
<1> QED  OBVIOUS

(* A caller that leaves Encode changes nothing else that has a type.        *)
LEMMA ReturnsTypes ==
  ASSUME Types, NEW c \in Callers,
         NEW answer \in {"none", "unavailable", "error", "published", "closed"},
         NEW results \in Seq(Results), Returns(c, answer, results),
         UNCHANGED <<closing, stopping, shared, worker, job>>
  PROVE  Types'
<1>1. /\ call' \in [Callers -> CallType] /\ memory' \in {memory, None}
      /\ driver' \in {driver, None}
  BY ReturnsEnds
<1> QED  BY <1>1 DEF Types, shared

(* Every step keeps the types.                                              *)
LEMMA TypesInit == Init => Types
<1> SUFFICES ASSUME Init PROVE Types
  OBVIOUS
<1>1. /\ Outside \in CallType
      /\ \A w \in Workers : [at |-> "awake", seen |-> 0, index |-> 0] \in WorkerType
  BY BatchAssumption DEF Outside, CallType, WorkerType, CallAt
<1>2. call \in [Callers -> CallType]
  BY <1>1 DEF Init
<1>3. worker \in [Workers -> WorkerType]
  BY <1>1 DEF Init
<1>4. /\ generation \in 0 .. Wrap - 1 /\ remaining \in Int
      /\ in_flight \in 0 .. MaxInFlight /\ next_index \in Nat /\ terminal \in Nat
  BY BatchAssumption DEF Init
<1>5. /\ status \in Seq(Results)
      /\ job \in [Jobs -> {"outside", "start", "encode", "blocked", "again"}]
  BY DEF Init
<1> QED  BY <1>2, <1>3, <1>4, <1>5 DEF Init, Types

LEMMA TypesStep == Types /\ [Next]_vars => Types'
<1> SUFFICES ASSUME Types, [Next]_vars PROVE Types'
  OBVIOUS
<1>1. ASSUME NEW c \in Callers, NEW b \in Batches, Encode(c, b)
      PROVE  Types'
  BY <1>1, EncodeCall DEF Encode, Types, shared, CallAt, InBatch
<1>2. ASSUME NEW c \in Callers, CheckClosing(c)
      PROVE  Types'
  <2>1. CASE closing
    BY <1>2, <2>1, NoResults, ReturnsTypes DEF CheckClosing
  <2>2. CASE ~closing
    BY <1>2, <2>2, GoesToMoves DEF CheckClosing, Types, shared, CallAt
  <2> QED  BY <2>1, <2>2
<1>3. ASSUME NEW c \in Callers, LockDriver(c)
      PROVE  Types'
  BY <1>3, GoesToMoves DEF LockDriver, Moves, Types, shared, CallAt, InBatch
<1>4. ASSUME NEW c \in Callers, CheckOpen(c)
      PROVE  Types'
  <2>1. CASE closing
    BY <1>4, <2>1, NoResults, ReturnsTypes DEF CheckOpen
  <2>2. CASE ~closing
    BY <1>4, <2>2, GoesToMoves DEF CheckOpen, Types, shared, CallAt
  <2> QED  BY <2>1, <2>2
<1>5. ASSUME NEW c \in Callers, BeginPlan(c)
      PROVE  Types'
  BY <1>5, GoesToMoves DEF BeginPlan, Take, Moves, Types, shared, CallAt, InBatch
<1>6. ASSUME NEW c \in Callers, EndPlan(c)
      PROVE  Types'
  BY <1>6, GoesToMoves DEF EndPlan, Drop, Moves, Types, shared, CallAt, InBatch
<1>7. ASSUME NEW c \in Callers, Admit(c)
      PROVE  Types'
  BY <1>7, GoesToMoves DEF Admit, Moves, Types, shared, CallAt, InBatch
<1>8. ASSUME NEW c \in Callers, StartCpu(c)
      PROVE  Types'
  BY <1>8, GoesToMoves DEF StartCpu, Take, Moves, Types, shared, CallAt, InBatch
<1>9. ASSUME NEW c \in Callers, Abandon(c)
      PROVE  Types'
  BY <1>9, NoResults, ReturnsTypes DEF Abandon
<1>10. ASSUME NEW c \in Callers, PublishEmpty(c)
      PROVE  Types'
  BY <1>10, NoResults, ReturnsTypes DEF PublishEmpty
<1>11. ASSUME NEW c \in Callers, Dispatch(c)
      PROVE  Types'
  <2>1. call[c].asked \in Batches \cup {<<>>}
    BY CallerTypes DEF Types
  <2>2. status' \in Seq(Results) /\ in_flight' \in 0 .. MaxInFlight
    BY <1>11, <2>1, PlannedType DEF Dispatch
  <2>3. generation' \in 0 .. Wrap - 1 /\ remaining' \in Int
    BY <1>11, Wrapping, BatchAssumption DEF Dispatch, Types
  <2>4. call' \in [Callers -> CallType]
    BY <1>11, GoesToMoves DEF Dispatch, CallAt
  <2> QED  BY <1>11, <2>2, <2>3, <2>4 DEF Dispatch, Types
<1>12. ASSUME NEW c \in Callers, Notify(c)
      PROVE  Types'
  BY <1>12, GoesToMoves, Notified DEF Notify, Drop, Moves, Types, shared, CallAt,
     InBatch
<1>13. ASSUME NEW c \in Callers, Wait(c)
      PROVE  Types'
  BY <1>13, GoesToMoves DEF Wait, Moves, Types, shared, CallAt, InBatch
<1>14. ASSUME NEW c \in Callers, Resume(c)
      PROVE  Types'
  BY <1>14, GoesToMoves DEF Resume, Take, Moves, Types, shared, CallAt, InBatch
<1>15. ASSUME NEW c \in Callers, Publish(c)
      PROVE  Types'
  <2>1. status \in Seq(Results)
    BY DEF Types
  <2>2. CASE terminal = 0
    BY <1>15, <2>1, <2>2, ReturnsTypes DEF Publish
  <2>3. CASE terminal # 0
    BY <1>15, <2>3, NoResults, ReturnsTypes DEF Publish
  <2> QED  BY <2>2, <2>3
<1>16. ASSUME NEW c \in Callers, Leave(c)
      PROVE  Types'
  BY <1>16, LeaveCall DEF Leave, Types, shared, CallAt, InBatch
<1>17. ASSUME NEW c \in Callers, EnterScope(c)
      PROVE  Types'
  BY <1>17, EnterScopeCall DEF EnterScope, Take, Types, shared, CallAt, InBatch
<1>18. ASSUME NEW c \in Callers, LeaveScope(c)
      PROVE  Types'
  BY <1>18, LeaveScopeCall DEF LeaveScope, Drop, Types, shared, CallAt, InBatch
<1>19. ASSUME NEW c \in Callers, Shutdown(c)
      PROVE  Types'
  BY <1>19, ShutdownCall DEF Shutdown, Drop, Types, shared, CallAt, InBatch
<1>20. ASSUME NEW c \in Callers, LockForShutdown(c)
      PROVE  Types'
  BY <1>20, GoesToMoves DEF LockForShutdown, Moves, Types, shared, CallAt, InBatch
<1>21. ASSUME NEW c \in Callers, Stop(c)
      PROVE  Types'
  BY <1>21, GoesToMoves DEF Stop, Moves, Types, shared, CallAt, InBatch
<1>22. ASSUME NEW c \in Callers, NotifyStop(c)
      PROVE  Types'
  BY <1>22, GoesToMoves, Notified DEF NotifyStop, Moves, Types, shared, CallAt, InBatch
<1>23. ASSUME NEW c \in Callers, Join(c)
      PROVE  Types'
  BY <1>23, JoinCall DEF Join, Types, shared, CallAt, InBatch
<1>24. ASSUME NEW c \in Callers, Rejoin(c)
      PROVE  Types'
  BY <1>24, RejoinCall DEF Rejoin, Take, Moves, Types, shared, CallAt, InBatch
<1>25. ASSUME NEW w \in Workers, WaitForWork(w)
      PROVE  Types'
  BY <1>25, WaitForWorkWorker DEF WaitForWork, WorkerMoves, Types, shared, CallAt,
     InBatch
<1>26. ASSUME NEW w \in Workers, Check(w)
      PROVE  Types'
  BY <1>26, WorkerGoesToMoves DEF Check, WorkerMoves, Types, shared, CallAt, InBatch
<1>27. ASSUME NEW w \in Workers, Fetch(w)
      PROVE  Types'
  <2>1. next_index' \in Nat
    BY <1>27 DEF Fetch, Types
  <2> QED  BY <1>27, <2>1, FetchWorker DEF Fetch, Types
<1>28. ASSUME NEW w \in Workers, StartImage(w)
      PROVE  Types'
  BY <1>28, WorkerGoesToMoves DEF StartImage, Take, WorkerMoves, Types, shared,
     CallAt, InBatch
<1>29. ASSUME NEW w \in Workers, Yield(w)
      PROVE  Types'
  BY <1>29, WorkerGoesToMoves DEF Yield, Drop, WorkerMoves, Types, shared, CallAt,
     InBatch
<1>30. ASSUME NEW w \in Workers, Regain(w)
      PROVE  Types'
  BY <1>30, WorkerGoesToMoves DEF Regain, Take, WorkerMoves, Types, shared, CallAt,
     InBatch
<1>31. ASSUME NEW w \in Workers, LeaveBatch(w)
      PROVE  Types'
  BY <1>31, LeaveBatchCall, WorkerGoesToMoves DEF LeaveBatch, WorkerMoves, Types,
     shared, CallAt, InBatch
<1>32. ASSUME NEW w \in Workers, NEW r \in {"ok", "failed", "terminal"},
             FinishImage(w, r) \/ StartFails(w, r)
      PROVE  Types'
  <2>1. status' \in Seq(Results)
    <3>1. status \in [1 .. Len(status) -> Results] /\ Len(status) \in Nat /\ r \in Results
      BY DEF Types, Results
    <3>2. status' \in [1 .. Len(status) -> Results]
      BY <1>32, <3>1 DEF FinishImage, StartFails, ImageEnds
    <3> QED  BY <3>1, <3>2
  <2>2. terminal' \in Nat
    BY <1>32, WorkerTypes DEF FinishImage, StartFails, ImageEnds, Types
  <2> QED  BY <1>32, <2>1, <2>2, FinishWorker DEF FinishImage, StartFails, ImageEnds, Types
<1>33. CASE SpuriousWake
  BY <1>33, GoesToMoves, WorkerGoesToMoves DEF SpuriousWake, Moves, WorkerMoves,
     Types, shared, CallAt, InBatch
<1>34. ASSUME NEW j \in Jobs, JobAdmit(j)
      PROVE  Types'
  BY <1>34 DEF JobAdmit, Types, shared, CallAt, InBatch
<1>35. ASSUME NEW j \in Jobs, JobStart(j)
      PROVE  Types'
  BY <1>35 DEF JobStart, Take, Types, shared, CallAt, InBatch
<1>36. ASSUME NEW j \in Jobs, JobYield(j)
      PROVE  Types'
  BY <1>36 DEF JobYield, Drop, Types, shared, CallAt, InBatch
<1>37. ASSUME NEW j \in Jobs, JobRegain(j)
      PROVE  Types'
  BY <1>37 DEF JobRegain, Take, Types, shared, CallAt, InBatch
<1>38. ASSUME NEW j \in Jobs, JobDone(j)
      PROVE  Types'
  BY <1>38 DEF JobDone, Drop, Types, shared, CallAt, InBatch
<1>39. CASE UNCHANGED vars
  BY <1>39 DEF vars, Types, shared, CallAt, InBatch
<1> QED
  BY <1>1, <1>2, <1>3, <1>4, <1>5, <1>6, <1>7, <1>8, <1>9, <1>10, <1>11, <1>12, <1>13,
     <1>14, <1>15, <1>16, <1>17, <1>18, <1>19, <1>20, <1>21, <1>22, <1>23, <1>24,
     <1>25, <1>26, <1>27, <1>28, <1>29, <1>30, <1>31, <1>32, <1>33, <1>34, <1>35,
     <1>36, <1>37, <1>38, <1>39
  DEF Next, Obtain, Advance, Lock, ObtainSlot, Work, JobObtains, JobRuns

-----------------------------------------------------------------------------
(* No more than Slots threads have a participant slot.                      *)
CpuInv == /\ cpu \subseteq Callers \cup Workers \cup Jobs
          /\ IsFiniteSet(cpu) /\ Cardinality(cpu) <= Slots

LEMMA TakeSlot ==
  ASSUME CpuInv, NEW t \in Callers \cup Workers \cup Jobs, Take(t)
  PROVE  CpuInv'
<1>1. Cardinality(cpu) \in Nat /\ Cardinality(cpu) < Slots /\ Slots \in Nat
  BY FS_CardinalityType, BatchAssumption DEF CpuInv, Take, Free
<1>2. IsFiniteSet(cpu') /\ Cardinality(cpu') <= Cardinality(cpu) + 1
  <2>1. IsFiniteSet(cpu \cup {t})
        /\ Cardinality(cpu \cup {t}) = IF t \in cpu THEN Cardinality(cpu) ELSE Cardinality(cpu) + 1
    BY FS_AddElement DEF CpuInv
  <2> QED  BY <1>1, <2>1 DEF Take
<1>3. Cardinality(cpu') \in Nat
  BY <1>2, FS_CardinalityType
<1> QED
  BY <1>1, <1>2, <1>3 DEF CpuInv, Take

LEMMA DropSlot ==
  ASSUME CpuInv, NEW t, cpu' = cpu \ {t}
  PROVE  CpuInv'
<1>1. IsFiniteSet(cpu') /\ Cardinality(cpu') <= Cardinality(cpu)
  BY FS_Subset DEF CpuInv
<1>2. Cardinality(cpu) \in Nat /\ Cardinality(cpu') \in Nat /\ Slots \in Nat
  BY <1>1, FS_CardinalityType, BatchAssumption DEF CpuInv
<1> QED
  BY <1>1, <1>2 DEF CpuInv

LEMMA CpuStep == CpuInv /\ [Next]_vars => CpuInv'
<1> SUFFICES ASSUME CpuInv, [Next]_vars PROVE CpuInv'
  OBVIOUS
<1>1. ASSUME NEW c \in Callers, NEW b \in Batches, Encode(c, b)
      PROVE  CpuInv'
  BY <1>1 DEF Encode, CpuInv
<1>2. ASSUME NEW c \in Callers, CheckClosing(c)
      PROVE  CpuInv'
  BY <1>2, DropSlot DEF CheckClosing, Returns, Drop, CpuInv
<1>3. ASSUME NEW c \in Callers, LockDriver(c)
      PROVE  CpuInv'
  BY <1>3 DEF LockDriver, CpuInv
<1>4. ASSUME NEW c \in Callers, CheckOpen(c)
      PROVE  CpuInv'
  BY <1>4, DropSlot DEF CheckOpen, Returns, Drop, CpuInv
<1>5. ASSUME NEW c \in Callers, BeginPlan(c)
      PROVE  CpuInv'
  BY <1>5, TakeSlot DEF BeginPlan
<1>6. ASSUME NEW c \in Callers, EndPlan(c)
      PROVE  CpuInv'
  BY <1>6, DropSlot DEF EndPlan, Drop
<1>7. ASSUME NEW c \in Callers, Admit(c)
      PROVE  CpuInv'
  BY <1>7 DEF Admit, CpuInv
<1>8. ASSUME NEW c \in Callers, StartCpu(c)
      PROVE  CpuInv'
  BY <1>8, TakeSlot DEF StartCpu
<1>9. ASSUME NEW c \in Callers, Abandon(c)
      PROVE  CpuInv'
  BY <1>9, DropSlot DEF Abandon, Returns, Drop
<1>10. ASSUME NEW c \in Callers, PublishEmpty(c)
      PROVE  CpuInv'
  BY <1>10, DropSlot DEF PublishEmpty, Returns, Drop
<1>11. ASSUME NEW c \in Callers, Dispatch(c)
      PROVE  CpuInv'
  BY <1>11 DEF Dispatch, CpuInv
<1>12. ASSUME NEW c \in Callers, Notify(c)
      PROVE  CpuInv'
  BY <1>12, DropSlot DEF Notify, Drop
<1>13. ASSUME NEW c \in Callers, Wait(c)
      PROVE  CpuInv'
  BY <1>13 DEF Wait, CpuInv
<1>14. ASSUME NEW c \in Callers, Resume(c)
      PROVE  CpuInv'
  BY <1>14, TakeSlot DEF Resume
<1>15. ASSUME NEW c \in Callers, Publish(c)
      PROVE  CpuInv'
  BY <1>15, DropSlot DEF Publish, Returns, Drop
<1>16. ASSUME NEW c \in Callers, Leave(c)
      PROVE  CpuInv'
  BY <1>16 DEF Leave, CpuInv
<1>17. ASSUME NEW c \in Callers, EnterScope(c)
      PROVE  CpuInv'
  BY <1>17, TakeSlot DEF EnterScope
<1>18. ASSUME NEW c \in Callers, LeaveScope(c)
      PROVE  CpuInv'
  BY <1>18, DropSlot DEF LeaveScope, Drop
<1>19. ASSUME NEW c \in Callers, Shutdown(c)
      PROVE  CpuInv'
  BY <1>19, DropSlot DEF Shutdown, Drop
<1>20. ASSUME NEW c \in Callers, LockForShutdown(c)
      PROVE  CpuInv'
  BY <1>20 DEF LockForShutdown, CpuInv
<1>21. ASSUME NEW c \in Callers, Stop(c)
      PROVE  CpuInv'
  BY <1>21 DEF Stop, CpuInv
<1>22. ASSUME NEW c \in Callers, NotifyStop(c)
      PROVE  CpuInv'
  BY <1>22 DEF NotifyStop, CpuInv
<1>23. ASSUME NEW c \in Callers, Join(c)
      PROVE  CpuInv'
  BY <1>23 DEF Join, CpuInv
<1>24. ASSUME NEW c \in Callers, Rejoin(c)
      PROVE  CpuInv'
  BY <1>24, TakeSlot DEF Rejoin
<1>25. ASSUME NEW w \in Workers, WaitForWork(w)
      PROVE  CpuInv'
  BY <1>25 DEF WaitForWork, CpuInv
<1>26. ASSUME NEW w \in Workers, Check(w)
      PROVE  CpuInv'
  BY <1>26 DEF Check, CpuInv
<1>27. ASSUME NEW w \in Workers, Fetch(w)
      PROVE  CpuInv'
  BY <1>27 DEF Fetch, CpuInv
<1>28. ASSUME NEW w \in Workers, StartImage(w)
      PROVE  CpuInv'
  BY <1>28, TakeSlot DEF StartImage
<1>29. ASSUME NEW w \in Workers, Yield(w)
      PROVE  CpuInv'
  BY <1>29, DropSlot DEF Yield, Drop
<1>30. ASSUME NEW w \in Workers, Regain(w)
      PROVE  CpuInv'
  BY <1>30, TakeSlot DEF Regain
<1>31. ASSUME NEW w \in Workers, LeaveBatch(w)
      PROVE  CpuInv'
  BY <1>31 DEF LeaveBatch, CpuInv
<1>32. ASSUME NEW w \in Workers, NEW r \in {"ok", "failed", "terminal"},
             FinishImage(w, r) \/ StartFails(w, r)
      PROVE  CpuInv'
  BY <1>32, DropSlot DEF FinishImage, StartFails, ImageEnds, Drop
<1>33. CASE SpuriousWake
  BY <1>33 DEF SpuriousWake, CpuInv
<1>34. ASSUME NEW j \in Jobs, JobAdmit(j)
      PROVE  CpuInv'
  BY <1>34 DEF JobAdmit, CpuInv
<1>35. ASSUME NEW j \in Jobs, JobStart(j)
      PROVE  CpuInv'
  BY <1>35, TakeSlot DEF JobStart
<1>36. ASSUME NEW j \in Jobs, JobYield(j)
      PROVE  CpuInv'
  BY <1>36, DropSlot DEF JobYield, Drop
<1>37. ASSUME NEW j \in Jobs, JobRegain(j)
      PROVE  CpuInv'
  BY <1>37, TakeSlot DEF JobRegain
<1>38. ASSUME NEW j \in Jobs, JobDone(j)
      PROVE  CpuInv'
  BY <1>38, DropSlot DEF JobDone, Drop
<1>39. CASE UNCHANGED vars
  BY <1>39 DEF vars, CpuInv
<1> QED
  BY <1>1, <1>2, <1>3, <1>4, <1>5, <1>6, <1>7, <1>8, <1>9, <1>10, <1>11, <1>12, <1>13,
     <1>14, <1>15, <1>16, <1>17, <1>18, <1>19, <1>20, <1>21, <1>22, <1>23, <1>24,
     <1>25, <1>26, <1>27, <1>28, <1>29, <1>30, <1>31, <1>32, <1>33, <1>34, <1>35,
     <1>36, <1>37, <1>38, <1>39
  DEF Next, Obtain, Advance, Lock, ObtainSlot, Work, JobObtains, JobRuns

-----------------------------------------------------------------------------
(* Where the callers are after a step.                                      *)
Places(c, place) ==
  \A d \in Callers : /\ call'[d].at = (IF d = c THEN place ELSE call[d].at)
                     /\ call'[d].inside = call[d].inside

LEMMA ReturnsPlaces ==
  ASSUME Types, NEW c \in Callers, NEW answer, NEW results, Returns(c, answer, results)
  PROVE  /\ Places(c, "returned") /\ cpu' = cpu \ {c}
         /\ \A d \in Callers : d # c => call'[d] = call[d]
         /\ call'[c].answer = answer /\ call'[c].results = results
         /\ call'[c].asked = call[c].asked
         /\ driver' = (IF driver = c THEN None ELSE driver)
<1> DEFINE r == [call[c] EXCEPT !.at = "returned", !.answer = answer, !.results = results]
<1>1. call \in [Callers -> CallType] /\ call' = [call EXCEPT ![c] = r]
  BY DEF Types, Returns
<1>2. /\ r.at = "returned" /\ r.answer = answer /\ r.results = results
      /\ r.asked = call[c].asked /\ r.inside = call[c].inside
  BY <1>1 DEF CallType
<1> HIDE DEF r
<1> QED
  BY <1>1, <1>2 DEF Places, Returns, Drop

-----------------------------------------------------------------------------
(* Who is between locking and unlocking the driver has its lock.            *)
LockedAt == {"locked", "plan", "planning", "admit", "start", "prepare", "notify",
             "wait", "asleep", "resume", "collect", "stop", "stop_notify", "join"}
LockInv == \A c \in Callers : call[c].at \in LockedAt <=> driver = c

LEMMA LockStep == Types /\ LockInv /\ [Next]_vars => LockInv'
<1> SUFFICES ASSUME Types, LockInv, [Next]_vars PROVE LockInv'
  OBVIOUS
<1>1. ASSUME NEW c \in Callers, NEW b \in Batches, Encode(c, b)
      PROVE  LockInv'
  <2>1. Places(c, "arriving")
    BY <1>1, EncodeCall DEF Places
  <2> QED  BY <1>1, <2>1, BatchAssumption DEF Encode, Places, Types, LockInv,
     LockedAt, CallAt
<1>2. ASSUME NEW c \in Callers, CheckClosing(c)
      PROVE  LockInv'
  <2>1. CASE closing
    <3>1. /\ Places(c, "returned") /\ cpu' = cpu \ {c}
          /\ driver' = (IF driver = c THEN None ELSE driver)
      BY <1>2, <2>1, ReturnsPlaces DEF CheckClosing
    <3> QED  BY <1>2, <2>1, <3>1, BatchAssumption DEF CheckClosing, Places, Types,
       LockInv, LockedAt, CallAt
  <2>2. CASE ~closing
    BY <1>2, <2>2, GoesToMoves, BatchAssumption DEF CheckClosing, Moves, Types,
       LockInv, LockedAt, CallAt
  <2> QED  BY <2>1, <2>2
<1>3. ASSUME NEW c \in Callers, LockDriver(c)
      PROVE  LockInv'
  BY <1>3, GoesToMoves, BatchAssumption DEF LockDriver, Moves, Types, LockInv,
     LockedAt, CallAt
<1>4. ASSUME NEW c \in Callers, CheckOpen(c)
      PROVE  LockInv'
  <2>1. CASE closing
    <3>1. /\ Places(c, "returned") /\ cpu' = cpu \ {c}
          /\ driver' = (IF driver = c THEN None ELSE driver)
      BY <1>4, <2>1, ReturnsPlaces DEF CheckOpen
    <3> QED  BY <1>4, <2>1, <3>1, BatchAssumption DEF CheckOpen, Places, Types,
       LockInv, LockedAt, CallAt
  <2>2. CASE ~closing
    BY <1>4, <2>2, GoesToMoves, BatchAssumption DEF CheckOpen, Moves, Types, LockInv,
       LockedAt, CallAt
  <2> QED  BY <2>1, <2>2
<1>5. ASSUME NEW c \in Callers, BeginPlan(c)
      PROVE  LockInv'
  BY <1>5, GoesToMoves, BatchAssumption DEF BeginPlan, Take, Moves, Types, LockInv,
     LockedAt, CallAt
<1>6. ASSUME NEW c \in Callers, EndPlan(c)
      PROVE  LockInv'
  BY <1>6, GoesToMoves, BatchAssumption DEF EndPlan, Drop, Moves, Types, LockInv,
     LockedAt, CallAt
<1>7. ASSUME NEW c \in Callers, Admit(c)
      PROVE  LockInv'
  BY <1>7, GoesToMoves, BatchAssumption DEF Admit, Moves, Types, LockInv, LockedAt,
     CallAt
<1>8. ASSUME NEW c \in Callers, StartCpu(c)
      PROVE  LockInv'
  BY <1>8, GoesToMoves, BatchAssumption DEF StartCpu, Take, Moves, Types, LockInv,
     LockedAt, CallAt
<1>9. ASSUME NEW c \in Callers, Abandon(c)
      PROVE  LockInv'
  <2>1. /\ Places(c, "returned") /\ cpu' = cpu \ {c}
        /\ driver' = (IF driver = c THEN None ELSE driver)
    BY <1>9, ReturnsPlaces DEF Abandon
  <2> QED  BY <1>9, <2>1, BatchAssumption DEF Abandon, Places, Types, LockInv,
     LockedAt, CallAt
<1>10. ASSUME NEW c \in Callers, PublishEmpty(c)
      PROVE  LockInv'
  <2>1. /\ Places(c, "returned") /\ cpu' = cpu \ {c}
        /\ driver' = (IF driver = c THEN None ELSE driver)
    BY <1>10, ReturnsPlaces DEF PublishEmpty
  <2> QED  BY <1>10, <2>1, BatchAssumption DEF PublishEmpty, Places, Types, LockInv,
     LockedAt, CallAt
<1>11. ASSUME NEW c \in Callers, Dispatch(c)
      PROVE  LockInv'
  BY <1>11, GoesToMoves, BatchAssumption DEF Dispatch, Moves, Types, LockInv,
     LockedAt, CallAt
<1>12. ASSUME NEW c \in Callers, Notify(c)
      PROVE  LockInv'
  BY <1>12, GoesToMoves, Notified, BatchAssumption DEF Notify, Drop, Moves, Types,
     LockInv, LockedAt, CallAt
<1>13. ASSUME NEW c \in Callers, Wait(c)
      PROVE  LockInv'
  BY <1>13, GoesToMoves, BatchAssumption DEF Wait, Moves, Types, LockInv, LockedAt,
     CallAt
<1>14. ASSUME NEW c \in Callers, Resume(c)
      PROVE  LockInv'
  BY <1>14, GoesToMoves, BatchAssumption DEF Resume, Take, Moves, Types, LockInv,
     LockedAt, CallAt
<1>15. ASSUME NEW c \in Callers, Publish(c)
      PROVE  LockInv'
  <2>1. /\ Places(c, "returned") /\ cpu' = cpu \ {c}
        /\ driver' = (IF driver = c THEN None ELSE driver)
    BY <1>15, ReturnsPlaces DEF Publish
  <2> QED  BY <1>15, <2>1, BatchAssumption DEF Publish, Places, Types, LockInv,
     LockedAt, CallAt
<1>16. ASSUME NEW c \in Callers, Leave(c)
      PROVE  LockInv'
  <2>1. Places(c, "outside")
    BY <1>16, LeaveCall DEF Places
  <2> QED  BY <1>16, <2>1, BatchAssumption DEF Leave, Places, Types, LockInv,
     LockedAt, CallAt
<1>17. ASSUME NEW c \in Callers, EnterScope(c)
      PROVE  LockInv'
  BY <1>17, EnterScopeCall DEF EnterScope, LockInv
<1>18. ASSUME NEW c \in Callers, LeaveScope(c)
      PROVE  LockInv'
  BY <1>18, LeaveScopeCall DEF LeaveScope, LockInv
<1>19. ASSUME NEW c \in Callers, Shutdown(c)
      PROVE  LockInv'
  <2>1. Places(c, "closing")
    BY <1>19, ShutdownCall DEF Places
  <2> QED  BY <1>19, <2>1, BatchAssumption DEF Shutdown, Places, Types, LockInv,
     LockedAt, CallAt
<1>20. ASSUME NEW c \in Callers, LockForShutdown(c)
      PROVE  LockInv'
  BY <1>20, GoesToMoves, BatchAssumption DEF LockForShutdown, Moves, Types, LockInv,
     LockedAt, CallAt
<1>21. ASSUME NEW c \in Callers, Stop(c)
      PROVE  LockInv'
  BY <1>21, GoesToMoves, BatchAssumption DEF Stop, Moves, Types, LockInv, LockedAt,
     CallAt
<1>22. ASSUME NEW c \in Callers, NotifyStop(c)
      PROVE  LockInv'
  BY <1>22, GoesToMoves, Notified, BatchAssumption DEF NotifyStop, Moves, Types,
     LockInv, LockedAt, CallAt
<1>23. ASSUME NEW c \in Callers, Join(c)
      PROVE  LockInv'
  <2>1. Places(c, (IF call[c].inside THEN "rejoin" ELSE "returned"))
    BY <1>23, JoinCall DEF Places
  <2> QED  BY <1>23, <2>1, BatchAssumption DEF Join, Places, Types, LockInv, LockedAt,
     CallAt
<1>24. ASSUME NEW c \in Callers, Rejoin(c)
      PROVE  LockInv'
  <2>1. Places(c, "returned")
    BY <1>24, RejoinCall DEF Places
  <2> QED  BY <1>24, <2>1, BatchAssumption DEF Rejoin, Places, Types, LockInv, LockedAt,
     CallAt
<1>25. ASSUME NEW w \in Workers, WaitForWork(w)
      PROVE  LockInv'
  BY <1>25 DEF WaitForWork, LockInv
<1>26. ASSUME NEW w \in Workers, Check(w)
      PROVE  LockInv'
  BY <1>26 DEF Check, LockInv
<1>27. ASSUME NEW w \in Workers, Fetch(w)
      PROVE  LockInv'
  BY <1>27 DEF Fetch, LockInv
<1>28. ASSUME NEW w \in Workers, StartImage(w)
      PROVE  LockInv'
  BY <1>28 DEF StartImage, LockInv
<1>29. ASSUME NEW w \in Workers, Yield(w)
      PROVE  LockInv'
  BY <1>29 DEF Yield, LockInv
<1>30. ASSUME NEW w \in Workers, Regain(w)
      PROVE  LockInv'
  BY <1>30 DEF Regain, LockInv
<1>31. ASSUME NEW w \in Workers, LeaveBatch(w)
      PROVE  LockInv'
  BY <1>31, LeaveBatchCall, WorkerGoesToMoves, BatchAssumption DEF LeaveBatch,
     WorkerMoves, Types, LockInv, LockedAt, CallAt
<1>32. ASSUME NEW w \in Workers, NEW r \in {"ok", "failed", "terminal"},
             FinishImage(w, r) \/ StartFails(w, r)
      PROVE  LockInv'
  BY <1>32 DEF FinishImage, StartFails, ImageEnds, LockInv
<1>33. CASE SpuriousWake
  BY <1>33, GoesToMoves, WorkerGoesToMoves, BatchAssumption DEF SpuriousWake, Moves,
     WorkerMoves, Types, LockInv, LockedAt, CallAt
<1>34. ASSUME NEW j \in Jobs, JobAdmit(j)
      PROVE  LockInv'
  BY <1>34 DEF JobAdmit, LockInv
<1>35. ASSUME NEW j \in Jobs, JobStart(j)
      PROVE  LockInv'
  BY <1>35 DEF JobStart, LockInv
<1>36. ASSUME NEW j \in Jobs, JobYield(j)
      PROVE  LockInv'
  BY <1>36 DEF JobYield, LockInv
<1>37. ASSUME NEW j \in Jobs, JobRegain(j)
      PROVE  LockInv'
  BY <1>37 DEF JobRegain, LockInv
<1>38. ASSUME NEW j \in Jobs, JobDone(j)
      PROVE  LockInv'
  BY <1>38 DEF JobDone, LockInv
<1>39. CASE UNCHANGED vars
  BY <1>39 DEF vars, LockInv
<1> QED
  BY <1>1, <1>2, <1>3, <1>4, <1>5, <1>6, <1>7, <1>8, <1>9, <1>10, <1>11, <1>12, <1>13,
     <1>14, <1>15, <1>16, <1>17, <1>18, <1>19, <1>20, <1>21, <1>22, <1>23, <1>24,
     <1>25, <1>26, <1>27, <1>28, <1>29, <1>30, <1>31, <1>32, <1>33, <1>34, <1>35,
     <1>36, <1>37, <1>38, <1>39
  DEF Next, Obtain, Advance, Lock, ObtainSlot, Work, JobObtains, JobRuns

-----------------------------------------------------------------------------
(* The workers are told to stop by the holder of the lock, after the driver *)
(* was closed; nobody becomes active once it is closed.                     *)
CloseInv ==
  /\ \A c \in Callers : call[c].at \in {"closing", "stop", "stop_notify", "join", "rejoin"}
                          => closing
  /\ \A c \in Callers : call[c].at \in {"stop_notify", "join", "rejoin"} => stopping
  /\ stopping => closing
  /\ stopping => \A c \in Callers : ~Active(c)

LEMMA CloseStep == Types /\ LockInv /\ CloseInv /\ [Next]_vars => CloseInv'
<1> SUFFICES ASSUME Types, LockInv, CloseInv, [Next]_vars PROVE CloseInv'
  OBVIOUS
<1>1. ASSUME NEW c \in Callers, NEW b \in Batches, Encode(c, b)
      PROVE  CloseInv'
  <2>1. Places(c, "arriving")
    BY <1>1, EncodeCall DEF Places
  <2> QED  BY <1>1, <2>1 DEF Encode, Places, Types, CloseInv, Active, LockInv,
     LockedAt, CallAt
<1>2. ASSUME NEW c \in Callers, CheckClosing(c)
      PROVE  CloseInv'
  <2>1. CASE closing
    <3>1. /\ Places(c, "returned") /\ cpu' = cpu \ {c}
          /\ driver' = (IF driver = c THEN None ELSE driver)
      BY <1>2, <2>1, ReturnsPlaces DEF CheckClosing
    <3> QED  BY <1>2, <2>1, <3>1 DEF CheckClosing, Places, Types, CloseInv, Active,
       LockInv, LockedAt, CallAt
  <2>2. CASE ~closing
    BY <1>2, <2>2, GoesToMoves DEF CheckClosing, Moves, Types, CloseInv, Active,
       LockInv, LockedAt, CallAt
  <2> QED  BY <2>1, <2>2
<1>3. ASSUME NEW c \in Callers, LockDriver(c)
      PROVE  CloseInv'
  BY <1>3, GoesToMoves DEF LockDriver, Moves, CloseInv, Active, LockInv, LockedAt,
     CallAt
<1>4. ASSUME NEW c \in Callers, CheckOpen(c)
      PROVE  CloseInv'
  <2>1. CASE closing
    <3>1. /\ Places(c, "returned") /\ cpu' = cpu \ {c}
          /\ driver' = (IF driver = c THEN None ELSE driver)
      BY <1>4, <2>1, ReturnsPlaces DEF CheckOpen
    <3> QED  BY <1>4, <2>1, <3>1 DEF CheckOpen, Places, Types, CloseInv, Active,
       LockInv, LockedAt, CallAt
  <2>2. CASE ~closing
    BY <1>4, <2>2, GoesToMoves DEF CheckOpen, Moves, Types, CloseInv, Active, LockInv,
       LockedAt, CallAt
  <2> QED  BY <2>1, <2>2
<1>5. ASSUME NEW c \in Callers, BeginPlan(c)
      PROVE  CloseInv'
  BY <1>5, GoesToMoves DEF BeginPlan, Take, Moves, CloseInv, Active, LockInv,
     LockedAt, CallAt
<1>6. ASSUME NEW c \in Callers, EndPlan(c)
      PROVE  CloseInv'
  BY <1>6, GoesToMoves DEF EndPlan, Drop, Moves, CloseInv, Active, LockInv, LockedAt,
     CallAt
<1>7. ASSUME NEW c \in Callers, Admit(c)
      PROVE  CloseInv'
  BY <1>7, GoesToMoves DEF Admit, Moves, CloseInv, Active, LockInv, LockedAt, CallAt
<1>8. ASSUME NEW c \in Callers, StartCpu(c)
      PROVE  CloseInv'
  BY <1>8, GoesToMoves DEF StartCpu, Take, Moves, CloseInv, Active, LockInv, LockedAt,
     CallAt
<1>9. ASSUME NEW c \in Callers, Abandon(c)
      PROVE  CloseInv'
  <2>1. /\ Places(c, "returned") /\ cpu' = cpu \ {c}
        /\ driver' = (IF driver = c THEN None ELSE driver)
    BY <1>9, ReturnsPlaces DEF Abandon
  <2> QED  BY <1>9, <2>1 DEF Abandon, Places, Types, CloseInv, Active, LockInv,
     LockedAt, CallAt
<1>10. ASSUME NEW c \in Callers, PublishEmpty(c)
      PROVE  CloseInv'
  <2>1. /\ Places(c, "returned") /\ cpu' = cpu \ {c}
        /\ driver' = (IF driver = c THEN None ELSE driver)
    BY <1>10, ReturnsPlaces DEF PublishEmpty
  <2> QED  BY <1>10, <2>1 DEF PublishEmpty, Places, Types, CloseInv, Active, LockInv,
     LockedAt, CallAt
<1>11. ASSUME NEW c \in Callers, Dispatch(c)
      PROVE  CloseInv'
  BY <1>11, GoesToMoves DEF Dispatch, Moves, CloseInv, Active, LockInv, LockedAt, CallAt
<1>12. ASSUME NEW c \in Callers, Notify(c)
      PROVE  CloseInv'
  BY <1>12, GoesToMoves, Notified DEF Notify, Drop, Moves, CloseInv, Active, LockInv,
     LockedAt, CallAt
<1>13. ASSUME NEW c \in Callers, Wait(c)
      PROVE  CloseInv'
  BY <1>13, GoesToMoves DEF Wait, Moves, CloseInv, Active, LockInv, LockedAt, CallAt
<1>14. ASSUME NEW c \in Callers, Resume(c)
      PROVE  CloseInv'
  BY <1>14, GoesToMoves DEF Resume, Take, Moves, CloseInv, Active, LockInv, LockedAt,
     CallAt
<1>15. ASSUME NEW c \in Callers, Publish(c)
      PROVE  CloseInv'
  <2>1. /\ Places(c, "returned") /\ cpu' = cpu \ {c}
        /\ driver' = (IF driver = c THEN None ELSE driver)
    BY <1>15, ReturnsPlaces DEF Publish
  <2> QED  BY <1>15, <2>1 DEF Publish, Places, Types, CloseInv, Active, LockInv,
     LockedAt, CallAt
<1>16. ASSUME NEW c \in Callers, Leave(c)
      PROVE  CloseInv'
  <2>1. Places(c, "outside")
    BY <1>16, LeaveCall DEF Places
  <2> QED  BY <1>16, <2>1 DEF Leave, Places, Types, CloseInv, Active, LockInv,
     LockedAt, CallAt
<1>17. ASSUME NEW c \in Callers, EnterScope(c)
      PROVE  CloseInv'
  BY <1>17, EnterScopeCall DEF EnterScope, CloseInv, Active
<1>18. ASSUME NEW c \in Callers, LeaveScope(c)
      PROVE  CloseInv'
  BY <1>18, LeaveScopeCall DEF LeaveScope, CloseInv, Active
<1>19. ASSUME NEW c \in Callers, Shutdown(c)
      PROVE  CloseInv'
  <2>1. Places(c, "closing")
    BY <1>19, ShutdownCall DEF Places
  <2> QED  BY <1>19, <2>1 DEF Shutdown, Places, Types, CloseInv, Active, LockInv,
     LockedAt, CallAt
<1>20. ASSUME NEW c \in Callers, LockForShutdown(c)
      PROVE  CloseInv'
  BY <1>20, GoesToMoves DEF LockForShutdown, Moves, CloseInv, Active, LockInv,
     LockedAt, CallAt
<1>21. ASSUME NEW c \in Callers, Stop(c)
      PROVE  CloseInv'
  BY <1>21, GoesToMoves DEF Stop, Moves, CloseInv, Active, LockInv, LockedAt, CallAt
<1>22. ASSUME NEW c \in Callers, NotifyStop(c)
      PROVE  CloseInv'
  BY <1>22, GoesToMoves, Notified DEF NotifyStop, Moves, CloseInv, Active, LockInv,
     LockedAt, CallAt
<1>23. ASSUME NEW c \in Callers, Join(c)
      PROVE  CloseInv'
  <2>1. Places(c, (IF call[c].inside THEN "rejoin" ELSE "returned"))
    BY <1>23, JoinCall DEF Places
  <2> QED  BY <1>23, <2>1 DEF Join, Places, Types, CloseInv, Active, LockInv,
     LockedAt, CallAt
<1>24. ASSUME NEW c \in Callers, Rejoin(c)
      PROVE  CloseInv'
  <2>1. Places(c, "returned")
    BY <1>24, RejoinCall DEF Places
  <2> QED  BY <1>24, <2>1 DEF Rejoin, Places, Types, CloseInv, Active, LockInv,
     LockedAt, CallAt
<1>25. ASSUME NEW w \in Workers, WaitForWork(w)
      PROVE  CloseInv'
  BY <1>25 DEF WaitForWork, CloseInv, Active
<1>26. ASSUME NEW w \in Workers, Check(w)
      PROVE  CloseInv'
  BY <1>26 DEF Check, CloseInv, Active
<1>27. ASSUME NEW w \in Workers, Fetch(w)
      PROVE  CloseInv'
  BY <1>27 DEF Fetch, CloseInv, Active
<1>28. ASSUME NEW w \in Workers, StartImage(w)
      PROVE  CloseInv'
  BY <1>28 DEF StartImage, CloseInv, Active
<1>29. ASSUME NEW w \in Workers, Yield(w)
      PROVE  CloseInv'
  BY <1>29 DEF Yield, CloseInv, Active
<1>30. ASSUME NEW w \in Workers, Regain(w)
      PROVE  CloseInv'
  BY <1>30 DEF Regain, CloseInv, Active
<1>31. ASSUME NEW w \in Workers, LeaveBatch(w)
      PROVE  CloseInv'
  BY <1>31, LeaveBatchCall, WorkerGoesToMoves DEF LeaveBatch, WorkerMoves, CloseInv,
     Active, LockInv, LockedAt, CallAt
<1>32. ASSUME NEW w \in Workers, NEW r \in {"ok", "failed", "terminal"},
             FinishImage(w, r) \/ StartFails(w, r)
      PROVE  CloseInv'
  BY <1>32 DEF FinishImage, StartFails, ImageEnds, CloseInv, Active
<1>33. CASE SpuriousWake
  BY <1>33, GoesToMoves, WorkerGoesToMoves DEF SpuriousWake, Moves, WorkerMoves,
     CloseInv, Active, LockInv, LockedAt, CallAt
<1>34. ASSUME NEW j \in Jobs, JobAdmit(j)
      PROVE  CloseInv'
  BY <1>34 DEF JobAdmit, CloseInv, Active
<1>35. ASSUME NEW j \in Jobs, JobStart(j)
      PROVE  CloseInv'
  BY <1>35 DEF JobStart, CloseInv, Active
<1>36. ASSUME NEW j \in Jobs, JobYield(j)
      PROVE  CloseInv'
  BY <1>36 DEF JobYield, CloseInv, Active
<1>37. ASSUME NEW j \in Jobs, JobRegain(j)
      PROVE  CloseInv'
  BY <1>37 DEF JobRegain, CloseInv, Active
<1>38. ASSUME NEW j \in Jobs, JobDone(j)
      PROVE  CloseInv'
  BY <1>38 DEF JobDone, CloseInv, Active
<1>39. CASE UNCHANGED vars
  BY <1>39 DEF vars, CloseInv, Active
<1> QED
  BY <1>1, <1>2, <1>3, <1>4, <1>5, <1>6, <1>7, <1>8, <1>9, <1>10, <1>11, <1>12, <1>13,
     <1>14, <1>15, <1>16, <1>17, <1>18, <1>19, <1>20, <1>21, <1>22, <1>23, <1>24,
     <1>25, <1>26, <1>27, <1>28, <1>29, <1>30, <1>31, <1>32, <1>33, <1>34, <1>35,
     <1>36, <1>37, <1>38, <1>39
  DEF Next, Obtain, Advance, Lock, ObtainSlot, Work, JobObtains, JobRuns

-----------------------------------------------------------------------------
(* The driver's books.  A worker owes the batch its leave from the moment   *)
(* the batch is handed out until it has left it.                            *)
Waited == {"notify", "wait", "asleep"}
Owes(w) == worker[w].at \in InBatch \/ worker[w].seen # generation
Owing == {w \in Workers : Owes(w)}

BookInv ==
  /\ \A w \in Workers : worker[w].at \in InBatch => worker[w].seen = generation
  /\ \A w \in Workers : Owes(w) =>
       \E c \in Callers : driver = c /\ call[c].at \in Waited
  /\ remaining = Cardinality(Owing)

LEMMA WorkerCount ==
  IsFiniteSet(Workers) /\ Cardinality(Workers) = MaxInFlight /\ MaxInFlight \in Nat
<1>1. MaxInFlight \in Nat /\ MaxInFlight > 0
  BY BatchAssumption
<1>2. IsFiniteSet(0 .. MaxInFlight - 1) /\ Cardinality(0 .. MaxInFlight - 1) = MaxInFlight
  BY <1>1, FS_Interval
<1> QED
  BY <1>1, <1>2 DEF Workers

LEMMA OwingCount ==
  /\ IsFiniteSet(Owing) /\ Cardinality(Owing) \in Nat
  /\ Cardinality(Owing) <= MaxInFlight
  /\ Cardinality(Owing) = 0 => \A w \in Workers : ~Owes(w)
<1>1. Owing \subseteq Workers
  BY DEF Owing
<1>2. IsFiniteSet(Owing) /\ Cardinality(Owing) <= Cardinality(Workers)
  BY <1>1, WorkerCount, FS_Subset
<1>3. Cardinality(Owing) = 0 => Owing = {}
  BY <1>2, FS_EmptySet
<1> QED
  BY <1>2, <1>3, WorkerCount, FS_CardinalityType DEF Owing

(* A step of a caller that leaves the books and the waiting caller alone.   *)
LEMMA BookCallers ==
  ASSUME BookInv, UNCHANGED <<generation, remaining, worker>>,
         \A c \in Callers : driver = c /\ call[c].at \in Waited =>
                              driver' = c /\ call'[c].at \in Waited
  PROVE  BookInv'
<1>1. \A w \in Workers : Owes(w)' <=> Owes(w)
  BY DEF Owes
<1>2. Owing' = Owing
  BY <1>1 DEF Owing
<1>3. \A w \in Workers : Owes(w)' => \E c \in Callers : driver' = c /\ call'[c].at \in Waited
  BY <1>1 DEF BookInv
<1> QED
  BY <1>2, <1>3 DEF BookInv

(* A step of a worker that neither joins the batch nor leaves it.           *)
LEMMA BookWorkers ==
  ASSUME BookInv, UNCHANGED <<generation, remaining, driver>>,
         \A c \in Callers : call[c].at \in Waited => call'[c].at \in Waited,
         \A w \in Workers : /\ worker'[w].at \in InBatch => worker'[w].seen = generation
                            /\ Owes(w)' <=> Owes(w)
  PROVE  BookInv'
<1>1. Owing' = Owing
  BY DEF Owing
<1>2. \A w \in Workers : Owes(w)' => \E c \in Callers : driver' = c /\ call'[c].at \in Waited
  BY DEF BookInv
<1> QED
  BY <1>1, <1>2 DEF BookInv

LEMMA BookInit == Init => BookInv
<1> SUFFICES ASSUME Init PROVE BookInv
  OBVIOUS
<1>1. \A w \in Workers : ~Owes(w)
  BY DEF Init, Owes, InBatch
<1>2. Owing = {}
  BY <1>1 DEF Owing
<1> QED
  BY <1>1, <1>2, FS_EmptySet DEF Init, BookInv, Owes

LEMMA BookStep == Types /\ LockInv /\ BookInv /\ [Next]_vars => BookInv'
<1> SUFFICES ASSUME Types, LockInv, BookInv, [Next]_vars PROVE BookInv'
  OBVIOUS
<1>1. ASSUME NEW c \in Callers, NEW b \in Batches, Encode(c, b)
      PROVE  BookInv'
  <2>1. \A d \in Callers : driver = d /\ call[d].at \in Waited =>
            driver' = d /\ call'[d].at \in Waited
    <3>1. Places(c, "arriving")
      BY <1>1, EncodeCall DEF Places
    <3> QED  BY <1>1, <3>1 DEF Encode, Places, Waited, CallAt, LockInv, LockedAt
  <2> QED  BY <1>1, <2>1, BookCallers DEF Encode, shared
<1>2. ASSUME NEW c \in Callers, CheckClosing(c)
      PROVE  BookInv'
  <2>1. \A d \in Callers : driver = d /\ call[d].at \in Waited =>
            driver' = d /\ call'[d].at \in Waited
    <3>1. CASE closing
      <4>1. /\ Places(c, "returned") /\ cpu' = cpu \ {c}
            /\ driver' = (IF driver = c THEN None ELSE driver)
        BY <1>2, <3>1, ReturnsPlaces DEF CheckClosing
      <4> QED  BY <1>2, <3>1, <4>1 DEF CheckClosing, Places, Waited, CallAt, LockInv,
         LockedAt
    <3>2. CASE ~closing
      BY <1>2, <3>2, GoesToMoves DEF CheckClosing, Moves, Waited, CallAt, LockInv,
         LockedAt
    <3> QED  BY <3>1, <3>2
  <2> QED  BY <1>2, <2>1, BookCallers DEF CheckClosing, shared
<1>3. ASSUME NEW c \in Callers, LockDriver(c)
      PROVE  BookInv'
  <2>1. \A d \in Callers : driver = d /\ call[d].at \in Waited =>
            driver' = d /\ call'[d].at \in Waited
    BY <1>3, GoesToMoves, BatchAssumption DEF LockDriver, Moves, Waited, CallAt
  <2> QED  BY <1>3, <2>1, BookCallers DEF LockDriver, shared
<1>4. ASSUME NEW c \in Callers, CheckOpen(c)
      PROVE  BookInv'
  <2>1. \A d \in Callers : driver = d /\ call[d].at \in Waited =>
            driver' = d /\ call'[d].at \in Waited
    <3>1. CASE closing
      <4>1. /\ Places(c, "returned") /\ cpu' = cpu \ {c}
            /\ driver' = (IF driver = c THEN None ELSE driver)
        BY <1>4, <3>1, ReturnsPlaces DEF CheckOpen
      <4> QED  BY <1>4, <3>1, <4>1 DEF CheckOpen, Places, Waited, CallAt, LockInv,
         LockedAt
    <3>2. CASE ~closing
      BY <1>4, <3>2, GoesToMoves DEF CheckOpen, Moves, Waited, CallAt, LockInv, LockedAt
    <3> QED  BY <3>1, <3>2
  <2> QED  BY <1>4, <2>1, BookCallers DEF CheckOpen, shared
<1>5. ASSUME NEW c \in Callers, BeginPlan(c)
      PROVE  BookInv'
  <2>1. \A d \in Callers : driver = d /\ call[d].at \in Waited =>
            driver' = d /\ call'[d].at \in Waited
    BY <1>5, GoesToMoves, BatchAssumption DEF BeginPlan, Moves, Waited, CallAt
  <2> QED  BY <1>5, <2>1, BookCallers DEF BeginPlan, shared
<1>6. ASSUME NEW c \in Callers, EndPlan(c)
      PROVE  BookInv'
  <2>1. \A d \in Callers : driver = d /\ call[d].at \in Waited =>
            driver' = d /\ call'[d].at \in Waited
    BY <1>6, GoesToMoves, BatchAssumption DEF EndPlan, Moves, Waited, CallAt
  <2> QED  BY <1>6, <2>1, BookCallers DEF EndPlan, shared
<1>7. ASSUME NEW c \in Callers, Admit(c)
      PROVE  BookInv'
  <2>1. \A d \in Callers : driver = d /\ call[d].at \in Waited =>
            driver' = d /\ call'[d].at \in Waited
    BY <1>7, GoesToMoves, BatchAssumption DEF Admit, Moves, Waited, CallAt
  <2> QED  BY <1>7, <2>1, BookCallers DEF Admit, shared
<1>8. ASSUME NEW c \in Callers, StartCpu(c)
      PROVE  BookInv'
  <2>1. \A d \in Callers : driver = d /\ call[d].at \in Waited =>
            driver' = d /\ call'[d].at \in Waited
    BY <1>8, GoesToMoves, BatchAssumption DEF StartCpu, Moves, Waited, CallAt
  <2> QED  BY <1>8, <2>1, BookCallers DEF StartCpu, shared
<1>9. ASSUME NEW c \in Callers, Abandon(c)
      PROVE  BookInv'
  <2>1. \A d \in Callers : driver = d /\ call[d].at \in Waited =>
            driver' = d /\ call'[d].at \in Waited
    <3>1. /\ Places(c, "returned") /\ cpu' = cpu \ {c}
          /\ driver' = (IF driver = c THEN None ELSE driver)
      BY <1>9, ReturnsPlaces DEF Abandon
    <3> QED  BY <1>9, <3>1 DEF Abandon, Places, Waited, CallAt, LockInv, LockedAt
  <2> QED  BY <1>9, <2>1, BookCallers DEF Abandon, shared
<1>10. ASSUME NEW c \in Callers, PublishEmpty(c)
      PROVE  BookInv'
  <2>1. \A d \in Callers : driver = d /\ call[d].at \in Waited =>
            driver' = d /\ call'[d].at \in Waited
    <3>1. /\ Places(c, "returned") /\ cpu' = cpu \ {c}
          /\ driver' = (IF driver = c THEN None ELSE driver)
      BY <1>10, ReturnsPlaces DEF PublishEmpty
    <3> QED  BY <1>10, <3>1 DEF PublishEmpty, Places, Waited, CallAt, LockInv, LockedAt
  <2> QED  BY <1>10, <2>1, BookCallers DEF PublishEmpty, shared
<1>11. ASSUME NEW c \in Callers, Dispatch(c)
      PROVE  BookInv'
  <2>1. driver = c /\ driver' = c /\ call'[c].at \in Waited
    BY <1>11, GoesToMoves DEF Dispatch, LockInv, LockedAt, Waited, Moves, CallAt
  <2>2. \A w \in Workers : ~Owes(w)
    BY <1>11, <2>1 DEF Dispatch, BookInv, Waited
  <2>3. generation' # generation /\ UNCHANGED worker
    BY <1>11, Wrapping DEF Dispatch, Types
  <2>4. \A w \in Workers : Owes(w)' /\ worker'[w].at \notin InBatch
    BY <2>2, <2>3 DEF Owes
  <2>5. Owing' = Workers
    BY <2>4 DEF Owing
  <2>6. remaining' = Cardinality(Owing')
    BY <1>11, <2>5, WorkerCount DEF Dispatch
  <2> QED  BY <2>1, <2>4, <2>6 DEF BookInv
<1>12. ASSUME NEW c \in Callers, Notify(c)
      PROVE  BookInv'
  <2>1. \A d \in Callers : call[d].at \in Waited => call'[d].at \in Waited
    BY <1>12, GoesToMoves DEF Notify, Moves, Waited, CallAt
  <2>2. \A w \in Workers : /\ worker'[w].at \in InBatch => worker'[w].seen = generation
                           /\ Owes(w)' <=> Owes(w)
    BY <1>12, Notified DEF Notify, BookInv, Owes, InBatch, shared
  <2> QED  BY <1>12, <2>1, <2>2, BookWorkers DEF Notify, shared
<1>13. ASSUME NEW c \in Callers, Wait(c)
      PROVE  BookInv'
  <2>1. CASE remaining = 0
    <3>1. \A w \in Workers : ~Owes(w)
      BY <2>1, OwingCount DEF BookInv
    <3>2. UNCHANGED <<generation, worker, remaining>>
      BY <1>13 DEF Wait, shared
    <3>3. Owing' = Owing /\ \A w \in Workers : Owes(w)' <=> Owes(w)
      BY <3>2 DEF Owing, Owes
    <3> QED  BY <3>1, <3>2, <3>3 DEF BookInv
  <2>2. CASE remaining # 0
    <3>1. \A d \in Callers : call[d].at \in Waited => call'[d].at \in Waited
      BY <1>13, <2>2, GoesToMoves DEF Wait, Moves, Waited, CallAt
    <3> QED  BY <1>13, <3>1, BookCallers DEF Wait, shared
  <2> QED  BY <2>1, <2>2
<1>14. ASSUME NEW c \in Callers, Resume(c)
      PROVE  BookInv'
  <2>1. \A d \in Callers : driver = d /\ call[d].at \in Waited =>
            driver' = d /\ call'[d].at \in Waited
    BY <1>14, GoesToMoves, BatchAssumption DEF Resume, Moves, Waited, CallAt
  <2> QED  BY <1>14, <2>1, BookCallers DEF Resume, shared
<1>15. ASSUME NEW c \in Callers, Publish(c)
      PROVE  BookInv'
  <2>1. \A d \in Callers : driver = d /\ call[d].at \in Waited =>
            driver' = d /\ call'[d].at \in Waited
    <3>1. /\ Places(c, "returned") /\ cpu' = cpu \ {c}
          /\ driver' = (IF driver = c THEN None ELSE driver)
      BY <1>15, ReturnsPlaces DEF Publish
    <3> QED  BY <1>15, <3>1 DEF Publish, Places, Waited, CallAt, LockInv, LockedAt
  <2> QED  BY <1>15, <2>1, BookCallers DEF Publish, shared
<1>16. ASSUME NEW c \in Callers, Leave(c)
      PROVE  BookInv'
  <2>1. \A d \in Callers : driver = d /\ call[d].at \in Waited =>
            driver' = d /\ call'[d].at \in Waited
    <3>1. Places(c, "outside")
      BY <1>16, LeaveCall DEF Places
    <3> QED  BY <1>16, <3>1 DEF Leave, Places, Waited, CallAt, LockInv, LockedAt
  <2> QED  BY <1>16, <2>1, BookCallers DEF Leave, shared
<1>17. ASSUME NEW c \in Callers, EnterScope(c)
      PROVE  BookInv'
  <2>1. \A d \in Callers : driver = d /\ call[d].at \in Waited =>
            driver' = d /\ call'[d].at \in Waited
    BY <1>17, EnterScopeCall DEF EnterScope
  <2> QED  BY <1>17, <2>1, BookCallers DEF EnterScope, shared
<1>18. ASSUME NEW c \in Callers, LeaveScope(c)
      PROVE  BookInv'
  <2>1. \A d \in Callers : driver = d /\ call[d].at \in Waited =>
            driver' = d /\ call'[d].at \in Waited
    BY <1>18, LeaveScopeCall DEF LeaveScope
  <2> QED  BY <1>18, <2>1, BookCallers DEF LeaveScope, shared
<1>19. ASSUME NEW c \in Callers, Shutdown(c)
      PROVE  BookInv'
  <2>1. \A d \in Callers : driver = d /\ call[d].at \in Waited =>
            driver' = d /\ call'[d].at \in Waited
    <3>1. Places(c, "closing")
      BY <1>19, ShutdownCall DEF Places
    <3> QED  BY <1>19, <3>1 DEF Shutdown, Places, Waited, CallAt, LockInv, LockedAt
  <2> QED  BY <1>19, <2>1, BookCallers DEF Shutdown, shared
<1>20. ASSUME NEW c \in Callers, LockForShutdown(c)
      PROVE  BookInv'
  <2>1. \A d \in Callers : driver = d /\ call[d].at \in Waited =>
            driver' = d /\ call'[d].at \in Waited
    BY <1>20, GoesToMoves, BatchAssumption DEF LockForShutdown, Moves, Waited, CallAt
  <2> QED  BY <1>20, <2>1, BookCallers DEF LockForShutdown, shared
<1>21. ASSUME NEW c \in Callers, Stop(c)
      PROVE  BookInv'
  <2>1. \A d \in Callers : driver = d /\ call[d].at \in Waited =>
            driver' = d /\ call'[d].at \in Waited
    BY <1>21, GoesToMoves, BatchAssumption DEF Stop, Moves, Waited, CallAt
  <2> QED  BY <1>21, <2>1, BookCallers DEF Stop, shared
<1>22. ASSUME NEW c \in Callers, NotifyStop(c)
      PROVE  BookInv'
  <2>1. \A d \in Callers : call[d].at \in Waited => call'[d].at \in Waited
    BY <1>22, GoesToMoves DEF NotifyStop, Moves, Waited, CallAt
  <2>2. \A w \in Workers : /\ worker'[w].at \in InBatch => worker'[w].seen = generation
                           /\ Owes(w)' <=> Owes(w)
    BY <1>22, Notified DEF NotifyStop, BookInv, Owes, InBatch, shared
  <2> QED  BY <1>22, <2>1, <2>2, BookWorkers DEF NotifyStop, shared
<1>23. ASSUME NEW c \in Callers, Join(c)
      PROVE  BookInv'
  <2>1. \A d \in Callers : driver = d /\ call[d].at \in Waited =>
            driver' = d /\ call'[d].at \in Waited
    <3>1. Places(c, (IF call[c].inside THEN "rejoin" ELSE "returned"))
      BY <1>23, JoinCall DEF Places
    <3> QED  BY <1>23, <3>1 DEF Join, Places, Waited, CallAt, LockInv, LockedAt
  <2> QED  BY <1>23, <2>1, BookCallers DEF Join, shared
<1>24. ASSUME NEW c \in Callers, Rejoin(c)
      PROVE  BookInv'
  <2>1. \A d \in Callers : driver = d /\ call[d].at \in Waited =>
            driver' = d /\ call'[d].at \in Waited
    BY <1>24, RejoinCall, BatchAssumption DEF Rejoin, Moves, Waited, CallAt
  <2> QED  BY <1>24, <2>1, BookCallers DEF Rejoin, shared
<1>25. ASSUME NEW w \in Workers, WaitForWork(w)
      PROVE  BookInv'
  <2>1. \A v \in Workers : /\ worker'[v].at \in InBatch => worker'[v].seen = generation
                           /\ Owes(v)' <=> Owes(v)
    <3>1. UNCHANGED generation /\ worker[w].at = "awake"
      BY <1>25 DEF WaitForWork, shared
    <3>2. \/ WorkerMoves(w, "gone") \/ WorkerMoves(w, "asleep")
          \/ /\ worker[w].seen # generation
             /\ \A v \in Workers :
                  /\ worker'[v].at = (IF v = w THEN "check" ELSE worker[v].at)
                  /\ worker'[v].seen = (IF v = w THEN generation ELSE worker[v].seen)
      BY <1>25, WaitForWorkWorker
    <3> QED  BY <3>1, <3>2 DEF WorkerMoves, BookInv, Owes, InBatch
  <2> QED  BY <1>25, <2>1, BookWorkers DEF WaitForWork, shared
<1>26. ASSUME NEW w \in Workers, Check(w)
      PROVE  BookInv'
  <2>1. \A v \in Workers : /\ worker'[v].at \in InBatch => worker'[v].seen = generation
                           /\ Owes(v)' <=> Owes(v)
    BY <1>26, WorkerGoesToMoves DEF Check, WorkerMoves, BookInv, Owes, InBatch, shared
  <2> QED  BY <1>26, <2>1, BookWorkers DEF Check, shared
<1>27. ASSUME NEW w \in Workers, Fetch(w)
      PROVE  BookInv'
  <2>1. \A v \in Workers : /\ worker'[v].at \in InBatch => worker'[v].seen = generation
                           /\ Owes(v)' <=> Owes(v)
    <3>1. /\ worker'[w].at \in InBatch /\ worker'[w].seen = worker[w].seen
          /\ \A v \in Workers : v # w =>
                 worker'[v].at = worker[v].at /\ worker'[v].seen = worker[v].seen
      BY <1>27, FetchWorker DEF InBatch
    <3> QED  BY <1>27, <3>1 DEF Fetch, BookInv, Owes, InBatch
  <2> QED  BY <1>27, <2>1, BookWorkers DEF Fetch, shared
<1>28. ASSUME NEW w \in Workers, StartImage(w)
      PROVE  BookInv'
  <2>1. \A v \in Workers : /\ worker'[v].at \in InBatch => worker'[v].seen = generation
                           /\ Owes(v)' <=> Owes(v)
    BY <1>28, WorkerGoesToMoves DEF StartImage, WorkerMoves, BookInv, Owes, InBatch,
       shared
  <2> QED  BY <1>28, <2>1, BookWorkers DEF StartImage, shared
<1>29. ASSUME NEW w \in Workers, Yield(w)
      PROVE  BookInv'
  <2>1. \A v \in Workers : /\ worker'[v].at \in InBatch => worker'[v].seen = generation
                           /\ Owes(v)' <=> Owes(v)
    BY <1>29, WorkerGoesToMoves DEF Yield, WorkerMoves, BookInv, Owes, InBatch, shared
  <2> QED  BY <1>29, <2>1, BookWorkers DEF Yield, shared
<1>30. ASSUME NEW w \in Workers, Regain(w)
      PROVE  BookInv'
  <2>1. \A v \in Workers : /\ worker'[v].at \in InBatch => worker'[v].seen = generation
                           /\ Owes(v)' <=> Owes(v)
    BY <1>30, WorkerGoesToMoves DEF Regain, WorkerMoves, BookInv, Owes, InBatch, shared
  <2> QED  BY <1>30, <2>1, BookWorkers DEF Regain, shared
<1>31. ASSUME NEW w \in Workers, LeaveBatch(w)
      PROVE  BookInv'
  <2>1. WorkerMoves(w, "awake") /\ worker[w].at = "leave" /\ UNCHANGED generation
    BY <1>31, WorkerGoesToMoves DEF LeaveBatch
  <2>2. \A v \in Workers : /\ worker'[v].at \in InBatch => worker'[v].seen = generation
                           /\ Owes(v)' <=> Owes(v) /\ v # w
    BY <2>1 DEF WorkerMoves, BookInv, Owes, InBatch
  <2>3. Owing' = Owing \ {w} /\ w \in Owing
    BY <2>1, <2>2 DEF Owing, Owes, InBatch
  <2>4. Cardinality(Owing') = Cardinality(Owing) - 1
    BY <2>3, OwingCount, FS_RemoveElement
  <2>5. \A d \in Callers : call[d].at \in Waited => call'[d].at \in Waited
    BY <1>31, LeaveBatchCall DEF Waited
  <2>6. remaining' = remaining - 1 /\ UNCHANGED <<driver, generation>>
    BY <1>31 DEF LeaveBatch
  <2> QED  BY <2>2, <2>4, <2>5, <2>6 DEF BookInv
<1>32. ASSUME NEW w \in Workers, NEW r \in {"ok", "failed", "terminal"},
             FinishImage(w, r) \/ StartFails(w, r)
      PROVE  BookInv'
  <2>1. \A v \in Workers : /\ worker'[v].at \in InBatch => worker'[v].seen = generation
                           /\ Owes(v)' <=> Owes(v)
    <3>1. /\ worker'[w].at \in InBatch /\ worker'[w].seen = worker[w].seen
          /\ \A v \in Workers : v # w =>
                 worker'[v].at = worker[v].at /\ worker'[v].seen = worker[v].seen
      BY <1>32, FinishWorker DEF FinishImage, StartFails, InBatch
    <3> QED  BY <1>32, <3>1 DEF FinishImage, StartFails, ImageEnds, BookInv, Owes, InBatch
  <2> QED  BY <1>32, <2>1, BookWorkers DEF FinishImage, StartFails, ImageEnds, shared
<1>33. CASE SpuriousWake
  <2>1. \A d \in Callers : call[d].at \in Waited => call'[d].at \in Waited
    BY <1>33, GoesToMoves DEF SpuriousWake, Moves, Waited, CallAt
  <2>2. \A v \in Workers : /\ worker'[v].at \in InBatch => worker'[v].seen = generation
                           /\ Owes(v)' <=> Owes(v)
    BY <1>33, WorkerGoesToMoves DEF SpuriousWake, WorkerMoves, BookInv, Owes, InBatch,
       shared
  <2> QED  BY <1>33, <2>1, <2>2, BookWorkers DEF SpuriousWake, shared
<1>34. ASSUME NEW j \in Jobs, JobAdmit(j)
      PROVE  BookInv'
  BY <1>34, BookCallers DEF JobAdmit, shared
<1>35. ASSUME NEW j \in Jobs, JobStart(j)
      PROVE  BookInv'
  BY <1>35, BookCallers DEF JobStart, shared
<1>36. ASSUME NEW j \in Jobs, JobYield(j)
      PROVE  BookInv'
  BY <1>36, BookCallers DEF JobYield, shared
<1>37. ASSUME NEW j \in Jobs, JobRegain(j)
      PROVE  BookInv'
  BY <1>37, BookCallers DEF JobRegain, shared
<1>38. ASSUME NEW j \in Jobs, JobDone(j)
      PROVE  BookInv'
  BY <1>38, BookCallers DEF JobDone, shared
<1>39. CASE UNCHANGED vars
  BY <1>39, BookCallers DEF vars, shared
<1> QED
  BY <1>1, <1>2, <1>3, <1>4, <1>5, <1>6, <1>7, <1>8, <1>9, <1>10, <1>11, <1>12, <1>13,
     <1>14, <1>15, <1>16, <1>17, <1>18, <1>19, <1>20, <1>21, <1>22, <1>23, <1>24,
     <1>25, <1>26, <1>27, <1>28, <1>29, <1>30, <1>31, <1>32, <1>33, <1>34, <1>35,
     <1>36, <1>37, <1>38, <1>39
  DEF Next, Obtain, Advance, Lock, ObtainSlot, Work, JobObtains, JobRuns

-----------------------------------------------------------------------------
(* Who has a participant slot.                                              *)
SlotInv ==
  /\ \A c \in Callers : c \in cpu =>
       \/ call[c].at \in {"planning", "prepare", "notify", "collect"}
       \/ call[c].inside /\ call[c].at \in {"outside", "returned"}
  /\ \A c \in Callers : call[c].at = "rejoin" => call[c].inside
  /\ \A w \in Workers : w \in cpu => worker[w].at \in {"encode", "again"}

LEMMA Apart ==
  /\ \A c \in Callers, w \in Workers : c # w
  /\ \A c \in Callers, j \in Jobs : c # j
  /\ \A w \in Workers, j \in Jobs : w # j
<1> QED  BY BatchAssumption

(* A step of one caller, of one worker and of a job.                        *)
LEMMA SlotCaller ==
  ASSUME SlotInv, NEW c \in Callers, NEW place, Places(c, place), UNCHANGED worker,
         \A t \in Callers \cup Workers : t \in cpu' /\ t # c => t \in cpu,
         c \in cpu' => \/ place \in {"planning", "prepare", "notify", "collect"}
                       \/ call[c].inside /\ place \in {"outside", "returned"},
         place = "rejoin" => call[c].inside
  PROVE  SlotInv'
<1>1. \A d \in Callers : d \in cpu' =>
        \/ call'[d].at \in {"planning", "prepare", "notify", "collect"}
        \/ call'[d].inside /\ call'[d].at \in {"outside", "returned"}
  BY DEF SlotInv, Places
<1>2. \A d \in Callers : call'[d].at = "rejoin" => call'[d].inside
  BY DEF SlotInv, Places
<1>3. \A w \in Workers : w \in cpu' => worker'[w].at \in {"encode", "again"}
  BY Apart DEF SlotInv
<1> QED
  BY <1>1, <1>2, <1>3 DEF SlotInv

LEMMA SlotWorker ==
  ASSUME SlotInv, NEW w \in Workers, UNCHANGED call,
         \A v \in Workers : v # w => worker'[v].at = worker[v].at,
         \A t \in Callers \cup Workers : t \in cpu' /\ t # w => t \in cpu,
         w \in cpu' => worker'[w].at \in {"encode", "again"}
  PROVE  SlotInv'
<1>1. \A d \in Callers : d \in cpu' => d \in cpu
  BY Apart
<1> QED
  BY <1>1 DEF SlotInv

LEMMA SlotJob ==
  ASSUME SlotInv, UNCHANGED <<call, worker>>,
         \A t \in Callers \cup Workers : t \in cpu' => t \in cpu
  PROVE  SlotInv'
<1> QED  BY DEF SlotInv

LEMMA SlotStep == Types /\ SlotInv /\ [Next]_vars => SlotInv'
<1> SUFFICES ASSUME Types, SlotInv, [Next]_vars PROVE SlotInv'
  OBVIOUS
<1>1. ASSUME NEW c \in Callers, NEW b \in Batches, Encode(c, b)
      PROVE  SlotInv'
  <2>1. Places(c, "arriving") /\ UNCHANGED worker
    BY <1>1, EncodeCall DEF Encode, Places, Moves, CallAt
  <2>2. \A t \in Callers \cup Workers : t \in cpu' /\ t # c => t \in cpu
    BY <1>1 DEF Encode, Take, Drop
  <2>3. c \notin cpu'
    BY <1>1 DEF Encode, Drop, SlotInv
  <2> QED  BY <2>1, <2>2, <2>3, SlotCaller
<1>2. ASSUME NEW c \in Callers, CheckClosing(c)
      PROVE  SlotInv'
  <2>1. CASE closing
    <3>1. /\ Places(c, "returned") /\ cpu' = cpu \ {c}
          /\ driver' = (IF driver = c THEN None ELSE driver)
      BY <1>2, <2>1, ReturnsPlaces DEF CheckClosing
    <3> QED  BY <1>2, <2>1, <3>1, Apart DEF CheckClosing, Places, SlotInv, CallAt
  <2>2. CASE ~closing
    BY <1>2, <2>2, GoesToMoves, Apart DEF CheckClosing, Moves, SlotInv, CallAt
  <2> QED  BY <2>1, <2>2
<1>3. ASSUME NEW c \in Callers, LockDriver(c)
      PROVE  SlotInv'
  BY <1>3, GoesToMoves, Apart DEF LockDriver, Moves, SlotInv, CallAt, InBatch
<1>4. ASSUME NEW c \in Callers, CheckOpen(c)
      PROVE  SlotInv'
  <2>1. CASE closing
    <3>1. /\ Places(c, "returned") /\ cpu' = cpu \ {c}
          /\ driver' = (IF driver = c THEN None ELSE driver)
      BY <1>4, <2>1, ReturnsPlaces DEF CheckOpen
    <3> QED  BY <1>4, <2>1, <3>1, Apart DEF CheckOpen, Places, SlotInv, CallAt
  <2>2. CASE ~closing
    BY <1>4, <2>2, GoesToMoves, Apart DEF CheckOpen, Moves, SlotInv, CallAt
  <2> QED  BY <2>1, <2>2
<1>5. ASSUME NEW c \in Callers, BeginPlan(c)
      PROVE  SlotInv'
  <2> DEFINE place == "planning"
  <2>1. Places(c, place) /\ UNCHANGED worker
    BY <1>5, GoesToMoves DEF BeginPlan, Places, Moves, CallAt
  <2>2. \A t \in Callers \cup Workers : t \in cpu' /\ t # c => t \in cpu
    BY <1>5 DEF BeginPlan, Take
  <2>3. place \in {"planning", "prepare", "notify", "collect"} /\ place # "rejoin"
    OBVIOUS
  <2> HIDE DEF place
  <2> QED  BY <2>1, <2>2, <2>3, SlotCaller
<1>6. ASSUME NEW c \in Callers, EndPlan(c)
      PROVE  SlotInv'
  BY <1>6, GoesToMoves, Apart DEF EndPlan, Drop, Moves, SlotInv, CallAt, InBatch
<1>7. ASSUME NEW c \in Callers, Admit(c)
      PROVE  SlotInv'
  BY <1>7, GoesToMoves, Apart DEF Admit, Moves, SlotInv, CallAt, InBatch
<1>8. ASSUME NEW c \in Callers, StartCpu(c)
      PROVE  SlotInv'
  <2> DEFINE place == "prepare"
  <2>1. Places(c, place) /\ UNCHANGED worker
    BY <1>8, GoesToMoves DEF StartCpu, Places, Moves, CallAt
  <2>2. \A t \in Callers \cup Workers : t \in cpu' /\ t # c => t \in cpu
    BY <1>8 DEF StartCpu, Take
  <2>3. place \in {"planning", "prepare", "notify", "collect"} /\ place # "rejoin"
    OBVIOUS
  <2> HIDE DEF place
  <2> QED  BY <2>1, <2>2, <2>3, SlotCaller
<1>9. ASSUME NEW c \in Callers, Abandon(c)
      PROVE  SlotInv'
  <2>1. /\ Places(c, "returned") /\ cpu' = cpu \ {c}
        /\ driver' = (IF driver = c THEN None ELSE driver)
    BY <1>9, ReturnsPlaces DEF Abandon
  <2> QED  BY <1>9, <2>1, Apart DEF Abandon, Places, SlotInv, CallAt
<1>10. ASSUME NEW c \in Callers, PublishEmpty(c)
      PROVE  SlotInv'
  <2>1. /\ Places(c, "returned") /\ cpu' = cpu \ {c}
        /\ driver' = (IF driver = c THEN None ELSE driver)
    BY <1>10, ReturnsPlaces DEF PublishEmpty
  <2> QED  BY <1>10, <2>1, Apart DEF PublishEmpty, Places, SlotInv, CallAt
<1>11. ASSUME NEW c \in Callers, Dispatch(c)
      PROVE  SlotInv'
  BY <1>11, GoesToMoves, Apart DEF Dispatch, Moves, SlotInv, CallAt, InBatch
<1>12. ASSUME NEW c \in Callers, Notify(c)
      PROVE  SlotInv'
  <2>1. \A d \in Callers : /\ call'[d].at = (IF d = c THEN "wait" ELSE call[d].at)
                           /\ call'[d].inside = call[d].inside
    BY <1>12, GoesToMoves DEF Notify, Moves, CallAt
  <2>2. \A w \in Workers : worker[w].at # "asleep" => worker'[w].at = worker[w].at
    BY <1>12, Notified DEF Notify
  <2> QED  BY <1>12, <2>1, <2>2, Apart DEF Notify, SlotInv, Drop
<1>13. ASSUME NEW c \in Callers, Wait(c)
      PROVE  SlotInv'
  BY <1>13, GoesToMoves, Apart DEF Wait, Moves, SlotInv, CallAt, InBatch
<1>14. ASSUME NEW c \in Callers, Resume(c)
      PROVE  SlotInv'
  <2> DEFINE place == "collect"
  <2>1. Places(c, place) /\ UNCHANGED worker
    BY <1>14, GoesToMoves DEF Resume, Places, Moves, CallAt
  <2>2. \A t \in Callers \cup Workers : t \in cpu' /\ t # c => t \in cpu
    BY <1>14 DEF Resume, Take
  <2>3. place \in {"planning", "prepare", "notify", "collect"} /\ place # "rejoin"
    OBVIOUS
  <2> HIDE DEF place
  <2> QED  BY <2>1, <2>2, <2>3, SlotCaller
<1>15. ASSUME NEW c \in Callers, Publish(c)
      PROVE  SlotInv'
  <2>1. /\ Places(c, "returned") /\ cpu' = cpu \ {c}
        /\ driver' = (IF driver = c THEN None ELSE driver)
    BY <1>15, ReturnsPlaces DEF Publish
  <2> QED  BY <1>15, <2>1, Apart DEF Publish, Places, SlotInv, CallAt
<1>16. ASSUME NEW c \in Callers, Leave(c)
      PROVE  SlotInv'
  <2>1. Places(c, "outside")
    BY <1>16, LeaveCall DEF Places
  <2> QED  BY <1>16, <2>1, Apart DEF Leave, Places, SlotInv, CallAt
<1>17. ASSUME NEW c \in Callers, EnterScope(c)
      PROVE  SlotInv'
  <2>1. \A d \in Callers : /\ call'[d].at = call[d].at
                           /\ call'[d].inside = (IF d = c THEN TRUE ELSE call[d].inside)
    BY <1>17, EnterScopeCall
  <2>2. \A t \in Callers \cup Workers : t \in cpu' /\ t # c => t \in cpu
    BY <1>17 DEF EnterScope, Take
  <2>3. call[c].at = "outside" /\ UNCHANGED worker
    BY <1>17 DEF EnterScope
  <2>4. \A d \in Callers : d \in cpu' =>
          \/ call'[d].at \in {"planning", "prepare", "notify", "collect"}
          \/ call'[d].inside /\ call'[d].at \in {"outside", "returned"}
    BY <2>1, <2>2, <2>3 DEF SlotInv
  <2>5. \A d \in Callers : call'[d].at = "rejoin" => call'[d].inside
    BY <2>1 DEF SlotInv
  <2>6. \A w \in Workers : w \in cpu' => worker'[w].at \in {"encode", "again"}
    BY <2>2, <2>3, Apart DEF SlotInv
  <2> QED  BY <2>4, <2>5, <2>6 DEF SlotInv
<1>18. ASSUME NEW c \in Callers, LeaveScope(c)
      PROVE  SlotInv'
  <2>1. \A d \in Callers : /\ call'[d].at = call[d].at
                           /\ call'[d].inside = (IF d = c THEN FALSE ELSE call[d].inside)
    BY <1>18, LeaveScopeCall
  <2> QED  BY <1>18, <2>1, Apart DEF LeaveScope, Drop, SlotInv
<1>19. ASSUME NEW c \in Callers, Shutdown(c)
      PROVE  SlotInv'
  <2>1. Places(c, "closing") /\ UNCHANGED worker
    BY <1>19, ShutdownCall DEF Shutdown, Places, Moves, CallAt
  <2>2. \A t \in Callers \cup Workers : t \in cpu' /\ t # c => t \in cpu
    BY <1>19 DEF Shutdown, Take, Drop
  <2>3. c \notin cpu'
    BY <1>19 DEF Shutdown, Drop, SlotInv
  <2> QED  BY <2>1, <2>2, <2>3, SlotCaller
<1>20. ASSUME NEW c \in Callers, LockForShutdown(c)
      PROVE  SlotInv'
  BY <1>20, GoesToMoves, Apart DEF LockForShutdown, Moves, SlotInv, CallAt, InBatch
<1>21. ASSUME NEW c \in Callers, Stop(c)
      PROVE  SlotInv'
  BY <1>21, GoesToMoves, Apart DEF Stop, Moves, SlotInv, CallAt, InBatch
<1>22. ASSUME NEW c \in Callers, NotifyStop(c)
      PROVE  SlotInv'
  <2>1. \A d \in Callers : /\ call'[d].at = (IF d = c THEN "join" ELSE call[d].at)
                           /\ call'[d].inside = call[d].inside
    BY <1>22, GoesToMoves DEF NotifyStop, Moves, CallAt
  <2>2. \A w \in Workers : worker[w].at # "asleep" => worker'[w].at = worker[w].at
    BY <1>22, Notified DEF NotifyStop
  <2> QED  BY <1>22, <2>1, <2>2, Apart DEF NotifyStop, SlotInv, Drop
<1>23. ASSUME NEW c \in Callers, Join(c)
      PROVE  SlotInv'
  <2>1. Places(c, (IF call[c].inside THEN "rejoin" ELSE "returned")) /\ UNCHANGED worker
    BY <1>23, JoinCall DEF Join, Places, Moves, CallAt
  <2>2. \A t \in Callers \cup Workers : t \in cpu' /\ t # c => t \in cpu
    BY <1>23 DEF Join, Take, Drop
  <2>3. c \notin cpu'
    BY <1>23 DEF Join, Drop, SlotInv
  <2> QED  BY <2>1, <2>2, <2>3, SlotCaller
<1>24. ASSUME NEW c \in Callers, Rejoin(c)
      PROVE  SlotInv'
  <2>1. Places(c, "returned") /\ UNCHANGED worker
    BY <1>24, RejoinCall DEF Rejoin, Places, Moves, CallAt
  <2>2. \A t \in Callers \cup Workers : t \in cpu' /\ t # c => t \in cpu
    BY <1>24 DEF Rejoin, Take, Drop
  <2>3. call[c].inside
    BY <1>24 DEF Rejoin, Drop, SlotInv
  <2> QED  BY <2>1, <2>2, <2>3, SlotCaller
<1>25. ASSUME NEW w \in Workers, WaitForWork(w)
      PROVE  SlotInv'
  <2>1. \A v \in Workers : v # w => worker'[v].at = worker[v].at
    BY <1>25, WaitForWorkWorker DEF WorkerMoves
  <2> QED  BY <1>25, <2>1, Apart DEF WaitForWork, SlotInv
<1>26. ASSUME NEW w \in Workers, Check(w)
      PROVE  SlotInv'
  BY <1>26, WorkerGoesToMoves, Apart DEF Check, WorkerMoves, SlotInv, CallAt, InBatch
<1>27. ASSUME NEW w \in Workers, Fetch(w)
      PROVE  SlotInv'
  <2>1. \A v \in Workers : v # w => worker'[v].at = worker[v].at
    BY <1>27, FetchWorker
  <2> QED  BY <1>27, <2>1, Apart DEF Fetch, SlotInv
<1>28. ASSUME NEW w \in Workers, StartImage(w)
      PROVE  SlotInv'
  <2>1. /\ \A v \in Workers : v # w => worker'[v].at = worker[v].at
        /\ worker'[w].at \in {"encode", "again"}
    BY <1>28, WorkerGoesToMoves DEF StartImage, WorkerMoves, InBatch
  <2>2. UNCHANGED call /\ \A t \in Callers \cup Workers : t \in cpu' /\ t # w => t \in cpu
    BY <1>28 DEF StartImage, Take
  <2> QED  BY <2>1, <2>2, SlotWorker
<1>29. ASSUME NEW w \in Workers, Yield(w)
      PROVE  SlotInv'
  BY <1>29, WorkerGoesToMoves, Apart DEF Yield, Drop, WorkerMoves, SlotInv, CallAt,
     InBatch
<1>30. ASSUME NEW w \in Workers, Regain(w)
      PROVE  SlotInv'
  <2>1. /\ \A v \in Workers : v # w => worker'[v].at = worker[v].at
        /\ worker'[w].at \in {"encode", "again"}
    BY <1>30, WorkerGoesToMoves DEF Regain, WorkerMoves, InBatch
  <2>2. UNCHANGED call /\ \A t \in Callers \cup Workers : t \in cpu' /\ t # w => t \in cpu
    BY <1>30 DEF Regain, Take
  <2> QED  BY <2>1, <2>2, SlotWorker
<1>31. ASSUME NEW w \in Workers, LeaveBatch(w)
      PROVE  SlotInv'
  <2>1. \A v \in Workers : v # w => worker'[v].at = worker[v].at
    BY <1>31, WorkerGoesToMoves DEF LeaveBatch, WorkerMoves
  <2>2. \A d \in Callers : /\ call[d].at # "asleep" => call'[d].at = call[d].at
                           /\ call'[d].at = call[d].at \/ call'[d].at = "wait"
                           /\ call'[d].inside = call[d].inside
    BY <1>31, LeaveBatchCall
  <2> QED  BY <1>31, <2>1, <2>2, Apart DEF LeaveBatch, SlotInv
<1>32. ASSUME NEW w \in Workers, NEW r \in {"ok", "failed", "terminal"},
             FinishImage(w, r) \/ StartFails(w, r)
      PROVE  SlotInv'
  <2>1. \A v \in Workers : v # w => worker'[v].at = worker[v].at
    BY <1>32, FinishWorker DEF FinishImage, StartFails
  <2> QED  BY <1>32, <2>1, Apart DEF FinishImage, StartFails, ImageEnds, SlotInv, Drop
<1>33. CASE SpuriousWake
  BY <1>33, GoesToMoves, WorkerGoesToMoves, Apart DEF SpuriousWake, Moves,
     WorkerMoves, SlotInv, CallAt, InBatch
<1>34. ASSUME NEW j \in Jobs, JobAdmit(j)
      PROVE  SlotInv'
  BY <1>34, Apart DEF JobAdmit, SlotInv, CallAt, InBatch
<1>35. ASSUME NEW j \in Jobs, JobStart(j)
      PROVE  SlotInv'
  <2>1. \A t \in Callers \cup Workers : t \in cpu' => t \in cpu
    BY <1>35, Apart DEF JobStart, Take
  <2> QED  BY <1>35, <2>1, SlotJob DEF JobStart
<1>36. ASSUME NEW j \in Jobs, JobYield(j)
      PROVE  SlotInv'
  BY <1>36, Apart DEF JobYield, Drop, SlotInv, CallAt, InBatch
<1>37. ASSUME NEW j \in Jobs, JobRegain(j)
      PROVE  SlotInv'
  <2>1. \A t \in Callers \cup Workers : t \in cpu' => t \in cpu
    BY <1>37, Apart DEF JobRegain, Take
  <2> QED  BY <1>37, <2>1, SlotJob DEF JobRegain
<1>38. ASSUME NEW j \in Jobs, JobDone(j)
      PROVE  SlotInv'
  BY <1>38, Apart DEF JobDone, Drop, SlotInv, CallAt, InBatch
<1>39. CASE UNCHANGED vars
  BY <1>39, Apart DEF vars, SlotInv, CallAt, InBatch
<1> QED
  BY <1>1, <1>2, <1>3, <1>4, <1>5, <1>6, <1>7, <1>8, <1>9, <1>10, <1>11, <1>12, <1>13,
     <1>14, <1>15, <1>16, <1>17, <1>18, <1>19, <1>20, <1>21, <1>22, <1>23, <1>24,
     <1>25, <1>26, <1>27, <1>28, <1>29, <1>30, <1>31, <1>32, <1>33, <1>34, <1>35,
     <1>36, <1>37, <1>38, <1>39
  DEF Next, Obtain, Advance, Lock, ObtainSlot, Work, JobObtains, JobRuns

-----------------------------------------------------------------------------
(* The images.  A worker encodes an image that was handed out and has no    *)
(* result yet, and no other worker encodes it.                              *)
Dispatched(c) == call[c].at \in {"notify", "wait", "asleep", "resume", "collect"}

ImageInv ==
  /\ \A c \in Callers : Dispatched(c) => next_index >= 1
  /\ \A w \in Workers : Encoding(w) =>
       /\ worker[w].index \in DOMAIN status /\ worker[w].index < next_index
       /\ status[worker[w].index] = "pending"
  /\ \A v, w \in Workers : Encoding(v) /\ Encoding(w) /\ v # w =>
                             worker[v].index # worker[w].index

(* The first worker always has a work slot if there is an image to encode,  *)
(* and it leaves only when every index has been handed out.                 *)
HasLeft(w) == ~Owes(w) \/ worker[w].at = "leave"

CompleteInv ==
  \A c \in Callers : Dispatched(c) =>
    /\ Len(status) = Len(call[c].asked)
    /\ \A i \in DOMAIN status :
         IF call[c].asked[i] = "good"
           THEN status[i] \in {"pending", "ok", "failed", "terminal"}
           ELSE status[i] = "invalid"
    /\ terminal = 0 => \A i \in DOMAIN status : status[i] # "terminal"
    /\ in_flight = 0 => \A i \in DOMAIN status : status[i] # "pending"
    /\ \A i \in DOMAIN status : i < next_index /\ status[i] = "pending" =>
         \E w \in Workers : Encoding(w) /\ worker[w].index = i
    /\ in_flight > 0 /\ terminal = 0 /\ HasLeft(0) => next_index > Len(status)

WorkInv == ImageInv /\ CompleteInv

LEMMA FirstWorker == 0 \in Workers
<1> QED  BY BatchAssumption DEF Workers

(* Whoever is in the batch has a dispatched caller.                         *)
LEMMA OwedByDispatched ==
  ASSUME BookInv, NEW w \in Workers, Owes(w)
  PROVE  \E c \in Callers : driver = c /\ Dispatched(c)
<1> QED  BY DEF BookInv, Waited, Dispatched

(* A step that neither hands out an image nor finishes one.                 *)
LEMMA QuietStep ==
  ASSUME WorkInv, UNCHANGED <<status, terminal, in_flight, next_index>>,
         \A c \in Callers : Dispatched(c)' => Dispatched(c) /\ call'[c].asked = call[c].asked,
         \A w \in Workers : /\ Encoding(w)' <=> Encoding(w)
                            /\ Encoding(w) => worker'[w].index = worker[w].index,
         in_flight > 0 /\ terminal = 0 /\ HasLeft(0)' =>
           HasLeft(0) \/ next_index > Len(status)
  PROVE  WorkInv'
<1>1. ImageInv'
  BY DEF WorkInv, ImageInv
<1>2. ASSUME NEW c \in Callers, Dispatched(c)'
      PROVE  /\ Len(status) = Len(call[c].asked)
             /\ \A i \in DOMAIN status :
                  IF call[c].asked[i] = "good"
                    THEN status[i] \in {"pending", "ok", "failed", "terminal"}
                    ELSE status[i] = "invalid"
             /\ terminal = 0 => \A i \in DOMAIN status : status[i] # "terminal"
             /\ in_flight = 0 => \A i \in DOMAIN status : status[i] # "pending"
             /\ \A i \in DOMAIN status : i < next_index /\ status[i] = "pending" =>
                  \E w \in Workers : Encoding(w) /\ worker[w].index = i
             /\ in_flight > 0 /\ terminal = 0 /\ HasLeft(0) => next_index > Len(status)
             /\ call'[c].asked = call[c].asked
  BY <1>2 DEF WorkInv, CompleteInv
<1>3. \A i \in DOMAIN status : (\E w \in Workers : Encoding(w) /\ worker[w].index = i) =>
                                 \E w \in Workers : Encoding(w)' /\ worker'[w].index = i
  OBVIOUS
<1>4. CompleteInv'
  BY <1>2, <1>3 DEF CompleteInv
<1> QED
  BY <1>1, <1>4 DEF WorkInv

(* ... in particular a step that leaves the workers alone.                  *)
LEMMA QuietCaller ==
  ASSUME WorkInv, UNCHANGED <<shared, worker>>,
         \A c \in Callers : Dispatched(c)' => Dispatched(c) /\ call'[c].asked = call[c].asked
  PROVE  WorkInv'
<1>1. \A w \in Workers : /\ Encoding(w)' <=> Encoding(w)
                         /\ worker'[w].index = worker[w].index /\ (HasLeft(w)' <=> HasLeft(w))
  BY DEF Encoding, HasLeft, Owes, shared
<1>2. UNCHANGED <<status, terminal, in_flight, next_index>>
  BY DEF shared
<1> QED
  BY <1>1, <1>2, FirstWorker, QuietStep

LEMMA PlannedImages ==
  ASSUME NEW batch \in Batches \cup {<<>>}
  PROVE  /\ \A i \in DOMAIN Planned(batch) :
              IF batch[i] = "good" THEN Planned(batch)[i] = "pending"
                                   ELSE Planned(batch)[i] = "invalid"
         /\ 0 \in WorkSlots(batch) => \A i \in DOMAIN Planned(batch) : Planned(batch)[i] # "pending"
<1> DEFINE good == {i \in 1 .. Len(batch) : batch[i] = "good"}
<1>1. Len(batch) \in Nat /\ DOMAIN Planned(batch) = 1 .. Len(batch)
  BY PlannedType
<1>2. \A i \in 1 .. Len(batch) : Planned(batch)[i] =
        IF batch[i] = "good" THEN "pending" ELSE "invalid"
  BY DEF Planned
<1>3. 0 \in WorkSlots(batch) => Cardinality(good) = 0
  BY BatchAssumption DEF WorkSlots
<1>4. IsFiniteSet(good)
  <2>1. IsFiniteSet(1 .. Len(batch))
    BY <1>1, FS_Interval
  <2> QED  BY <2>1, FS_Subset
<1>5. 0 \in WorkSlots(batch) => good = {}
  BY <1>3, <1>4, FS_EmptySet
<1> QED
  BY <1>1, <1>2, <1>5

LEMMA WorkInit == Init => WorkInv
<1> QED  BY DEF Init, WorkInv, ImageInv, CompleteInv, Dispatched, Encoding, Outside

LEMMA WorkStep == Types /\ LockInv /\ BookInv /\ WorkInv /\ [Next]_vars => WorkInv'
<1> SUFFICES ASSUME Types, LockInv, BookInv, WorkInv, [Next]_vars PROVE WorkInv'
  OBVIOUS
<1>1. ASSUME NEW c \in Callers, NEW b \in Batches, Encode(c, b)
      PROVE  WorkInv'
  <2>1. \A d \in Callers : Dispatched(d)' => Dispatched(d) /\ call'[d].asked = call[d].asked
    BY <1>1, EncodeCall DEF Dispatched
  <2> QED  BY <1>1, <2>1, QuietCaller DEF Encode
<1>2. ASSUME NEW c \in Callers, CheckClosing(c)
      PROVE  WorkInv'
  <2>1. \A d \in Callers : Dispatched(d)' => Dispatched(d) /\ call'[d].asked = call[d].asked
    <3>1. CASE closing
      BY <1>2, <3>1, ReturnsPlaces DEF CheckClosing, Places, Dispatched
    <3>2. CASE ~closing
      BY <1>2, <3>2, GoesToMoves DEF CheckClosing, Moves, Dispatched, CallAt
    <3> QED  BY <3>1, <3>2
  <2> QED  BY <1>2, <2>1, QuietCaller DEF CheckClosing
<1>3. ASSUME NEW c \in Callers, LockDriver(c)
      PROVE  WorkInv'
  <2>1. \A d \in Callers : Dispatched(d)' => Dispatched(d) /\ call'[d].asked = call[d].asked
    BY <1>3, GoesToMoves DEF LockDriver, Moves, Dispatched, CallAt
  <2> QED  BY <1>3, <2>1, QuietCaller DEF LockDriver
<1>4. ASSUME NEW c \in Callers, CheckOpen(c)
      PROVE  WorkInv'
  <2>1. \A d \in Callers : Dispatched(d)' => Dispatched(d) /\ call'[d].asked = call[d].asked
    <3>1. CASE closing
      BY <1>4, <3>1, ReturnsPlaces DEF CheckOpen, Places, Dispatched
    <3>2. CASE ~closing
      BY <1>4, <3>2, GoesToMoves DEF CheckOpen, Moves, Dispatched, CallAt
    <3> QED  BY <3>1, <3>2
  <2> QED  BY <1>4, <2>1, QuietCaller DEF CheckOpen
<1>5. ASSUME NEW c \in Callers, BeginPlan(c)
      PROVE  WorkInv'
  <2>1. \A d \in Callers : Dispatched(d)' => Dispatched(d) /\ call'[d].asked = call[d].asked
    BY <1>5, GoesToMoves DEF BeginPlan, Moves, Dispatched, CallAt
  <2> QED  BY <1>5, <2>1, QuietCaller DEF BeginPlan
<1>6. ASSUME NEW c \in Callers, EndPlan(c)
      PROVE  WorkInv'
  <2>1. \A d \in Callers : Dispatched(d)' => Dispatched(d) /\ call'[d].asked = call[d].asked
    BY <1>6, GoesToMoves DEF EndPlan, Moves, Dispatched, CallAt
  <2> QED  BY <1>6, <2>1, QuietCaller DEF EndPlan
<1>7. ASSUME NEW c \in Callers, Admit(c)
      PROVE  WorkInv'
  <2>1. \A d \in Callers : Dispatched(d)' => Dispatched(d) /\ call'[d].asked = call[d].asked
    BY <1>7, GoesToMoves DEF Admit, Moves, Dispatched, CallAt
  <2> QED  BY <1>7, <2>1, QuietCaller DEF Admit
<1>8. ASSUME NEW c \in Callers, StartCpu(c)
      PROVE  WorkInv'
  <2>1. \A d \in Callers : Dispatched(d)' => Dispatched(d) /\ call'[d].asked = call[d].asked
    BY <1>8, GoesToMoves DEF StartCpu, Moves, Dispatched, CallAt
  <2> QED  BY <1>8, <2>1, QuietCaller DEF StartCpu
<1>9. ASSUME NEW c \in Callers, Abandon(c)
      PROVE  WorkInv'
  <2>1. \A d \in Callers : Dispatched(d)' => Dispatched(d) /\ call'[d].asked = call[d].asked
    BY <1>9, ReturnsPlaces DEF Abandon, Places, Dispatched
  <2> QED  BY <1>9, <2>1, QuietCaller DEF Abandon
<1>10. ASSUME NEW c \in Callers, PublishEmpty(c)
      PROVE  WorkInv'
  <2>1. \A d \in Callers : Dispatched(d)' => Dispatched(d) /\ call'[d].asked = call[d].asked
    BY <1>10, ReturnsPlaces DEF PublishEmpty, Places, Dispatched
  <2> QED  BY <1>10, <2>1, QuietCaller DEF PublishEmpty
<1>11. ASSUME NEW c \in Callers, Dispatch(c)
      PROVE  WorkInv'
  <2>1. driver = c /\ driver' = c /\ \A d \in Callers : Dispatched(d)' => d = c
    BY <1>11, GoesToMoves DEF Dispatch, LockInv, LockedAt, Dispatched, Moves, CallAt
  <2>2. call'[c].asked = call[c].asked /\ call[c].asked \in Batches \cup {<<>>}
    BY <1>11, GoesToMoves, CallerTypes DEF Dispatch, Moves, CallAt, Types
  <2>3. \A w \in Workers : ~Owes(w)
    BY <1>11, <2>1 DEF Dispatch, BookInv, Waited
  <2>4. generation' # generation /\ UNCHANGED worker
    BY <1>11, Wrapping DEF Dispatch, Types
  <2>5. \A w \in Workers : ~Encoding(w)' /\ ~HasLeft(w)'
    BY <2>3, <2>4 DEF Encoding, HasLeft, Owes, InBatch
  <2>6. /\ status' = Planned(call[c].asked) /\ next_index' = 1
        /\ terminal' = 0 /\ in_flight' \in WorkSlots(call[c].asked)
    BY <1>11 DEF Dispatch
  <2>7. /\ Len(status') = Len(call[c].asked) /\ DOMAIN status' = 1 .. Len(call[c].asked)
        /\ Len(call[c].asked) \in Nat
    BY <2>2, <2>6, PlannedType
  <2>8. ImageInv'
    BY <2>5, <2>6 DEF ImageInv
  <2>9. /\ \A i \in DOMAIN status' :
             IF call[c].asked[i] = "good" THEN status'[i] = "pending" ELSE status'[i] = "invalid"
        /\ in_flight' = 0 => \A i \in DOMAIN status' : status'[i] # "pending"
    BY <2>2, <2>6, PlannedImages
  <2>10. \A i \in DOMAIN status' : ~(i < next_index')
    BY <2>6, <2>7
  <2>11. CompleteInv'
    BY <2>1, <2>2, <2>5, <2>7, <2>9, <2>10, FirstWorker DEF CompleteInv
  <2> QED  BY <2>8, <2>11 DEF WorkInv
<1>12. ASSUME NEW c \in Callers, Notify(c)
      PROVE  WorkInv'
  <2>1. \A d \in Callers : Dispatched(d)' => Dispatched(d) /\ call'[d].asked = call[d].asked
    BY <1>12, GoesToMoves DEF Notify, Moves, Dispatched, CallAt
  <2>2. \A v \in Workers : /\ Encoding(v)' <=> Encoding(v)
                           /\ Encoding(v) => worker'[v].index = worker[v].index
    BY <1>12, Notified DEF Notify, Encoding
  <2>3. in_flight > 0 /\ terminal = 0 /\ HasLeft(0)' => HasLeft(0) \/ next_index > Len(status)
    BY <1>12, Notified, FirstWorker DEF Notify, HasLeft, Owes, InBatch, shared
  <2> QED  BY <1>12, <2>1, <2>2, <2>3, QuietStep DEF Notify, shared
<1>13. ASSUME NEW c \in Callers, Wait(c)
      PROVE  WorkInv'
  <2>1. \A d \in Callers : Dispatched(d)' => Dispatched(d) /\ call'[d].asked = call[d].asked
    BY <1>13, GoesToMoves DEF Wait, Moves, Dispatched, CallAt
  <2> QED  BY <1>13, <2>1, QuietCaller DEF Wait
<1>14. ASSUME NEW c \in Callers, Resume(c)
      PROVE  WorkInv'
  <2>1. \A d \in Callers : Dispatched(d)' => Dispatched(d) /\ call'[d].asked = call[d].asked
    BY <1>14, GoesToMoves DEF Resume, Moves, Dispatched, CallAt
  <2> QED  BY <1>14, <2>1, QuietCaller DEF Resume
<1>15. ASSUME NEW c \in Callers, Publish(c)
      PROVE  WorkInv'
  <2>1. \A d \in Callers : Dispatched(d)' => Dispatched(d) /\ call'[d].asked = call[d].asked
    BY <1>15, ReturnsPlaces DEF Publish, Places, Dispatched
  <2> QED  BY <1>15, <2>1, QuietCaller DEF Publish
<1>16. ASSUME NEW c \in Callers, Leave(c)
      PROVE  WorkInv'
  <2>1. \A d \in Callers : Dispatched(d)' => Dispatched(d) /\ call'[d].asked = call[d].asked
    BY <1>16, LeaveCall DEF Dispatched
  <2> QED  BY <1>16, <2>1, QuietCaller DEF Leave
<1>17. ASSUME NEW c \in Callers, EnterScope(c)
      PROVE  WorkInv'
  <2>1. \A d \in Callers : Dispatched(d)' => Dispatched(d) /\ call'[d].asked = call[d].asked
    BY <1>17, EnterScopeCall DEF Dispatched
  <2> QED  BY <1>17, <2>1, QuietCaller DEF EnterScope
<1>18. ASSUME NEW c \in Callers, LeaveScope(c)
      PROVE  WorkInv'
  <2>1. \A d \in Callers : Dispatched(d)' => Dispatched(d) /\ call'[d].asked = call[d].asked
    BY <1>18, LeaveScopeCall DEF Dispatched
  <2> QED  BY <1>18, <2>1, QuietCaller DEF LeaveScope
<1>19. ASSUME NEW c \in Callers, Shutdown(c)
      PROVE  WorkInv'
  <2>1. \A d \in Callers : Dispatched(d)' => Dispatched(d) /\ call'[d].asked = call[d].asked
    BY <1>19, ShutdownCall DEF Dispatched
  <2> QED  BY <1>19, <2>1, QuietCaller DEF Shutdown
<1>20. ASSUME NEW c \in Callers, LockForShutdown(c)
      PROVE  WorkInv'
  <2>1. \A d \in Callers : Dispatched(d)' => Dispatched(d) /\ call'[d].asked = call[d].asked
    BY <1>20, GoesToMoves DEF LockForShutdown, Moves, Dispatched, CallAt
  <2> QED  BY <1>20, <2>1, QuietCaller DEF LockForShutdown
<1>21. ASSUME NEW c \in Callers, Stop(c)
      PROVE  WorkInv'
  <2>1. \A d \in Callers : Dispatched(d)' => Dispatched(d) /\ call'[d].asked = call[d].asked
    BY <1>21, GoesToMoves DEF Stop, Moves, Dispatched, CallAt
  <2> QED  BY <1>21, <2>1, QuietCaller DEF Stop
<1>22. ASSUME NEW c \in Callers, NotifyStop(c)
      PROVE  WorkInv'
  <2>1. \A d \in Callers : Dispatched(d)' => Dispatched(d) /\ call'[d].asked = call[d].asked
    BY <1>22, GoesToMoves DEF NotifyStop, Moves, Dispatched, CallAt
  <2>2. \A v \in Workers : /\ Encoding(v)' <=> Encoding(v)
                           /\ Encoding(v) => worker'[v].index = worker[v].index
    BY <1>22, Notified DEF NotifyStop, Encoding
  <2>3. in_flight > 0 /\ terminal = 0 /\ HasLeft(0)' => HasLeft(0) \/ next_index > Len(status)
    BY <1>22, Notified, FirstWorker DEF NotifyStop, HasLeft, Owes, InBatch, shared
  <2> QED  BY <1>22, <2>1, <2>2, <2>3, QuietStep DEF NotifyStop, shared
<1>23. ASSUME NEW c \in Callers, Join(c)
      PROVE  WorkInv'
  <2>1. \A d \in Callers : Dispatched(d)' => Dispatched(d) /\ call'[d].asked = call[d].asked
    BY <1>23, JoinCall DEF Dispatched
  <2> QED  BY <1>23, <2>1, QuietCaller DEF Join
<1>24. ASSUME NEW c \in Callers, Rejoin(c)
      PROVE  WorkInv'
  <2>1. \A d \in Callers : Dispatched(d)' => Dispatched(d) /\ call'[d].asked = call[d].asked
    BY <1>24, RejoinCall DEF Dispatched
  <2> QED  BY <1>24, <2>1, QuietCaller DEF Rejoin
<1>25. ASSUME NEW w \in Workers, WaitForWork(w)
      PROVE  WorkInv'
  <2>1. \A d \in Callers : Dispatched(d)' => Dispatched(d) /\ call'[d].asked = call[d].asked
    BY <1>25 DEF WaitForWork, Dispatched
  <2>2. \A v \in Workers : /\ Encoding(v)' <=> Encoding(v)
                           /\ Encoding(v) => worker'[v].index = worker[v].index
    BY <1>25, WaitForWorkWorker DEF WorkerMoves, Encoding, WaitForWork
  <2>3. in_flight > 0 /\ terminal = 0 /\ HasLeft(0)' => HasLeft(0) \/ next_index > Len(status)
    BY <1>25, WaitForWorkWorker, FirstWorker DEF WorkerMoves, HasLeft, Owes, InBatch,
       WaitForWork, shared
  <2> QED  BY <1>25, <2>1, <2>2, <2>3, QuietStep DEF WaitForWork, shared
<1>26. ASSUME NEW w \in Workers, Check(w)
      PROVE  WorkInv'
  <2>1. \A d \in Callers : Dispatched(d)' => Dispatched(d) /\ call'[d].asked = call[d].asked
    BY <1>26 DEF Check, Dispatched
  <2>2. \A v \in Workers : /\ Encoding(v)' <=> Encoding(v)
                           /\ Encoding(v) => worker'[v].index = worker[v].index
    BY <1>26, WorkerGoesToMoves DEF Check, WorkerMoves, Encoding, InBatch
  <2>3. in_flight > 0 /\ terminal = 0 /\ HasLeft(0)' => HasLeft(0) \/ next_index > Len(status)
    BY <1>26, WorkerGoesToMoves, FirstWorker, BatchAssumption DEF Check, WorkerMoves,
       HasLeft, Owes, InBatch, shared
  <2> QED  BY <1>26, <2>1, <2>2, <2>3, QuietStep DEF Check, shared
<1>27. ASSUME NEW w \in Workers, Fetch(w)
      PROVE  WorkInv'
  <2>1. /\ \A v \in Workers : v # w =>
               worker'[v].at = worker[v].at /\ worker'[v].index = worker[v].index
        /\ \A v \in Workers : worker'[v].seen = worker[v].seen
        /\ worker'[w].at = (IF next_index > Len(status) THEN "leave"
                            ELSE IF status[next_index] = "pending" THEN "start" ELSE "check")
        /\ worker'[w].index = (IF next_index > Len(status) THEN 0 ELSE next_index)
    BY <1>27, FetchWorker
  <2>2. /\ UNCHANGED <<status, terminal, in_flight, generation, call>> /\ next_index' = next_index + 1
        /\ worker[w].at = "fetch" /\ next_index \in Nat
    BY <1>27 DEF Fetch, Types
  <2>3. next_index >= 1
    BY <2>2, OwedByDispatched DEF Owes, InBatch, WorkInv, ImageInv
  <2>4. Len(status) \in Nat /\ DOMAIN status = 1 .. Len(status)
    BY DEF Types
  <2>5. ~Encoding(w) /\ \A v \in Workers : v # w => (Encoding(v)' <=> Encoding(v))
    BY <2>1, <2>2 DEF Encoding
  <2>6. Encoding(w)' => /\ worker'[w].index = next_index /\ next_index \in DOMAIN status
                        /\ status[next_index] = "pending"
    BY <2>1, <2>2, <2>3, <2>4 DEF Encoding
  <2>7. \A v \in Workers : Encoding(v) =>
            worker[v].index \in Nat /\ worker[v].index < next_index
    BY <2>4 DEF WorkInv, ImageInv
  <2>8. ImageInv'
    <3>1. \A d \in Callers : Dispatched(d)' => next_index' >= 1
      BY <2>2, <2>3
    <3>2. \A v \in Workers : Encoding(v)' =>
             /\ worker'[v].index \in DOMAIN status /\ worker'[v].index < next_index + 1
             /\ status[worker'[v].index] = "pending"
      BY <2>1, <2>2, <2>5, <2>6, <2>7 DEF WorkInv, ImageInv
    <3>3. \A u, v \in Workers : Encoding(u)' /\ Encoding(v)' /\ u # v =>
              worker'[u].index # worker'[v].index
      BY <2>1, <2>2, <2>5, <2>6, <2>7 DEF WorkInv, ImageInv
    <3> QED  BY <2>2, <3>1, <3>2, <3>3 DEF ImageInv
  <2>9. ASSUME NEW c \in Callers, Dispatched(c)
        PROVE  /\ \A i \in DOMAIN status : i < next_index + 1 /\ status[i] = "pending" =>
                    \E v \in Workers : Encoding(v)' /\ worker'[v].index = i
               /\ in_flight > 0 /\ terminal = 0 /\ HasLeft(0)' => next_index + 1 > Len(status)
    <3>1. ASSUME NEW i \in DOMAIN status, i < next_index + 1, status[i] = "pending"
          PROVE  \E v \in Workers : Encoding(v)' /\ worker'[v].index = i
      <4>1. CASE i = next_index
        BY <2>1, <2>2, <2>4, <3>1, <4>1 DEF Encoding
      <4>2. CASE i < next_index
        <5>1. PICK v \in Workers : Encoding(v) /\ worker[v].index = i
          BY <2>9, <3>1, <4>2 DEF WorkInv, CompleteInv
        <5> QED  BY <2>1, <2>5, <5>1
      <4> QED  BY <2>2, <2>4, <3>1, <4>1, <4>2
    <3>2. HasLeft(0)' => HasLeft(0) \/ next_index > Len(status)
      BY <2>1, <2>2, FirstWorker DEF HasLeft, Owes, InBatch
    <3>3. in_flight > 0 /\ terminal = 0 /\ HasLeft(0) => next_index > Len(status)
      BY <2>9 DEF WorkInv, CompleteInv
    <3> QED  BY <2>2, <2>4, <3>1, <3>2, <3>3
  <2>10. CompleteInv'
    BY <2>2, <2>9 DEF WorkInv, CompleteInv, Dispatched
  <2> QED  BY <2>8, <2>10 DEF WorkInv
<1>28. ASSUME NEW w \in Workers, StartImage(w)
      PROVE  WorkInv'
  <2>1. \A d \in Callers : Dispatched(d)' => Dispatched(d) /\ call'[d].asked = call[d].asked
    BY <1>28 DEF StartImage, Dispatched
  <2>2. \A v \in Workers : /\ Encoding(v)' <=> Encoding(v)
                           /\ Encoding(v) => worker'[v].index = worker[v].index
    BY <1>28, WorkerGoesToMoves DEF StartImage, WorkerMoves, Encoding, InBatch
  <2>3. in_flight > 0 /\ terminal = 0 /\ HasLeft(0)' => HasLeft(0) \/ next_index > Len(status)
    BY <1>28, WorkerGoesToMoves, FirstWorker, BatchAssumption DEF StartImage,
       WorkerMoves, HasLeft, Owes, InBatch, shared
  <2> QED  BY <1>28, <2>1, <2>2, <2>3, QuietStep DEF StartImage, shared
<1>29. ASSUME NEW w \in Workers, Yield(w)
      PROVE  WorkInv'
  <2>1. \A d \in Callers : Dispatched(d)' => Dispatched(d) /\ call'[d].asked = call[d].asked
    BY <1>29 DEF Yield, Dispatched
  <2>2. \A v \in Workers : /\ Encoding(v)' <=> Encoding(v)
                           /\ Encoding(v) => worker'[v].index = worker[v].index
    BY <1>29, WorkerGoesToMoves DEF Yield, WorkerMoves, Encoding, InBatch
  <2>3. in_flight > 0 /\ terminal = 0 /\ HasLeft(0)' => HasLeft(0) \/ next_index > Len(status)
    BY <1>29, WorkerGoesToMoves, FirstWorker, BatchAssumption DEF Yield, WorkerMoves,
       HasLeft, Owes, InBatch, shared
  <2> QED  BY <1>29, <2>1, <2>2, <2>3, QuietStep DEF Yield, shared
<1>30. ASSUME NEW w \in Workers, Regain(w)
      PROVE  WorkInv'
  <2>1. \A d \in Callers : Dispatched(d)' => Dispatched(d) /\ call'[d].asked = call[d].asked
    BY <1>30 DEF Regain, Dispatched
  <2>2. \A v \in Workers : /\ Encoding(v)' <=> Encoding(v)
                           /\ Encoding(v) => worker'[v].index = worker[v].index
    BY <1>30, WorkerGoesToMoves DEF Regain, WorkerMoves, Encoding, InBatch
  <2>3. in_flight > 0 /\ terminal = 0 /\ HasLeft(0)' => HasLeft(0) \/ next_index > Len(status)
    BY <1>30, WorkerGoesToMoves, FirstWorker, BatchAssumption DEF Regain, WorkerMoves,
       HasLeft, Owes, InBatch, shared
  <2> QED  BY <1>30, <2>1, <2>2, <2>3, QuietStep DEF Regain, shared
<1>31. ASSUME NEW w \in Workers, LeaveBatch(w)
      PROVE  WorkInv'
  <2>1. \A d \in Callers : Dispatched(d)' => Dispatched(d) /\ call'[d].asked = call[d].asked
    BY <1>31, LeaveBatchCall DEF Dispatched
  <2>2. \A v \in Workers : /\ Encoding(v)' <=> Encoding(v)
                           /\ Encoding(v) => worker'[v].index = worker[v].index
    BY <1>31, WorkerGoesToMoves DEF LeaveBatch, WorkerMoves, Encoding
  <2>3. in_flight > 0 /\ terminal = 0 /\ HasLeft(0)' => HasLeft(0) \/ next_index > Len(status)
    BY <1>31, WorkerGoesToMoves, FirstWorker DEF LeaveBatch, WorkerMoves, HasLeft,
       Owes, InBatch
  <2> QED  BY <1>31, <2>1, <2>2, <2>3, QuietStep DEF LeaveBatch, shared
<1>32. ASSUME NEW w \in Workers, NEW r \in {"ok", "failed", "terminal"},
             FinishImage(w, r) \/ StartFails(w, r)
      PROVE  WorkInv'
  <2> DEFINE k == worker[w].index
  <2>1. /\ \A v \in Workers : v # w =>
               worker'[v].at = worker[v].at /\ worker'[v].index = worker[v].index
        /\ \A v \in Workers : worker'[v].seen = worker[v].seen
        /\ worker'[w].at = "check"
    BY <1>32, FinishWorker DEF FinishImage, StartFails
  <2>2. /\ UNCHANGED <<next_index, in_flight, generation, call>>
        /\ status' = [status EXCEPT ![k] = r]
        /\ terminal' = (IF r = "terminal" /\ terminal = 0 THEN k ELSE terminal)
    BY <1>32 DEF FinishImage, StartFails, ImageEnds
  <2>3. Encoding(w) /\ Owes(w)
    BY <1>32 DEF FinishImage, StartFails, ImageEnds, Encoding, Owes, InBatch
  <2>4. Len(status) \in Nat /\ DOMAIN status = 1 .. Len(status) /\ next_index \in Nat
    BY DEF Types
  <2>5. k \in DOMAIN status /\ status[k] = "pending"
    BY <2>3 DEF WorkInv, ImageInv
  <2> HIDE DEF k
  <2>6. /\ DOMAIN status' = DOMAIN status /\ Len(status') = Len(status)
        /\ \A i \in DOMAIN status : status'[i] = IF i = k THEN r ELSE status[i]
    BY <2>2, <2>4, <2>5
  <2>7. /\ ~Encoding(w)'
        /\ \A v \in Workers : v # w => /\ Encoding(v)' <=> Encoding(v)
                                       /\ Encoding(v) => worker[v].index # k
    BY <2>1, <2>3 DEF Encoding, WorkInv, ImageInv, k
  <2>8. ImageInv'
    <3>1. \A d \in Callers : Dispatched(d)' => next_index' >= 1
      BY <2>2 DEF WorkInv, ImageInv, Dispatched
    <3>2. \A v \in Workers : Encoding(v)' =>
             /\ worker'[v].index \in DOMAIN status' /\ worker'[v].index < next_index'
             /\ status'[worker'[v].index] = "pending"
      BY <2>1, <2>2, <2>6, <2>7 DEF WorkInv, ImageInv
    <3>3. \A u, v \in Workers : Encoding(u)' /\ Encoding(v)' /\ u # v =>
              worker'[u].index # worker'[v].index
      BY <2>1, <2>7 DEF WorkInv, ImageInv
    <3> QED  BY <3>1, <3>2, <3>3 DEF ImageInv
  <2>9. ASSUME NEW c \in Callers, Dispatched(c)
        PROVE  /\ Len(status') = Len(call[c].asked)
               /\ \A i \in DOMAIN status' :
                    IF call[c].asked[i] = "good"
                      THEN status'[i] \in {"pending", "ok", "failed", "terminal"}
                      ELSE status'[i] = "invalid"
               /\ terminal' = 0 => \A i \in DOMAIN status' : status'[i] # "terminal"
               /\ in_flight = 0 => \A i \in DOMAIN status' : status'[i] # "pending"
               /\ \A i \in DOMAIN status' : i < next_index /\ status'[i] = "pending" =>
                    \E v \in Workers : Encoding(v)' /\ worker'[v].index = i
               /\ in_flight > 0 /\ terminal' = 0 /\ HasLeft(0)' => next_index > Len(status')
    <3>1. /\ Len(status) = Len(call[c].asked)
          /\ \A i \in DOMAIN status :
               IF call[c].asked[i] = "good"
                 THEN status[i] \in {"pending", "ok", "failed", "terminal"}
                 ELSE status[i] = "invalid"
          /\ terminal = 0 => \A i \in DOMAIN status : status[i] # "terminal"
          /\ in_flight = 0 => \A i \in DOMAIN status : status[i] # "pending"
          /\ \A i \in DOMAIN status : i < next_index /\ status[i] = "pending" =>
               \E v \in Workers : Encoding(v) /\ worker[v].index = i
          /\ in_flight > 0 /\ terminal = 0 /\ HasLeft(0) => next_index > Len(status)
      BY <2>9 DEF WorkInv, CompleteInv
    <3>2. terminal' = 0 => terminal = 0 /\ r # "terminal"
      BY <2>2, <2>4, <2>5
    <3>3. ASSUME NEW i \in DOMAIN status, i < next_index, status'[i] = "pending"
          PROVE  \E v \in Workers : Encoding(v)' /\ worker'[v].index = i
      <4>1. i # k /\ status[i] = "pending"
        BY <2>6, <3>3
      <4>2. PICK v \in Workers : Encoding(v) /\ worker[v].index = i
        BY <3>1, <3>3, <4>1
      <4> QED  BY <2>1, <2>7, <4>1, <4>2 DEF k
    <3>4. HasLeft(0)' => HasLeft(0)
      BY <2>1, <2>2, <2>3, FirstWorker DEF HasLeft, Owes, InBatch
    <3>5. \A i \in DOMAIN status : IF call[c].asked[i] = "good"
                                     THEN status'[i] \in {"pending", "ok", "failed", "terminal"}
                                     ELSE status'[i] = "invalid"
      BY <2>5, <2>6, <3>1
    <3> QED  BY <2>6, <3>1, <3>2, <3>3, <3>4, <3>5
  <2>10. CompleteInv'
    BY <2>2, <2>9 DEF CompleteInv, Dispatched
  <2> QED  BY <2>8, <2>10 DEF WorkInv
<1>33. CASE SpuriousWake
  <2>1. \A d \in Callers : Dispatched(d)' => Dispatched(d) /\ call'[d].asked = call[d].asked
    BY <1>33, GoesToMoves DEF SpuriousWake, Moves, Dispatched, CallAt
  <2>2. \A v \in Workers : /\ Encoding(v)' <=> Encoding(v)
                           /\ Encoding(v) => worker'[v].index = worker[v].index
    BY <1>33, WorkerGoesToMoves DEF SpuriousWake, WorkerMoves, Encoding
  <2>3. in_flight > 0 /\ terminal = 0 /\ HasLeft(0)' => HasLeft(0) \/ next_index > Len(status)
    BY <1>33, WorkerGoesToMoves, FirstWorker DEF SpuriousWake, WorkerMoves, HasLeft,
       Owes, InBatch, shared
  <2> QED  BY <1>33, <2>1, <2>2, <2>3, QuietStep DEF SpuriousWake, shared
<1>34. ASSUME NEW j \in Jobs, JobAdmit(j)
      PROVE  WorkInv'
  BY <1>34, QuietCaller DEF JobAdmit, Dispatched
<1>35. ASSUME NEW j \in Jobs, JobStart(j)
      PROVE  WorkInv'
  BY <1>35, QuietCaller DEF JobStart, Dispatched
<1>36. ASSUME NEW j \in Jobs, JobYield(j)
      PROVE  WorkInv'
  BY <1>36, QuietCaller DEF JobYield, Dispatched
<1>37. ASSUME NEW j \in Jobs, JobRegain(j)
      PROVE  WorkInv'
  BY <1>37, QuietCaller DEF JobRegain, Dispatched
<1>38. ASSUME NEW j \in Jobs, JobDone(j)
      PROVE  WorkInv'
  BY <1>38, QuietCaller DEF JobDone, Dispatched
<1>39. CASE UNCHANGED vars
  BY <1>39, QuietCaller DEF vars, Dispatched
<1> QED
  BY <1>1, <1>2, <1>3, <1>4, <1>5, <1>6, <1>7, <1>8, <1>9, <1>10, <1>11, <1>12, <1>13,
     <1>14, <1>15, <1>16, <1>17, <1>18, <1>19, <1>20, <1>21, <1>22, <1>23, <1>24,
     <1>25, <1>26, <1>27, <1>28, <1>29, <1>30, <1>31, <1>32, <1>33, <1>34, <1>35,
     <1>36, <1>37, <1>38, <1>39
  DEF Next, Obtain, Advance, Lock, ObtainSlot, Work, JobObtains, JobRuns

-----------------------------------------------------------------------------
(* Only a call that is over has an answer, and only a published one has     *)
(* results.                                                                 *)
AnswerInv ==
  \A c \in Callers :
    /\ call[c].answer # "none" <=> call[c].at = "returned"
    /\ call[c].answer # "published" => call[c].results = <<>>

LEMMA AnswerStep == Types /\ AnswerInv /\ [Next]_vars => AnswerInv'
<1> SUFFICES ASSUME Types, AnswerInv, [Next]_vars PROVE AnswerInv'
  OBVIOUS
<1>1. ASSUME NEW c \in Callers, NEW b \in Batches, Encode(c, b)
      PROVE  AnswerInv'
  <2>1. \A d \in Callers : /\ call'[d].at = (IF d = c THEN "arriving" ELSE call[d].at)
                           /\ call'[d].answer = call[d].answer
                           /\ call'[d].results = call[d].results
    BY <1>1, EncodeCall
  <2>2. call[c].answer = "none" /\ call[c].results = <<>>
    BY <1>1 DEF Encode, AnswerInv
  <2> QED  BY <2>1, <2>2 DEF AnswerInv
<1>2. ASSUME NEW c \in Callers, CheckClosing(c)
      PROVE  AnswerInv'
  <2>1. CASE closing
    BY <1>2, <2>1, ReturnsPlaces DEF CheckClosing, Places, AnswerInv
  <2>2. CASE ~closing
    BY <1>2, <2>2, GoesToMoves DEF CheckClosing, Moves, AnswerInv, CallAt
  <2> QED  BY <2>1, <2>2
<1>3. ASSUME NEW c \in Callers, LockDriver(c)
      PROVE  AnswerInv'
  BY <1>3, GoesToMoves DEF LockDriver, Moves, AnswerInv, CallAt
<1>4. ASSUME NEW c \in Callers, CheckOpen(c)
      PROVE  AnswerInv'
  <2>1. CASE closing
    BY <1>4, <2>1, ReturnsPlaces DEF CheckOpen, Places, AnswerInv
  <2>2. CASE ~closing
    BY <1>4, <2>2, GoesToMoves DEF CheckOpen, Moves, AnswerInv, CallAt
  <2> QED  BY <2>1, <2>2
<1>5. ASSUME NEW c \in Callers, BeginPlan(c)
      PROVE  AnswerInv'
  BY <1>5, GoesToMoves DEF BeginPlan, Take, Moves, AnswerInv, CallAt
<1>6. ASSUME NEW c \in Callers, EndPlan(c)
      PROVE  AnswerInv'
  BY <1>6, GoesToMoves DEF EndPlan, Drop, Moves, AnswerInv, CallAt
<1>7. ASSUME NEW c \in Callers, Admit(c)
      PROVE  AnswerInv'
  BY <1>7, GoesToMoves DEF Admit, Moves, AnswerInv, CallAt
<1>8. ASSUME NEW c \in Callers, StartCpu(c)
      PROVE  AnswerInv'
  BY <1>8, GoesToMoves DEF StartCpu, Take, Moves, AnswerInv, CallAt
<1>9. ASSUME NEW c \in Callers, Abandon(c)
      PROVE  AnswerInv'
  BY <1>9, ReturnsPlaces DEF Abandon, Places, AnswerInv
<1>10. ASSUME NEW c \in Callers, PublishEmpty(c)
      PROVE  AnswerInv'
  BY <1>10, ReturnsPlaces DEF PublishEmpty, Places, AnswerInv
<1>11. ASSUME NEW c \in Callers, Dispatch(c)
      PROVE  AnswerInv'
  BY <1>11, GoesToMoves DEF Dispatch, Moves, AnswerInv, CallAt
<1>12. ASSUME NEW c \in Callers, Notify(c)
      PROVE  AnswerInv'
  BY <1>12, GoesToMoves, Notified DEF Notify, Drop, Moves, AnswerInv, CallAt
<1>13. ASSUME NEW c \in Callers, Wait(c)
      PROVE  AnswerInv'
  BY <1>13, GoesToMoves DEF Wait, Moves, AnswerInv, CallAt
<1>14. ASSUME NEW c \in Callers, Resume(c)
      PROVE  AnswerInv'
  BY <1>14, GoesToMoves DEF Resume, Take, Moves, AnswerInv, CallAt
<1>15. ASSUME NEW c \in Callers, Publish(c)
      PROVE  AnswerInv'
  <2>1. CASE terminal = 0
    BY <1>15, <2>1, ReturnsPlaces DEF Publish, Places, AnswerInv
  <2>2. CASE terminal # 0
    BY <1>15, <2>2, ReturnsPlaces DEF Publish, Places, AnswerInv
  <2> QED  BY <2>1, <2>2
<1>16. ASSUME NEW c \in Callers, Leave(c)
      PROVE  AnswerInv'
  <2>1. \A d \in Callers : /\ call'[d].at = (IF d = c THEN "outside" ELSE call[d].at)
                           /\ call'[d].answer = (IF d = c THEN "none" ELSE call[d].answer)
                           /\ call'[d].results = (IF d = c THEN <<>> ELSE call[d].results)
    BY <1>16, LeaveCall
  <2> QED  BY <1>16, <2>1 DEF Leave, AnswerInv
<1>17. ASSUME NEW c \in Callers, EnterScope(c)
      PROVE  AnswerInv'
  <2>1. \A d \in Callers : /\ call'[d].at = call[d].at
                           /\ call'[d].answer = call[d].answer
                           /\ call'[d].results = call[d].results
    BY <1>17, EnterScopeCall
  <2> QED  BY <1>17, <2>1 DEF EnterScope, AnswerInv
<1>18. ASSUME NEW c \in Callers, LeaveScope(c)
      PROVE  AnswerInv'
  <2>1. \A d \in Callers : /\ call'[d].at = call[d].at
                           /\ call'[d].answer = call[d].answer
                           /\ call'[d].results = call[d].results
    BY <1>18, LeaveScopeCall
  <2> QED  BY <1>18, <2>1 DEF LeaveScope, AnswerInv
<1>19. ASSUME NEW c \in Callers, Shutdown(c)
      PROVE  AnswerInv'
  <2>1. \A d \in Callers : /\ call'[d].at = (IF d = c THEN "closing" ELSE call[d].at)
                           /\ call'[d].answer = call[d].answer
                           /\ call'[d].results = call[d].results
    BY <1>19, ShutdownCall
  <2>2. call[c].answer = "none" /\ call[c].results = <<>>
    BY <1>19 DEF Shutdown, AnswerInv
  <2> QED  BY <2>1, <2>2 DEF AnswerInv
<1>20. ASSUME NEW c \in Callers, LockForShutdown(c)
      PROVE  AnswerInv'
  BY <1>20, GoesToMoves DEF LockForShutdown, Moves, AnswerInv, CallAt
<1>21. ASSUME NEW c \in Callers, Stop(c)
      PROVE  AnswerInv'
  BY <1>21, GoesToMoves DEF Stop, Moves, AnswerInv, CallAt
<1>22. ASSUME NEW c \in Callers, NotifyStop(c)
      PROVE  AnswerInv'
  BY <1>22, GoesToMoves, Notified DEF NotifyStop, Moves, AnswerInv, CallAt
<1>23. ASSUME NEW c \in Callers, Join(c)
      PROVE  AnswerInv'
  <2>1. \A d \in Callers : /\ call'[d].at = (IF d = c
                                               THEN (IF call[c].inside THEN "rejoin" ELSE "returned")
                                               ELSE call[d].at)
                           /\ call'[d].answer = (IF d # c THEN call[d].answer
                                                  ELSE IF call[c].inside THEN "none" ELSE "closed")
                           /\ call'[d].results = call[d].results
    BY <1>23, JoinCall
  <2>2. call[c].answer = "none" /\ call[c].results = <<>>
    BY <1>23 DEF Join, AnswerInv
  <2> QED  BY <2>1, <2>2 DEF AnswerInv
<1>24. ASSUME NEW c \in Callers, Rejoin(c)
      PROVE  AnswerInv'
  <2>1. \A d \in Callers : /\ call'[d].at = (IF d = c THEN "returned" ELSE call[d].at)
                           /\ call'[d].answer = (IF d = c THEN "closed" ELSE call[d].answer)
                           /\ call'[d].results = call[d].results
    BY <1>24, RejoinCall
  <2>2. call[c].answer = "none" /\ call[c].results = <<>>
    BY <1>24 DEF Rejoin, AnswerInv
  <2> QED  BY <2>1, <2>2 DEF AnswerInv
<1>25. ASSUME NEW w \in Workers, WaitForWork(w)
      PROVE  AnswerInv'
  BY <1>25 DEF WaitForWork, AnswerInv
<1>26. ASSUME NEW w \in Workers, Check(w)
      PROVE  AnswerInv'
  BY <1>26 DEF Check, AnswerInv
<1>27. ASSUME NEW w \in Workers, Fetch(w)
      PROVE  AnswerInv'
  BY <1>27 DEF Fetch, AnswerInv
<1>28. ASSUME NEW w \in Workers, StartImage(w)
      PROVE  AnswerInv'
  BY <1>28 DEF StartImage, AnswerInv
<1>29. ASSUME NEW w \in Workers, Yield(w)
      PROVE  AnswerInv'
  BY <1>29 DEF Yield, AnswerInv
<1>30. ASSUME NEW w \in Workers, Regain(w)
      PROVE  AnswerInv'
  BY <1>30 DEF Regain, AnswerInv
<1>31. ASSUME NEW w \in Workers, LeaveBatch(w)
      PROVE  AnswerInv'
  <2>1. \A d \in Callers : /\ call'[d].at = (IF remaining' = 0 /\ call[d].at = "asleep"
                                               THEN "wait"
                                               ELSE call[d].at)
                           /\ call'[d].answer = call[d].answer
                           /\ call'[d].results = call[d].results
    BY <1>31, LeaveBatchCall
  <2> QED  BY <1>31, <2>1 DEF LeaveBatch, AnswerInv
<1>32. ASSUME NEW w \in Workers, NEW r \in {"ok", "failed", "terminal"},
             FinishImage(w, r) \/ StartFails(w, r)
      PROVE  AnswerInv'
  BY <1>32 DEF FinishImage, StartFails, ImageEnds, AnswerInv
<1>33. CASE SpuriousWake
  BY <1>33, GoesToMoves, WorkerGoesToMoves DEF SpuriousWake, Moves, WorkerMoves,
     AnswerInv, CallAt
<1>34. ASSUME NEW j \in Jobs, JobAdmit(j)
      PROVE  AnswerInv'
  BY <1>34 DEF JobAdmit, AnswerInv
<1>35. ASSUME NEW j \in Jobs, JobStart(j)
      PROVE  AnswerInv'
  BY <1>35 DEF JobStart, AnswerInv
<1>36. ASSUME NEW j \in Jobs, JobYield(j)
      PROVE  AnswerInv'
  BY <1>36 DEF JobYield, AnswerInv
<1>37. ASSUME NEW j \in Jobs, JobRegain(j)
      PROVE  AnswerInv'
  BY <1>37 DEF JobRegain, AnswerInv
<1>38. ASSUME NEW j \in Jobs, JobDone(j)
      PROVE  AnswerInv'
  BY <1>38 DEF JobDone, AnswerInv
<1>39. CASE UNCHANGED vars
  BY <1>39 DEF vars, AnswerInv
<1> QED
  BY <1>1, <1>2, <1>3, <1>4, <1>5, <1>6, <1>7, <1>8, <1>9, <1>10, <1>11, <1>12, <1>13,
     <1>14, <1>15, <1>16, <1>17, <1>18, <1>19, <1>20, <1>21, <1>22, <1>23, <1>24,
     <1>25, <1>26, <1>27, <1>28, <1>29, <1>30, <1>31, <1>32, <1>33, <1>34, <1>35,
     <1>36, <1>37, <1>38, <1>39
  DEF Next, Obtain, Advance, Lock, ObtainSlot, Work, JobObtains, JobRuns

-----------------------------------------------------------------------------
(* The invariant of the driver, and the safety properties it implies.       *)
IInv == /\ Types /\ CpuInv /\ LockInv /\ CloseInv /\ BookInv /\ SlotInv /\ WorkInv
        /\ AnswerInv

LEMMA InitIInv == Init => IInv
<1> SUFFICES ASSUME Init PROVE IInv
  OBVIOUS
<1>1. CpuInv
  <2>1. IsFiniteSet({}) /\ Cardinality({}) = 0
    BY FS_EmptySet
  <2> QED  BY <2>1, BatchAssumption DEF Init, CpuInv
<1>2. LockInv
  BY BatchAssumption DEF Init, LockInv, LockedAt, Outside
<1>3. CloseInv /\ SlotInv /\ AnswerInv
  BY DEF Init, CloseInv, SlotInv, AnswerInv, Outside
<1> QED
  BY <1>1, <1>2, <1>3, TypesInit, BookInit, WorkInit DEF IInv

LEMMA NextIInv == IInv /\ [Next]_vars => IInv'
<1> QED
  BY TypesStep, CpuStep, LockStep, CloseStep, BookStep, SlotStep, WorkStep, AnswerStep DEF IInv

LEMMA Invariance == Spec => []IInv
<1> QED
  BY InitIInv, NextIInv, PTL DEF Spec

(* Every variable keeps its type, remaining_workers_ is never decremented   *)
(* below zero and no more than Slots threads participate                    *)
(* (src/src/codestream/batch_workflow.cpp).                                 *)
THEOREM TypeInvariant == Spec => []TypeOK
<1>1. IInv => TypeOK
  <2> SUFFICES ASSUME IInv PROVE TypeOK
    OBVIOUS
  <2>1. remaining \in 0 .. MaxInFlight
    <3>1. Cardinality(Owing) \in 0 .. MaxInFlight
      BY OwingCount, WorkerCount
    <3> QED  BY <3>1 DEF IInv, BookInv
  <2> QED  BY <2>1 DEF IInv, Types, CpuInv, TypeOK, CallType, WorkerType
<1> QED
  BY <1>1, Invariance, PTL

(* Two workers never encode the same image, and an image with a result is   *)
(* never encoded again: what next_index_.fetch_add hands out is unique      *)
(* within a batch, and no worker of an older batch is left when the counter *)
(* starts again.                                                            *)
THEOREM ImagesInvariant == Spec => []EachImageOnce
<1>1. IInv => EachImageOnce
  BY DEF IInv, WorkInv, ImageInv, EachImageOnce
<1> QED
  BY <1>1, Invariance, PTL

(* The caller's arrays outlive every worker that may touch them, and        *)
(* remaining_workers_ counts the workers that have yet to leave.            *)
THEOREM BooksInvariant == Spec => []JobOutlivesWorkers
<1>1. IInv => JobOutlivesWorkers
  <2> SUFFICES ASSUME IInv PROVE JobOutlivesWorkers
    OBVIOUS
  <2>1. ASSUME NEW w \in Workers, worker[w].at \in InBatch
        PROVE  /\ worker[w].seen = generation
               /\ driver # None /\ call[driver].at \in {"notify", "wait", "asleep"}
    <3>1. PICK c \in Callers : driver = c /\ call[c].at \in Waited
      BY <2>1 DEF IInv, BookInv, Owes
    <3> QED  BY <2>1, <3>1, BatchAssumption DEF IInv, BookInv, Waited
  <2>2. remaining = Cardinality({w \in Workers :
                       worker[w].at \in InBatch \/ worker[w].seen # generation})
    BY DEF IInv, BookInv, Owing, Owes
  <2> QED  BY <2>1, <2>2 DEF JobOutlivesWorkers
<1> QED
  BY <1>1, Invariance, PTL

(* Shutdown tells the workers to stop only when no call is active and no    *)
(* worker has images left to abandon.                                       *)
THEOREM StopInvariant == Spec => []StopsOnlyWhenDrained
<1>1. IInv => StopsOnlyWhenDrained
  <2> SUFFICES ASSUME IInv, stopping PROVE StopsOnlyWhenDrained
    BY DEF StopsOnlyWhenDrained
  <2>1. \A c \in Callers : ~Active(c)
    BY DEF IInv, CloseInv
  <2>2. \A w \in Workers : ~Owes(w)
    BY <2>1 DEF IInv, BookInv, Waited, Active
  <2>3. Owing = {}
    BY <2>2 DEF Owing
  <2>4. remaining = 0
    BY <2>3, FS_EmptySet DEF IInv, BookInv
  <2> QED  BY <2>1, <2>4 DEF StopsOnlyWhenDrained, Active
<1> QED
  BY <1>1, Invariance, PTL

(* Nobody waits, for the driver, for memory, for the images or for the      *)
(* workers' end, with a participant slot that the one waited for may need.  *)
THEOREM SlotInvariant == Spec => []NobodyBlocksWithSlot
<1>1. IInv => NobodyBlocksWithSlot
  BY DEF IInv, SlotInv, NobodyBlocksWithSlot
<1> QED
  BY <1>1, Invariance, PTL

-----------------------------------------------------------------------------
(* The refinement of BatchDriver.  What a caller has got so far, the batches *)
(* and the active caller are the refinement mapping's.                      *)
Is(c) == CASE call[c].answer # "none" -> call[c].answer
           [] call[c].at = "outside" -> "none"
           [] call[c].at \in {"closing", "stop", "stop_notify", "join", "rejoin"} -> "closing"
           [] OTHER -> "pending"
Outcome == [c \in Callers |-> [is |-> Is(c), results |-> call[c].results]]
Asked == [c \in Callers |-> call[c].asked]
ActiveCaller == IF driver # None /\ Active(driver) THEN driver ELSE None

(* The caller looks to BatchDriver as it did before the step.               *)
Same(c) == /\ Is(c)' = Is(c) /\ (Active(c)' <=> Active(c))
           /\ call'[c].results = call[c].results /\ call'[c].asked = call[c].asked

LEMMA IsCases ==
  ASSUME IInv, NEW c \in Callers
  PROVE  /\ call[c].answer # "none" => Is(c) = call[c].answer
         /\ call[c].answer = "none" =>
              /\ call[c].at = "outside" => Is(c) = "none"
              /\ call[c].at \in {"closing", "stop", "stop_notify", "join", "rejoin"} => Is(c) = "closing"
              /\ call[c].at \notin {"outside", "closing", "stop", "stop_notify", "join", "rejoin"} =>
                   Is(c) = "pending"
<1>1. CASE call[c].answer # "none"
  <2>1. call[c].at = "returned"
    BY <1>1 DEF IInv, AnswerInv
  <2>2. /\ call[c].at # "outside"
        /\ call[c].at \notin {"closing", "stop", "stop_notify", "join", "rejoin"}
    BY <2>1
  <2> QED  BY <1>1, <2>2 DEF Is
<1>2. CASE call[c].answer = "none" /\ call[c].at = "outside"
  BY <1>2 DEF Is
<1>3. CASE /\ call[c].answer = "none"
           /\ call[c].at \in {"closing", "stop", "stop_notify", "join", "rejoin"}
  <2>1. call[c].at # "outside"
    BY <1>3
  <2> QED  BY <1>3, <2>1 DEF Is
<1>4. CASE /\ call[c].answer = "none"
           /\ call[c].at \notin {"outside", "closing", "stop", "stop_notify", "join", "rejoin"}
  <2>1. /\ call[c].at # "outside"
        /\ call[c].at \notin {"closing", "stop", "stop_notify", "join", "rejoin"}
    BY <1>4
  <2> QED  BY <1>4, <2>1 DEF Is
<1> QED
  BY <1>1, <1>2, <1>3, <1>4

LEMMA IsCasesNext ==
  ASSUME IInv', NEW c \in Callers
  PROVE  /\ call'[c].answer # "none" => Is(c)' = call'[c].answer
         /\ call'[c].answer = "none" =>
              /\ call'[c].at = "outside" => Is(c)' = "none"
              /\ call'[c].at \in {"closing", "stop", "stop_notify", "join", "rejoin"} => Is(c)' = "closing"
              /\ call'[c].at \notin {"outside", "closing", "stop", "stop_notify", "join", "rejoin"} =>
                   Is(c)' = "pending"
<1>1. CASE call'[c].answer # "none"
  <2>1. call'[c].at = "returned"
    BY <1>1 DEF IInv, AnswerInv
  <2>2. /\ call'[c].at # "outside"
        /\ call'[c].at \notin {"closing", "stop", "stop_notify", "join", "rejoin"}
    BY <2>1
  <2> QED  BY <1>1, <2>2 DEF Is
<1>2. CASE call'[c].answer = "none" /\ call'[c].at = "outside"
  BY <1>2 DEF Is
<1>3. CASE /\ call'[c].answer = "none"
           /\ call'[c].at \in {"closing", "stop", "stop_notify", "join", "rejoin"}
  <2>1. call'[c].at # "outside"
    BY <1>3
  <2> QED  BY <1>3, <2>1 DEF Is
<1>4. CASE /\ call'[c].answer = "none"
           /\ call'[c].at \notin {"outside", "closing", "stop", "stop_notify", "join", "rejoin"}
  <2>1. /\ call'[c].at # "outside"
        /\ call'[c].at \notin {"closing", "stop", "stop_notify", "join", "rejoin"}
    BY <1>4
  <2> QED  BY <1>4, <2>1 DEF Is
<1> QED
  BY <1>1, <1>2, <1>3, <1>4

(* A caller whose record keeps its kind of place looks the same.            *)
LEMMA SameRecord ==
  ASSUME IInv, IInv', NEW c \in Callers, call'[c] = call[c]
  PROVE  Same(c)
<1>1. Is(c)' = Is(c)
  BY IsCases, IsCasesNext
<1> QED  BY <1>1 DEF Same, Active

LEMMA SamePlace ==
  ASSUME IInv, IInv', NEW c \in Callers, call'[c].answer = call[c].answer,
         call'[c].results = call[c].results, call'[c].asked = call[c].asked,
         Active(c)' <=> Active(c),
         \/ call[c].answer # "none"
         \/ call'[c].at = call[c].at
         \/ {call[c].at, call'[c].at} \subseteq {"closing", "stop", "stop_notify", "join", "rejoin"}
         \/ {call[c].at, call'[c].at} \cap
              {"outside", "closing", "stop", "stop_notify", "join", "rejoin"} = {}
  PROVE  Same(c)
<1>1. Is(c)' = Is(c)
  <2>1. CASE call[c].answer # "none"
    BY <2>1, IsCases, IsCasesNext
  <2>2. CASE call[c].answer = "none" /\ call'[c].at = call[c].at
    BY <2>2, IsCases, IsCasesNext
  <2>3. CASE /\ call[c].answer = "none"
             /\ {call[c].at, call'[c].at} \subseteq {"closing", "stop", "stop_notify", "join", "rejoin"}
    BY <2>3, IsCases, IsCasesNext
  <2>4. CASE /\ call[c].answer = "none"
             /\ {call[c].at, call'[c].at} \cap
                  {"outside", "closing", "stop", "stop_notify", "join", "rejoin"} = {}
    BY <2>4, IsCases, IsCasesNext
  <2> QED  BY <2>1, <2>2, <2>3, <2>4
<1> QED
  BY <1>1 DEF Same

(* The active caller is the one that is active.                             *)
LEMMA ActiveIs ==
  ASSUME IInv
  PROVE  /\ ActiveCaller \in Callers \cup {None}
         /\ \A c \in Callers : Active(c) <=> ActiveCaller = c
<1>1. \A c \in Callers : Active(c) => driver = c
  BY DEF IInv, LockInv, LockedAt, Active
<1>2. driver \in Callers \cup {None} /\ None \notin Callers
  BY BatchAssumption DEF IInv, Types
<1> QED  BY <1>1, <1>2 DEF ActiveCaller

LEMMA ActiveIsNext ==
  ASSUME IInv'
  PROVE  /\ ActiveCaller' \in Callers \cup {None}
         /\ \A c \in Callers : Active(c)' <=> ActiveCaller' = c
<1>1. \A c \in Callers : Active(c)' => driver' = c
  BY DEF IInv, LockInv, LockedAt, Active
<1>2. driver' \in Callers \cup {None} /\ None \notin Callers
  BY BatchAssumption DEF IInv, Types
<1> QED  BY <1>1, <1>2 DEF ActiveCaller

(* Steps that BatchDriver does not see.                                     *)
LEMMA StutterStep ==
  ASSUME IInv, IInv', UNCHANGED closing, \A c \in Callers : Same(c)
  PROVE  UNCHANGED Abstract!vars
<1>1. ActiveCaller' = ActiveCaller
  BY ActiveIs, ActiveIsNext, BatchAssumption DEF Same
<1>2. Outcome' = Outcome /\ Asked' = Asked
  BY DEF Outcome, Asked, Same
<1> QED
  BY <1>1, <1>2 DEF Abstract!vars, ActiveCaller, Outcome, Asked, Is

(* Steps in which it sees one caller do something.                          *)
LEMMA OneChanges ==
  ASSUME IInv, IInv', NEW c \in Callers, \A d \in Callers : d # c => Same(d)
  PROVE  /\ Outcome' = [Outcome EXCEPT ![c] = [is |-> Is(c)', results |-> call'[c].results]]
         /\ Asked' = [Asked EXCEPT ![c] = call'[c].asked]
         /\ Outcome[c].is = Is(c)
         /\ (Active(c)' <=> Active(c)) => ActiveCaller' = ActiveCaller
         /\ Active(c)' => ActiveCaller' = c
         /\ Active(c) => ActiveCaller = c
         /\ Active(c) /\ ~Active(c)' => ActiveCaller' = None
         /\ ~Active(c) => ActiveCaller # c
<1>1. Outcome' = [Outcome EXCEPT ![c] = [is |-> Is(c)', results |-> call'[c].results]]
  BY DEF Outcome, Same
<1>2. Asked' = [Asked EXCEPT ![c] = call'[c].asked]
  BY DEF Asked, Same
<1>3. Outcome[c].is = Is(c)
  BY DEF Outcome
<1>4. (Active(c)' <=> Active(c)) => ActiveCaller' = ActiveCaller
  BY ActiveIs, ActiveIsNext, BatchAssumption DEF Same
<1>5. Active(c) /\ ~Active(c)' => ActiveCaller' = None
  BY ActiveIs, ActiveIsNext, BatchAssumption DEF Same
<1> QED
  BY <1>1, <1>2, <1>3, <1>4, <1>5, ActiveIs, ActiveIsNext

LEMMA MovesSame ==
  ASSUME IInv, IInv', NEW c \in Callers, NEW place, Moves(c, place), Active(c)' <=> Active(c),
         \/ call[c].answer # "none"
         \/ {call[c].at, place} \subseteq {"closing", "stop", "stop_notify", "join", "rejoin"}
         \/ {call[c].at, place} \cap {"outside", "closing", "stop", "stop_notify", "join", "rejoin"} = {}
  PROVE  \A d \in Callers : Same(d)
<1> SUFFICES ASSUME NEW d \in Callers PROVE Same(d)
  OBVIOUS
<1>1. /\ call'[d].answer = call[d].answer /\ call'[d].results = call[d].results
      /\ call'[d].asked = call[d].asked /\ (d # c => call'[d].at = call[d].at)
      /\ call'[c].at = place
  BY DEF Moves
<1>2. CASE d = c
  BY <1>1, <1>2, SamePlace
<1>3. CASE d # c
  <2>1. Active(d)' <=> Active(d)
    BY <1>1, <1>3 DEF Active
  <2> QED  BY <1>1, <1>3, <2>1, SamePlace
<1> QED
  BY <1>2, <1>3

(* A caller whose record changes beside others that do not.                 *)
LEMMA OthersSame ==
  ASSUME IInv, IInv', NEW c \in Callers,
         \A d \in Callers : d # c =>
           /\ call'[d].at = call[d].at /\ call'[d].answer = call[d].answer
           /\ call'[d].results = call[d].results /\ call'[d].asked = call[d].asked
  PROVE  \A d \in Callers : d # c => Same(d)
<1> SUFFICES ASSUME NEW d \in Callers, d # c PROVE Same(d)
  OBVIOUS
<1>1. Active(d)' <=> Active(d)
  BY DEF Active
<1> QED
  BY <1>1, SamePlace

(* Encode                                                                   *)
LEMMA SubmitStep ==
  ASSUME IInv, IInv', NEW c \in Callers, NEW b \in Batches, Encode(c, b)
  PROVE  Abstract!Submit(c, b)
<1>0. Types
  BY DEF IInv
<1>1. \A d \in Callers : d # c => Same(d)
  <2>1. \A d \in Callers : d # c =>
           /\ call'[d].at = call[d].at /\ call'[d].answer = call[d].answer
           /\ call'[d].results = call[d].results /\ call'[d].asked = call[d].asked
    BY <1>0, EncodeCall
  <2> QED  BY <2>1, OthersSame
<1>2. /\ call[c].at = "outside" /\ call[c].answer = "none" /\ call[c].results = <<>>
      /\ UNCHANGED closing
  BY DEF Encode, IInv, AnswerInv
<1>3. /\ call'[c].at = "arriving" /\ call'[c].answer = "none" /\ call'[c].results = <<>>
      /\ call'[c].asked = b
  BY <1>0, <1>2, EncodeCall
<1>4. Is(c) = "none" /\ Is(c)' = "pending" /\ ~Active(c) /\ ~Active(c)'
  BY <1>2, <1>3, IsCases, IsCasesNext DEF Active
<1>5. /\ Outcome' = [Outcome EXCEPT ![c] = [is |-> "pending", results |-> <<>>]]
      /\ Asked' = [Asked EXCEPT ![c] = b] /\ ActiveCaller' = ActiveCaller
      /\ Outcome[c].is = "none"
  BY <1>1, <1>3, <1>4, OneChanges
<1> QED
  BY <1>2, <1>5 DEF Abstract!Submit, Abstract!Ends, Outcome, Asked, ActiveCaller, Is

(* Leave                                                                    *)
LEMMA ReturnStep ==
  ASSUME IInv, IInv', NEW c \in Callers, Leave(c)
  PROVE  Abstract!Return(c)
<1>0. Types
  BY DEF IInv
<1>1. \A d \in Callers : d # c => Same(d)
  <2>1. \A d \in Callers : d # c =>
           /\ call'[d].at = call[d].at /\ call'[d].answer = call[d].answer
           /\ call'[d].results = call[d].results /\ call'[d].asked = call[d].asked
    BY <1>0, LeaveCall
  <2> QED  BY <2>1, OthersSame
<1>2. call[c].at = "returned" /\ call[c].answer # "none" /\ UNCHANGED closing
  BY DEF Leave, IInv, AnswerInv
<1>3. call[c].answer \in {"published", "error", "unavailable", "closed"}
  BY <1>0, <1>2, CallerTypes DEF Types
<1>4. /\ call'[c].at = "outside" /\ call'[c].answer = "none" /\ call'[c].results = <<>>
      /\ call'[c].asked = <<>>
  BY <1>0, LeaveCall
<1>5. Is(c) = call[c].answer /\ Is(c)' = "none" /\ ~Active(c) /\ ~Active(c)'
  BY <1>2, <1>4, IsCases, IsCasesNext DEF Active
<1>6. /\ Outcome' = [Outcome EXCEPT ![c] = [is |-> "none", results |-> <<>>]]
      /\ Asked' = [Asked EXCEPT ![c] = <<>>] /\ ActiveCaller' = ActiveCaller
      /\ Outcome[c].is \in {"published", "error", "unavailable", "closed"}
  BY <1>1, <1>3, <1>4, <1>5, OneChanges
<1> QED
  BY <1>2, <1>6 DEF Abstract!Return, Abstract!Ends, Outcome, Asked, ActiveCaller, Is

(* Shutdown                                                                 *)
LEMMA ClosesStep ==
  ASSUME IInv, IInv', NEW c \in Callers, Shutdown(c)
  PROVE  Abstract!Close(c)
<1>0. Types
  BY DEF IInv
<1>1. \A d \in Callers : d # c => Same(d)
  <2>1. \A d \in Callers : d # c =>
           /\ call'[d].at = call[d].at /\ call'[d].answer = call[d].answer
           /\ call'[d].results = call[d].results /\ call'[d].asked = call[d].asked
    BY <1>0, ShutdownCall
  <2> QED  BY <2>1, OthersSame
<1>2. /\ call[c].at = "outside" /\ call[c].answer = "none" /\ call[c].results = <<>>
      /\ closing' = TRUE
  BY DEF Shutdown, IInv, AnswerInv
<1>3. /\ call'[c].at = "closing" /\ call'[c].answer = "none" /\ call'[c].results = <<>>
      /\ call'[c].asked = call[c].asked
  BY <1>0, <1>2, ShutdownCall
<1>4. Is(c) = "none" /\ Is(c)' = "closing" /\ ~Active(c) /\ ~Active(c)'
  BY <1>2, <1>3, IsCases, IsCasesNext DEF Active
<1>5. /\ Outcome' = [Outcome EXCEPT ![c] = [is |-> "closing", results |-> <<>>]]
      /\ Asked' = [Asked EXCEPT ![c] = call[c].asked] /\ ActiveCaller' = ActiveCaller
      /\ Outcome[c].is = "none"
  BY <1>1, <1>3, <1>4, OneChanges
<1>6. Asked' = Asked
  BY <1>5 DEF Asked
<1> QED
  BY <1>2, <1>5, <1>6 DEF Abstract!Close, Abstract!Ends, Outcome, Asked, ActiveCaller, Is

(* Shutdown returns, from Join or with its slot from Rejoin                  *)
LEMMA ClosedStep ==
  ASSUME IInv, IInv', NEW c \in Callers, UNCHANGED closing,
         call[c].at \in {"join", "rejoin"}, call'[c].at = "returned",
         call'[c].answer = "closed", call'[c].results = call[c].results,
         call'[c].asked = call[c].asked,
         \A d \in Callers : d # c =>
           /\ call'[d].at = call[d].at /\ call'[d].answer = call[d].answer
           /\ call'[d].results = call[d].results /\ call'[d].asked = call[d].asked
  PROVE  Abstract!Closed(c)
<1>1. \A d \in Callers : d # c => Same(d)
  BY OthersSame
<1>2. call[c].answer = "none" /\ call[c].results = <<>>
  BY DEF IInv, AnswerInv
<1>4. Is(c) = "closing" /\ Is(c)' = "closed" /\ ~Active(c) /\ ~Active(c)'
  BY <1>2, IsCases, IsCasesNext DEF Active
<1>5. /\ Outcome' = [Outcome EXCEPT ![c] = [is |-> "closed", results |-> <<>>]]
      /\ Asked' = [Asked EXCEPT ![c] = call[c].asked] /\ ActiveCaller' = ActiveCaller
      /\ Outcome[c].is = "closing"
  BY <1>1, <1>2, <1>4, OneChanges
<1>6. Asked' = Asked
  BY <1>5 DEF Asked
<1>7. ActiveCaller = None
  <2>1. stopping /\ \A d \in Callers : ~Active(d)
    BY DEF IInv, CloseInv
  <2> QED  BY <2>1, ActiveIs
<1> QED
  BY <1>2, <1>5, <1>6, <1>7 DEF Abstract!Closed, Abstract!Ends, Outcome, Asked, ActiveCaller, Is

(* CheckOpen finds the driver open                                          *)
LEMMA ActivateStep ==
  ASSUME IInv, IInv', NEW c \in Callers, CheckOpen(c), ~closing
  PROVE  Abstract!Activate(c)
<1>0. Types
  BY DEF IInv
<1>1. call[c].at = "locked" /\ GoesTo(c, "plan") /\ UNCHANGED closing
  BY DEF CheckOpen
<1>2. Moves(c, "plan")
  BY <1>0, <1>1, GoesToMoves DEF CallAt
<1>3. \A d \in Callers : d # c => Same(d)
  <2>1. \A d \in Callers : d # c =>
           /\ call'[d].at = call[d].at /\ call'[d].answer = call[d].answer
           /\ call'[d].results = call[d].results /\ call'[d].asked = call[d].asked
    BY <1>2 DEF Moves
  <2> QED  BY <2>1, OthersSame
<1>4. /\ call[c].answer = "none" /\ call'[c].answer = "none" /\ call'[c].at = "plan"
      /\ call'[c].results = call[c].results /\ call'[c].asked = call[c].asked
  BY <1>1, <1>2 DEF Moves, IInv, AnswerInv
<1>5. Is(c) = "pending" /\ Is(c)' = "pending" /\ ~Active(c) /\ Active(c)'
  BY <1>1, <1>4, IsCases, IsCasesNext DEF Active
<1>6. ActiveCaller' = c /\ Outcome[c].is = "pending"
  BY <1>3, <1>5, OneChanges
<1>7. Outcome' = Outcome /\ Asked' = Asked
  BY <1>3, <1>4, <1>5 DEF Outcome, Asked, Same
<1>8. ActiveCaller = None
  <2>1. driver = c
    BY <1>1 DEF IInv, LockInv, LockedAt
  <2> QED  BY <1>5, <2>1 DEF ActiveCaller
<1> QED
  BY <1>1, <1>6, <1>7, <1>8 DEF Abstract!Activate, Outcome, Asked, ActiveCaller, Is

(* What a return from Encode looks like.                                    *)
LEMMA ReturnsOutcome ==
  ASSUME IInv, IInv', NEW c \in Callers, NEW answer, NEW results,
         Returns(c, answer, results), answer # "none", call[c].answer = "none",
         call[c].at \notin {"outside", "closing", "stop", "stop_notify", "join", "rejoin"}
  PROVE  /\ Outcome' = [Outcome EXCEPT ![c] = [is |-> answer, results |-> results]]
         /\ Outcome[c].is = "pending" /\ Asked' = Asked
         /\ Active(c) => ActiveCaller = c /\ ActiveCaller' = None
         /\ ~Active(c) => ActiveCaller # c /\ ActiveCaller' = ActiveCaller
<1>0. Types
  BY DEF IInv
<1>1. /\ Places(c, "returned") /\ call'[c].answer = answer /\ call'[c].results = results
      /\ call'[c].asked = call[c].asked
      /\ \A d \in Callers : d # c => call'[d] = call[d]
  BY <1>0, ReturnsPlaces
<1>2. \A d \in Callers : d # c => Same(d)
  BY <1>1, SameRecord
<1>3. call'[c].at = "returned"
  BY <1>1 DEF Places
<1>4. Is(c) = "pending" /\ Is(c)' = answer /\ ~Active(c)'
  BY <1>1, <1>3, IsCases, IsCasesNext DEF Active
<1> QED
  <2>1. Asked' = Asked
    BY <1>1, <1>2 DEF Asked, Same
  <2> QED  BY <1>1, <1>2, <1>4, <2>1, OneChanges

(* CheckClosing or CheckOpen finds it closed                                *)
LEMMA RejectStep ==
  ASSUME IInv, IInv', NEW c \in Callers, closing, CheckClosing(c) \/ CheckOpen(c)
  PROVE  Abstract!Reject(c)
<1>1. /\ call[c].at \in {"arriving", "locked"} /\ Returns(c, "unavailable", <<>>)
      /\ UNCHANGED closing
  BY DEF CheckClosing, CheckOpen
<1>2. call[c].answer = "none" /\ ~Active(c)
  BY <1>1 DEF IInv, AnswerInv, Active
<1>3. /\ Outcome' = [Outcome EXCEPT ![c] = [is |-> "unavailable", results |-> <<>>]]
      /\ Outcome[c].is = "pending" /\ Asked' = Asked
      /\ ActiveCaller # c /\ ActiveCaller' = ActiveCaller
  <2>1. call[c].at \notin {"outside", "closing", "stop", "stop_notify", "join", "rejoin"}
    BY <1>1
  <2> QED  BY <1>1, <1>2, <2>1, ReturnsOutcome
<1> QED
  BY <1>1, <1>3 DEF Abstract!Reject, Abstract!Ends, Outcome, Asked, ActiveCaller, Is

(* Abandon, or an image broke the plan                                      *)
LEMMA FailStep ==
  ASSUME IInv, IInv', NEW c \in Callers, Abandon(c) \/ (Publish(c) /\ terminal # 0)
  PROVE  Abstract!Fail(c)
<1>1. /\ call[c].at \in {"planning", "admit", "start", "prepare", "collect"}
      /\ Returns(c, "error", <<>>) /\ UNCHANGED closing
  BY DEF Abandon, Publish
<1>2. call[c].answer = "none" /\ Active(c)
  BY <1>1 DEF IInv, AnswerInv, Active
<1>3. /\ Outcome' = [Outcome EXCEPT ![c] = [is |-> "error", results |-> <<>>]]
      /\ Asked' = Asked /\ ActiveCaller = c /\ ActiveCaller' = None
  <2>1. call[c].at \notin {"outside", "closing", "stop", "stop_notify", "join", "rejoin"}
    BY <1>1
  <2> QED  BY <1>1, <1>2, <2>1, ReturnsOutcome
<1> QED
  BY <1>1, <1>3 DEF Abstract!Fail, Abstract!Ends, Outcome, Asked, ActiveCaller, Is

(* When the last worker has left a batch that kept to its plan, every image *)
(* has its result.                                                          *)
LEMMA AllResults ==
  ASSUME IInv, NEW c \in Callers, call[c].at = "collect", terminal = 0
  PROVE  /\ status \in [1 .. Len(call[c].asked) -> {"ok", "failed", "invalid"}]
         /\ Abstract!Complete(call[c].asked, status)
<1>1. driver = c /\ Dispatched(c)
  BY DEF IInv, LockInv, LockedAt, Dispatched
<1>2. \A w \in Workers : ~Owes(w) /\ ~Encoding(w)
  BY <1>1 DEF IInv, BookInv, Waited, Owes, Encoding, InBatch
<1>3. /\ Len(status) = Len(call[c].asked)
      /\ \A i \in DOMAIN status :
           IF call[c].asked[i] = "good"
             THEN status[i] \in {"pending", "ok", "failed", "terminal"}
             ELSE status[i] = "invalid"
      /\ \A i \in DOMAIN status : status[i] # "terminal"
      /\ in_flight = 0 => \A i \in DOMAIN status : status[i] # "pending"
      /\ \A i \in DOMAIN status : ~(i < next_index /\ status[i] = "pending")
      /\ in_flight > 0 => next_index > Len(status)
  BY <1>1, <1>2, FirstWorker DEF IInv, WorkInv, CompleteInv, HasLeft
<1>4. /\ status \in [1 .. Len(status) -> Results] /\ Len(status) \in Nat
      /\ DOMAIN status = 1 .. Len(status) /\ in_flight \in Nat /\ next_index \in Nat
  BY BatchAssumption DEF IInv, Types
<1>5. \A i \in DOMAIN status : status[i] # "pending"
  <2>1. CASE in_flight = 0
    BY <1>3, <2>1
  <2>2. CASE in_flight > 0
    BY <1>3, <1>4, <2>2
  <2> QED  BY <1>4, <2>1, <2>2
<1>6. \A i \in 1 .. Len(call[c].asked) :
        /\ status[i] \in IF call[c].asked[i] = "good" THEN {"ok", "failed"} ELSE {"invalid"}
        /\ status[i] \in {"ok", "failed", "invalid"}
  BY <1>3, <1>4, <1>5
<1> QED
  BY <1>3, <1>4, <1>6 DEF Abstract!Complete

(* Publish, or PublishEmpty                                                 *)
LEMMA PublishStep ==
  ASSUME IInv, IInv', NEW c \in Callers, PublishEmpty(c) \/ (Publish(c) /\ terminal = 0)
  PROVE  Abstract!Publish(c)
<1> DEFINE results == IF call[c].at = "prepare" THEN <<>> ELSE status
<1>1. /\ call[c].at \in {"prepare", "collect"} /\ Returns(c, "published", results)
      /\ call[c].at = "prepare" => call[c].asked = <<>>
      /\ call[c].at = "collect" => terminal = 0
      /\ UNCHANGED closing
  BY DEF PublishEmpty, Publish
<1>2. /\ results \in [1 .. Len(Asked[c]) -> {"ok", "failed", "invalid"}]
      /\ Abstract!Complete(Asked[c], results)
  <2>1. Asked[c] = call[c].asked
    BY DEF Asked
  <2>2. CASE call[c].at = "prepare"
    <3>1. call[c].asked = <<>> /\ results = <<>> /\ Len(<<>>) = 0 /\ 1 .. 0 = {}
      BY <1>1, <2>2
    <3>2. <<>> \in [1 .. 0 -> {"ok", "failed", "invalid"}]
      BY <3>1
    <3> QED  BY <2>1, <3>1, <3>2 DEF Abstract!Complete
  <2>3. CASE call[c].at = "collect"
    BY <1>1, <2>1, <2>3, AllResults
  <2> QED  BY <1>1, <2>2, <2>3
<1>3. call[c].answer = "none" /\ Active(c)
  BY <1>1 DEF IInv, AnswerInv, Active
<1> HIDE DEF results
<1>4. /\ Outcome' = [Outcome EXCEPT ![c] = [is |-> "published", results |-> results]]
      /\ Asked' = Asked /\ ActiveCaller = c /\ ActiveCaller' = None
  <2>1. call[c].at \notin {"outside", "closing", "stop", "stop_notify", "join", "rejoin"}
    BY <1>1
  <2> QED  BY <1>1, <1>3, <2>1, ReturnsOutcome
<1> QED
  BY <1>1, <1>2, <1>4 DEF Abstract!Publish, Abstract!Ends, Outcome, Asked, ActiveCaller, Is

LEMMA NextRefines ==
  IInv /\ IInv' /\ [Next]_vars => [Abstract!Next]_(Abstract!vars)
<1> SUFFICES ASSUME IInv, IInv', [Next]_vars PROVE Abstract!Next \/ UNCHANGED Abstract!vars
  OBVIOUS
<1>0. Types
  BY DEF IInv
<1>1. ASSUME NEW c \in Callers, NEW b \in Batches, Encode(c, b)
      PROVE  Abstract!Next \/ UNCHANGED Abstract!vars
  BY <1>1, SubmitStep DEF Abstract!Next
<1>2. ASSUME NEW c \in Callers, CheckClosing(c)
      PROVE  Abstract!Next \/ UNCHANGED Abstract!vars
  <2>1. CASE closing
    BY <1>2, <2>1, RejectStep DEF Abstract!Next
  <2>2. CASE ~closing
    <3>1. Moves(c, "queued") /\ UNCHANGED closing
      BY <1>2, <1>0, <2>2, GoesToMoves DEF CheckClosing, CallAt
    <3>2. Active(c)' <=> Active(c)
      BY <1>2, <2>2, <3>1 DEF CheckClosing, Moves, Active
    <3>3. \A d \in Callers : Same(d)
      BY <1>2, <3>1, <3>2, <2>2, MovesSame DEF CheckClosing
    <3> QED  BY <3>1, <3>3, StutterStep
  <2> QED  BY <2>1, <2>2
<1>3. ASSUME NEW c \in Callers, LockDriver(c)
      PROVE  Abstract!Next \/ UNCHANGED Abstract!vars
  <2>1. Moves(c, "locked") /\ UNCHANGED closing
    BY <1>3, <1>0, GoesToMoves DEF LockDriver, CallAt
  <2>2. Active(c)' <=> Active(c)
    BY <1>3, <2>1 DEF LockDriver, Moves, Active
  <2>3. \A d \in Callers : Same(d)
    BY <1>3, <2>1, <2>2, MovesSame DEF LockDriver
  <2> QED  BY <2>1, <2>3, StutterStep
<1>4. ASSUME NEW c \in Callers, CheckOpen(c)
      PROVE  Abstract!Next \/ UNCHANGED Abstract!vars
  BY <1>4, ActivateStep, RejectStep DEF Abstract!Next
<1>5. ASSUME NEW c \in Callers, BeginPlan(c)
      PROVE  Abstract!Next \/ UNCHANGED Abstract!vars
  <2>1. Moves(c, "planning") /\ UNCHANGED closing
    BY <1>5, <1>0, GoesToMoves DEF BeginPlan, CallAt
  <2>2. Active(c)' <=> Active(c)
    BY <1>5, <2>1 DEF BeginPlan, Moves, Active
  <2>3. \A d \in Callers : Same(d)
    BY <1>5, <2>1, <2>2, MovesSame DEF BeginPlan
  <2> QED  BY <2>1, <2>3, StutterStep
<1>6. ASSUME NEW c \in Callers, EndPlan(c)
      PROVE  Abstract!Next \/ UNCHANGED Abstract!vars
  <2>1. Moves(c, "admit") /\ UNCHANGED closing
    BY <1>6, <1>0, GoesToMoves DEF EndPlan, CallAt
  <2>2. Active(c)' <=> Active(c)
    BY <1>6, <2>1 DEF EndPlan, Moves, Active
  <2>3. \A d \in Callers : Same(d)
    BY <1>6, <2>1, <2>2, MovesSame DEF EndPlan
  <2> QED  BY <2>1, <2>3, StutterStep
<1>7. ASSUME NEW c \in Callers, Admit(c)
      PROVE  Abstract!Next \/ UNCHANGED Abstract!vars
  <2>1. Moves(c, "start") /\ UNCHANGED closing
    BY <1>7, <1>0, GoesToMoves DEF Admit, CallAt
  <2>2. Active(c)' <=> Active(c)
    BY <1>7, <2>1 DEF Admit, Moves, Active
  <2>3. \A d \in Callers : Same(d)
    BY <1>7, <2>1, <2>2, MovesSame DEF Admit
  <2> QED  BY <2>1, <2>3, StutterStep
<1>8. ASSUME NEW c \in Callers, StartCpu(c)
      PROVE  Abstract!Next \/ UNCHANGED Abstract!vars
  <2>1. Moves(c, "prepare") /\ UNCHANGED closing
    BY <1>8, <1>0, GoesToMoves DEF StartCpu, CallAt
  <2>2. Active(c)' <=> Active(c)
    BY <1>8, <2>1 DEF StartCpu, Moves, Active
  <2>3. \A d \in Callers : Same(d)
    BY <1>8, <2>1, <2>2, MovesSame DEF StartCpu
  <2> QED  BY <2>1, <2>3, StutterStep
<1>9. ASSUME NEW c \in Callers, Abandon(c)
      PROVE  Abstract!Next \/ UNCHANGED Abstract!vars
  BY <1>9, FailStep DEF Abstract!Next
<1>10. ASSUME NEW c \in Callers, PublishEmpty(c)
      PROVE  Abstract!Next \/ UNCHANGED Abstract!vars
  BY <1>10, PublishStep DEF Abstract!Next
<1>11. ASSUME NEW c \in Callers, Dispatch(c)
      PROVE  Abstract!Next \/ UNCHANGED Abstract!vars
  <2>1. Moves(c, "notify") /\ UNCHANGED closing
    BY <1>11, <1>0, GoesToMoves DEF Dispatch, CallAt
  <2>2. Active(c)' <=> Active(c)
    BY <1>11, <2>1 DEF Dispatch, Moves, Active
  <2>3. \A d \in Callers : Same(d)
    BY <1>11, <2>1, <2>2, MovesSame DEF Dispatch
  <2> QED  BY <2>1, <2>3, StutterStep
<1>12. ASSUME NEW c \in Callers, Notify(c)
      PROVE  Abstract!Next \/ UNCHANGED Abstract!vars
  <2>1. Moves(c, "wait") /\ UNCHANGED closing
    BY <1>12, <1>0, GoesToMoves DEF Notify, CallAt
  <2>2. Active(c)' <=> Active(c)
    BY <1>12, <2>1 DEF Notify, Moves, Active
  <2>3. \A d \in Callers : Same(d)
    BY <1>12, <2>1, <2>2, MovesSame DEF Notify
  <2> QED  BY <2>1, <2>3, StutterStep
<1>13. ASSUME NEW c \in Callers, Wait(c)
      PROVE  Abstract!Next \/ UNCHANGED Abstract!vars
  <2> DEFINE place == IF remaining = 0 THEN "resume" ELSE "asleep"
  <2>1. place \in {"resume", "asleep"} /\ GoesTo(c, place) /\ UNCHANGED closing
    BY <1>13 DEF Wait
  <2> HIDE DEF place
  <2>2. Moves(c, place)
    BY <1>0, <2>1, GoesToMoves DEF CallAt
  <2>3. Active(c)' <=> Active(c)
    BY <1>13, <2>1, <2>2 DEF Wait, Moves, Active
  <2>4. \A d \in Callers : Same(d)
    BY <1>13, <2>1, <2>2, <2>3, MovesSame DEF Wait
  <2> QED  BY <2>1, <2>4, StutterStep
<1>14. ASSUME NEW c \in Callers, Resume(c)
      PROVE  Abstract!Next \/ UNCHANGED Abstract!vars
  <2>1. Moves(c, "collect") /\ UNCHANGED closing
    BY <1>14, <1>0, GoesToMoves DEF Resume, CallAt
  <2>2. Active(c)' <=> Active(c)
    BY <1>14, <2>1 DEF Resume, Moves, Active
  <2>3. \A d \in Callers : Same(d)
    BY <1>14, <2>1, <2>2, MovesSame DEF Resume
  <2> QED  BY <2>1, <2>3, StutterStep
<1>15. ASSUME NEW c \in Callers, Publish(c)
      PROVE  Abstract!Next \/ UNCHANGED Abstract!vars
  BY <1>15, PublishStep, FailStep DEF Abstract!Next
<1>16. ASSUME NEW c \in Callers, Leave(c)
      PROVE  Abstract!Next \/ UNCHANGED Abstract!vars
  BY <1>16, ReturnStep DEF Abstract!Next
<1>17. ASSUME NEW c \in Callers, EnterScope(c)
      PROVE  Abstract!Next \/ UNCHANGED Abstract!vars
  <2>1. \A d \in Callers : Same(d)
    <3>1. \A d \in Callers : /\ call'[d].at = call[d].at /\ call'[d].answer = call[d].answer
                             /\ call'[d].results = call[d].results /\ call'[d].asked = call[d].asked
      BY <1>17, <1>0, EnterScopeCall
    <3>2. \A d \in Callers : Active(d)' <=> Active(d)
      BY <3>1 DEF Active
    <3> QED  BY <3>1, <3>2, SamePlace
  <2> QED  BY <1>17, <2>1, StutterStep DEF EnterScope
<1>18. ASSUME NEW c \in Callers, LeaveScope(c)
      PROVE  Abstract!Next \/ UNCHANGED Abstract!vars
  <2>1. \A d \in Callers : Same(d)
    <3>1. \A d \in Callers : /\ call'[d].at = call[d].at /\ call'[d].answer = call[d].answer
                             /\ call'[d].results = call[d].results /\ call'[d].asked = call[d].asked
      BY <1>18, <1>0, LeaveScopeCall
    <3>2. \A d \in Callers : Active(d)' <=> Active(d)
      BY <3>1 DEF Active
    <3> QED  BY <3>1, <3>2, SamePlace
  <2> QED  BY <1>18, <2>1, StutterStep DEF LeaveScope
<1>19. ASSUME NEW c \in Callers, Shutdown(c)
      PROVE  Abstract!Next \/ UNCHANGED Abstract!vars
  BY <1>19, ClosesStep DEF Abstract!Next
<1>20. ASSUME NEW c \in Callers, LockForShutdown(c)
      PROVE  Abstract!Next \/ UNCHANGED Abstract!vars
  <2>1. Moves(c, "stop") /\ UNCHANGED closing
    BY <1>20, <1>0, GoesToMoves DEF LockForShutdown, CallAt
  <2>2. Active(c)' <=> Active(c)
    BY <1>20, <2>1 DEF LockForShutdown, Moves, Active
  <2>3. \A d \in Callers : Same(d)
    BY <1>20, <2>1, <2>2, MovesSame DEF LockForShutdown
  <2> QED  BY <2>1, <2>3, StutterStep
<1>21. ASSUME NEW c \in Callers, Stop(c)
      PROVE  Abstract!Next \/ UNCHANGED Abstract!vars
  <2>1. Moves(c, "stop_notify") /\ UNCHANGED closing
    BY <1>21, <1>0, GoesToMoves DEF Stop, CallAt
  <2>2. Active(c)' <=> Active(c)
    BY <1>21, <2>1 DEF Stop, Moves, Active
  <2>3. \A d \in Callers : Same(d)
    BY <1>21, <2>1, <2>2, MovesSame DEF Stop
  <2> QED  BY <2>1, <2>3, StutterStep
<1>22. ASSUME NEW c \in Callers, NotifyStop(c)
      PROVE  Abstract!Next \/ UNCHANGED Abstract!vars
  <2>1. Moves(c, "join") /\ UNCHANGED closing
    BY <1>22, <1>0, GoesToMoves DEF NotifyStop, CallAt
  <2>2. Active(c)' <=> Active(c)
    BY <1>22, <2>1 DEF NotifyStop, Moves, Active
  <2>3. \A d \in Callers : Same(d)
    BY <1>22, <2>1, <2>2, MovesSame DEF NotifyStop
  <2> QED  BY <2>1, <2>3, StutterStep
<1>23. ASSUME NEW c \in Callers, Join(c)
      PROVE  Abstract!Next \/ UNCHANGED Abstract!vars
  <2>1. /\ \A d \in Callers :
              /\ call'[d].asked = call[d].asked /\ call'[d].results = call[d].results
              /\ d # c => call'[d].at = call[d].at /\ call'[d].answer = call[d].answer
        /\ call'[c].at = (IF call[c].inside THEN "rejoin" ELSE "returned")
        /\ call'[c].answer = (IF call[c].inside THEN "none" ELSE "closed")
    BY <1>23, <1>0, JoinCall
  <2>2. call[c].at = "join" /\ call[c].answer = "none" /\ UNCHANGED closing
    BY <1>23 DEF Join, IInv, AnswerInv
  <2>3. CASE call[c].inside
    <3>1. \A d \in Callers : Active(d)' <=> Active(d)
      BY <2>1, <2>2, <2>3 DEF Active
    <3>2. \A d \in Callers : Same(d)
      BY <2>1, <2>2, <2>3, <3>1, SamePlace
    <3> QED  BY <2>2, <3>2, StutterStep
  <2>4. CASE ~call[c].inside
    <3>1. Abstract!Closed(c)
      BY <2>1, <2>2, <2>4, ClosedStep
    <3> QED  BY <3>1 DEF Abstract!Next
  <2> QED  BY <2>3, <2>4
<1>24. ASSUME NEW c \in Callers, Rejoin(c)
      PROVE  Abstract!Next \/ UNCHANGED Abstract!vars
  <2>1. Abstract!Closed(c)
    BY <1>24, <1>0, RejoinCall, ClosedStep DEF Rejoin
  <2> QED  BY <2>1 DEF Abstract!Next
<1>25. ASSUME NEW w \in Workers, WaitForWork(w)
      PROVE  Abstract!Next \/ UNCHANGED Abstract!vars
  BY <1>25, SameRecord, StutterStep DEF WaitForWork
<1>26. ASSUME NEW w \in Workers, Check(w)
      PROVE  Abstract!Next \/ UNCHANGED Abstract!vars
  BY <1>26, SameRecord, StutterStep DEF Check
<1>27. ASSUME NEW w \in Workers, Fetch(w)
      PROVE  Abstract!Next \/ UNCHANGED Abstract!vars
  BY <1>27, SameRecord, StutterStep DEF Fetch
<1>28. ASSUME NEW w \in Workers, StartImage(w)
      PROVE  Abstract!Next \/ UNCHANGED Abstract!vars
  BY <1>28, SameRecord, StutterStep DEF StartImage
<1>29. ASSUME NEW w \in Workers, Yield(w)
      PROVE  Abstract!Next \/ UNCHANGED Abstract!vars
  BY <1>29, SameRecord, StutterStep DEF Yield
<1>30. ASSUME NEW w \in Workers, Regain(w)
      PROVE  Abstract!Next \/ UNCHANGED Abstract!vars
  BY <1>30, SameRecord, StutterStep DEF Regain
<1>31. ASSUME NEW w \in Workers, LeaveBatch(w)
      PROVE  Abstract!Next \/ UNCHANGED Abstract!vars
  <2>1. \A d \in Callers : Same(d)
    <3> SUFFICES ASSUME NEW d \in Callers PROVE Same(d)
      OBVIOUS
    <3>1. /\ call'[d].answer = call[d].answer
          /\ call'[d].results = call[d].results /\ call'[d].asked = call[d].asked
          /\ \/ call'[d].at = call[d].at
             \/ call[d].at = "asleep" /\ call'[d].at = "wait"
      BY <1>31, <1>0, LeaveBatchCall
    <3>2. Active(d)' <=> Active(d)
      BY <3>1 DEF Active
    <3> QED  BY <3>1, <3>2, SamePlace
  <2> QED  BY <1>31, <2>1, StutterStep DEF LeaveBatch
<1>32. ASSUME NEW w \in Workers, NEW r \in {"ok", "failed", "terminal"},
             FinishImage(w, r) \/ StartFails(w, r)
      PROVE  Abstract!Next \/ UNCHANGED Abstract!vars
  BY <1>32, SameRecord, StutterStep DEF FinishImage, StartFails, ImageEnds
<1>33. CASE SpuriousWake
  <2>1. CASE UNCHANGED call
    BY <1>33, <2>1, SameRecord, StutterStep DEF SpuriousWake
  <2>2. ASSUME NEW c \in Callers, call[c].at = "asleep", GoesTo(c, "wait")
        PROVE  UNCHANGED Abstract!vars
    <3>1. Moves(c, "wait") /\ UNCHANGED closing
      BY <1>33, <1>0, <2>2, GoesToMoves DEF SpuriousWake, CallAt
    <3>2. Active(c)' <=> Active(c)
      BY <2>2, <3>1 DEF Moves, Active
    <3>3. \A d \in Callers : Same(d)
      BY <2>2, <3>1, <3>2, MovesSame
    <3> QED  BY <3>1, <3>3, StutterStep
  <2> QED  BY <1>33, <2>1, <2>2 DEF SpuriousWake
<1>34. ASSUME NEW j \in Jobs, JobAdmit(j)
      PROVE  Abstract!Next \/ UNCHANGED Abstract!vars
  BY <1>34, SameRecord, StutterStep DEF JobAdmit
<1>35. ASSUME NEW j \in Jobs, JobStart(j)
      PROVE  Abstract!Next \/ UNCHANGED Abstract!vars
  BY <1>35, SameRecord, StutterStep DEF JobStart
<1>36. ASSUME NEW j \in Jobs, JobYield(j)
      PROVE  Abstract!Next \/ UNCHANGED Abstract!vars
  BY <1>36, SameRecord, StutterStep DEF JobYield
<1>37. ASSUME NEW j \in Jobs, JobRegain(j)
      PROVE  Abstract!Next \/ UNCHANGED Abstract!vars
  BY <1>37, SameRecord, StutterStep DEF JobRegain
<1>38. ASSUME NEW j \in Jobs, JobDone(j)
      PROVE  Abstract!Next \/ UNCHANGED Abstract!vars
  BY <1>38, SameRecord, StutterStep DEF JobDone
<1>39. CASE UNCHANGED vars
  BY <1>39, SameRecord, StutterStep DEF vars
<1> QED
  BY <1>1, <1>2, <1>3, <1>4, <1>5, <1>6, <1>7, <1>8, <1>9, <1>10, <1>11, <1>12, <1>13,
     <1>14, <1>15, <1>16, <1>17, <1>18, <1>19, <1>20, <1>21, <1>22, <1>23, <1>24,
     <1>25, <1>26, <1>27, <1>28, <1>29, <1>30, <1>31, <1>32, <1>33, <1>34, <1>35,
     <1>36, <1>37, <1>38, <1>39
  DEF Next, Obtain, Advance, Lock, ObtainSlot, Work, JobObtains, JobRuns

LEMMA InitRefines == Init => Abstract!Init
<1> SUFFICES ASSUME Init PROVE Abstract!Init
  OBVIOUS
<1>1. IInv
  BY InitIInv
<1>2. \A c \in Callers : call[c] = Outside
  BY DEF Init
<1>3. \A c \in Callers : Is(c) = "none" /\ call[c].results = <<>> /\ call[c].asked = <<>>
  BY <1>1, <1>2, IsCases DEF Outside
<1>4. /\ Outcome = [c \in Callers |-> [is |-> "none", results |-> <<>>]]
      /\ Asked = [c \in Callers |-> <<>>]
  BY <1>3 DEF Outcome, Asked
<1> QED
  BY <1>4 DEF Init, Abstract!Init, Outcome, Asked, Is

(* The driver implements BatchDriver: it carries out its calls one at a     *)
(* time, publishes a result for every image of a batch or leaves the        *)
(* caller's array alone, starts no call once it is closed, and Shutdown     *)
(* returns only after the last active call                                  *)
(* (src/src/codestream/batch_workflow.cpp).                                 *)
THEOREM Refinement == Spec => ImplementsBatchDriver
<1>1. Spec => []IInv
  BY Invariance
<1> QED
  BY <1>1, InitRefines, NextRefines, PTL DEF Spec, ImplementsBatchDriver, Abstract!Spec
=============================================================================
