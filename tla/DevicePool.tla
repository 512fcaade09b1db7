------------------------------ MODULE DevicePool ------------------------------
(***************************************************************************)
(* The CUDA buffers of the process (src/gpu/cuda/cuda_backend.cpp): one      *)
(* private device pool shared by all lanes, its explicit cache of completed  *)
(* buffers, and the memory domains whose tickets those buffers carry.       *)
(* A caller is an encode on a lane of its own: it reserves an envelope,      *)
(* evicting idle buffers first when it must wait, allocates buffers, submits *)
(* work on them and drops them.  Each mutex-protected section is one step.  *)
(***************************************************************************)
EXTENDS Queues, FiniteSets, Functions

CONSTANTS Caller, Domain, Pointer,
          Sizes,              \* sizes of buffers and envelopes
          LimitBytes,         \* the limit of each domain
          DeviceBytes,        \* memory of the device
          ThresholdBytes,     \* release_threshold_bytes
          Slots               \* entries of CudaMemoryPoolState::cached

ASSUME SizesAssumption == Sizes \subseteq Nat \ {0} /\ IsFiniteSet(Sizes)
ASSUME ActorsAssumption ==
  /\ IsFiniteSet(Caller) /\ IsFiniteSet(Pointer)
  /\ {"user", "closed", "none"} \cap Caller = {} /\ "all" \notin Domain
ASSUME BoundsAssumption == {LimitBytes, DeviceBytes, ThresholdBytes, Slots} \subseteq Nat

VARIABLES queue,              \* per domain, the admissions that wait
          caller,             \* per caller, its envelope and where it is
          buffer,             \* per pointer, the buffer and its ticket
          cached_bytes,
          trim,               \* the TrimPool that holds cache_mutex
          lost,               \* a CUDA completion failed: its errors are sticky
          leaked              \* bytes still allocated that no buffer owns any more

vars == <<queue, caller, buffer, cached_bytes, trim, lost, leaked>>

Outside == [at |-> "outside"]
NoBuffer == [at |-> "none"]
NoTrim == [by |-> "nobody"]

Existing == {p \in Pointer : buffer[p].at # "none"}
Leased(c) == {p \in Existing : buffer[p].at = "leased" /\ buffer[p].lane = c}
Cached == {p \in Existing : buffer[p].at = "cached"}
BytesOf(pointers) == SumFunction([p \in pointers |-> buffer[p].bytes])

Admitted == {c \in Caller : caller[c].at \notin {"outside", "evicting", "asleep"}}
Pending(c) == IF caller[c].at \in {"malloc", "oom", "retry"} THEN caller[c].want ELSE 0

(* charged_bytes of an envelope, and what a domain has committed: the open  *)
(* envelopes, and the tickets that outlived theirs.                        *)
Charged(c) == Pending(c) + BytesOf({p \in Existing : buffer[p].owner = c})
Envelopes(d) == {c \in Admitted : caller[c].domain = d}
Committed(d) ==
  SumFunction([c \in Envelopes(d) |-> caller[c].capacity])
    + BytesOf({p \in Existing : buffer[p].domain = d /\ buffer[p].owner = "closed"})

FreeBytes == DeviceBytes - leaked - BytesOf({p \in Existing : buffer[p].backed})
CacheUnlocked == trim = NoTrim

(* The caller with its envelope and nothing under way *)
Ready(c) == [at |-> "ready", domain |-> caller[c].domain, capacity |-> caller[c].capacity]

-------------------------------------------------------------------------------
(* WorkflowAdmission::Start and ResourceBudget::Reserve *)
Reserve(c, d, n) ==
  /\ caller[c].at = "outside"
  /\ IF queue[d] = <<>> /\ Committed(d) + n <= LimitBytes
       THEN /\ caller' = [caller EXCEPT ![c] = [at |-> "ready", domain |-> d, capacity |-> n]]
            /\ UNCHANGED queue
       ELSE /\ caller' = [caller EXCEPT ![c] = [at |-> "evicting", domain |-> d, capacity |-> n]]
            /\ queue' = [queue EXCEPT ![d] = Append(@, c)]
  /\ UNCHANGED <<buffer, cached_bytes, trim, lost, leaked>>

Admit(c) ==
  /\ caller[c].at = "asleep"
  /\ LET d == caller[c].domain
     IN /\ Head(queue[d]) = c /\ Committed(d) + caller[c].capacity <= LimitBytes
        /\ queue' = [queue EXCEPT ![d] = Tail(@)]
  /\ caller' = [caller EXCEPT ![c].at = "ready"]
  /\ UNCHANGED <<buffer, cached_bytes, trim, lost, leaked>>

(* ResourceReservation::Reset: tickets of cached buffers outlive it. *)
Close(c) ==
  /\ caller[c].at = "ready" /\ Leased(c) = {}
  /\ caller' = [caller EXCEPT ![c] = Outside]
  /\ buffer' = [p \in Pointer |-> IF p \in Existing /\ buffer[p].owner = c
                                    THEN [buffer[p] EXCEPT !.owner = "closed"]
                                    ELSE buffer[p]]
  /\ UNCHANGED <<queue, cached_bytes, trim, lost, leaked>>

-------------------------------------------------------------------------------
(* TrimPool.  It takes cache_mutex, makes the generation of every lease out  *)
(* of date when it invalidates them, and queues the frees of the completed   *)
(* buffers in its scope; the first that fails ends the queueing.            *)
InScope(d) == {p \in Cached : d = "all" \/ buffer[p].domain = d}

(* The trim leaves the generation of the leases alone *)
LeasesKept(d) ==
  [p \in Pointer |-> IF p \in Existing /\ buffer[p].at = "leased"
                       THEN [buffer[p] EXCEPT !.trimmed = @ \/ d \in {"all", buffer[p].domain}]
                       ELSE buffer[p]]

Invalidated(d) ==
  [p \in Pointer |-> IF p \in Existing /\ buffer[p].at = "leased"
                       THEN [buffer[p] EXCEPT !.outdated = TRUE,
                                              !.trimmed = @ \/ d \in {"all", buffer[p].domain}]
                       ELSE buffer[p]]

ReadersInvalidated ==
  [c \in Caller |-> IF caller[c].at \in {"lookup", "prepare", "malloc", "oom", "retry"}
                      THEN [caller[c] EXCEPT !.outdated = TRUE] ELSE caller[c]]

(* The charges of the queued buffers dropped before their release completed *)
QueueFreesUncharged(by, d, invalidate) ==
  /\ CacheUnlocked
  /\ \E released \in SUBSET InScope(d) :
       /\ trim' = [by |-> by, released |-> released, error |-> released # InScope(d)]
       /\ buffer' = [p \in Pointer |-> IF p \in released
                                         THEN [buffer[p] EXCEPT !.owner = "none"] ELSE buffer[p]]
  /\ caller' = IF invalidate THEN ReadersInvalidated ELSE caller
  /\ UNCHANGED cached_bytes

QueueFrees(by, d, invalidate) ==
  /\ CacheUnlocked
  /\ \E released \in SUBSET InScope(d) :
       trim' = [by |-> by, released |-> released, error |-> released # InScope(d)]
  /\ buffer' = IF invalidate THEN Invalidated(d) ELSE buffer
  /\ caller' = IF invalidate THEN ReadersInvalidated ELSE caller
  /\ UNCHANGED cached_bytes

(* An admission evicts its own domain, out of memory trims every domain but  *)
(* keeps the leases, and TrimVarDctPreparationCache does both.              *)
Evict(c) ==
  /\ caller[c].at = "evicting" /\ QueueFrees(c, caller[c].domain, TRUE)
  /\ UNCHANGED <<queue, lost, leaked>>

TrimForRetry(c) ==
  /\ caller[c].at = "oom" /\ QueueFrees(c, "all", FALSE)
  /\ UNCHANGED <<queue, lost, leaked>>

TrimPreparationCache == QueueFrees("user", "all", TRUE) /\ UNCHANGED <<queue, lost, leaked>>

(* What the trim's status does to the caller that asked for it. *)
TrimReturns(ok) ==
  LET c == trim.by IN
  IF c \notin Caller THEN UNCHANGED <<caller, queue>>
  ELSE IF caller[c].at = "oom"
    THEN /\ caller' = [caller EXCEPT ![c] = IF ok THEN [@ EXCEPT !.at = "retry"] ELSE Ready(c)]
         /\ UNCHANGED queue
    ELSE IF ok
      THEN caller' = [caller EXCEPT ![c].at = "asleep"] /\ UNCHANGED queue
      ELSE /\ caller' = [caller EXCEPT ![c] = Outside]
           /\ LET d == caller[c].domain
              IN \E i \in 1 .. Len(queue[d]) :
                   queue[d][i] = c /\ queue' = [queue EXCEPT ![d] = Without(@, i)]

(* The release completed: backing, entry and ticket of what was queued go.   *)
(* TrimTo may still fail; what was released stays released.                *)
TrimCompletes ==
  /\ trim # NoTrim /\ ~lost
  /\ buffer' = [p \in Pointer |-> IF p \in trim.released THEN NoBuffer ELSE buffer[p]]
  /\ cached_bytes' = cached_bytes - BytesOf(trim.released)
  /\ \E ok \in BOOLEAN : (trim.error => ~ok) /\ TrimReturns(ok)
  /\ trim' = NoTrim
  /\ UNCHANGED <<lost, leaked>>

(* The completion failed: every entry stays, also those whose free is queued. *)
TrimFails ==
  /\ trim # NoTrim
  /\ lost' = TRUE
  /\ buffer' = [p \in Pointer |-> IF p \in trim.released
                                    THEN [buffer[p] EXCEPT !.backed = FALSE] ELSE buffer[p]]
  /\ TrimReturns(FALSE)
  /\ trim' = NoTrim
  /\ UNCHANGED <<cached_bytes, leaked>>

-------------------------------------------------------------------------------
(* CudaBackend::Allocate.  The generation is read before the cache is       *)
(* looked at, without its lock.                                            *)
ReadGeneration(c, n) ==
  /\ caller[c].at = "ready"
  /\ caller' = [caller EXCEPT ![c] = [at |-> "lookup", domain |-> caller[c].domain,
                                      capacity |-> caller[c].capacity, want |-> n,
                                      outdated |-> FALSE]]
  /\ UNCHANGED <<queue, buffer, cached_bytes, trim, lost, leaked>>

HasRoom(c) == caller[c].want <= caller[c].capacity - Charged(c)

Fitting(c) ==
  {p \in Cached : buffer[p].bytes = caller[c].want /\ buffer[p].domain = caller[c].domain}

Lend(p, c, old) ==
  [buffer[p] EXCEPT !.at = "leased", !.owner = c, !.lane = c, !.outdated = old,
                    !.trimmed = FALSE]

(* AcquireCachedBuffer: entries of this size and domain that do not fit the  *)
(* envelope are released on the way to one that does.  A free may fail; the  *)
(* code ignores it, releases the ticket and forgets the pointer.           *)
AcquireCachedBuffer(c) ==
  /\ caller[c].at = "lookup" /\ CacheUnlocked
  /\ LET usable == {p \in Fitting(c) : HasRoom(c) \/ buffer[p].owner = c}
         others == Fitting(c) \ usable
     IN \E taken \in IF usable = {} THEN {{}} ELSE {{p} : p \in usable} :
        \E dropped \in IF usable = {} THEN {others} ELSE SUBSET others :
          /\ buffer' = [p \in Pointer |->
                          CASE p \in taken -> Lend(p, c, caller[c].outdated)
                            [] p \in dropped -> NoBuffer
                            [] OTHER -> buffer[p]]
          /\ cached_bytes' = cached_bytes - BytesOf(taken \cup dropped)
          /\ caller' = [caller EXCEPT ![c] = IF taken = {} THEN [@ EXCEPT !.at = "prepare"]
                                             ELSE Ready(c)]
          /\ \E unfreed \in SUBSET {p \in dropped : buffer[p].backed} :
               leaked' = leaked + BytesOf(unfreed)
          /\ lost' \in IF dropped = {} THEN {lost} ELSE {lost, TRUE}
  /\ UNCHANGED <<queue, trim>>

(* PrepareResourceAllocation within the envelope *)
PrepareAllocation(c) ==
  /\ caller[c].at = "prepare"
  /\ caller' = [caller EXCEPT ![c] = IF HasRoom(c) THEN [@ EXCEPT !.at = "malloc"] ELSE Ready(c)]
  /\ UNCHANGED <<queue, buffer, cached_bytes, trim, lost, leaked>>

(* cudaMallocFromPoolAsync, Commit and the owner; out of memory is retried   *)
(* once, any other failure returns and drops the pending ticket.           *)
AllocateDeviceMemory(c) ==
  /\ caller[c].at \in {"malloc", "retry"}
  /\ \/ /\ ~lost /\ caller[c].want <= FreeBytes
        /\ \E p \in Pointer \ Existing :
             buffer' = [buffer EXCEPT ![p] =
               [at |-> "leased", bytes |-> caller[c].want, domain |-> caller[c].domain,
                owner |-> c, lane |-> c, outdated |-> caller[c].outdated,
                trimmed |-> FALSE, busy |-> FALSE, backed |-> TRUE]]
        /\ caller' = [caller EXCEPT ![c] = Ready(c)]
     \/ /\ ~lost /\ caller[c].want > FreeBytes /\ caller[c].at = "malloc"
        /\ caller' = [caller EXCEPT ![c].at = "oom"]
        /\ UNCHANGED buffer
     \/ /\ caller' = [caller EXCEPT ![c] = Ready(c)]
        /\ UNCHANGED buffer
  /\ UNCHANGED <<queue, cached_bytes, trim, lost, leaked>>

-------------------------------------------------------------------------------
(* Work submitted on the caller's lane uses its buffers until it completes. *)
Submit(c, p) ==
  /\ caller[c].at = "ready" /\ p \in Leased(c)
  /\ buffer' = [buffer EXCEPT ![p].busy = TRUE]
  /\ UNCHANGED <<queue, caller, cached_bytes, trim, lost, leaked>>

Drained(c) ==
  [p \in Pointer |-> IF p \in Leased(c) THEN [buffer[p] EXCEPT !.busy = FALSE] ELSE buffer[p]]

StreamCompletes(c) ==
  /\ \E p \in Leased(c) : buffer[p].busy
  /\ buffer' = Drained(c)
  /\ UNCHANGED <<queue, caller, cached_bytes, trim, lost, leaked>>

(* ~CudaBuffer and CacheCompletedBuffer: the lane is drained first. *)
Synchronize(c, p) ==
  /\ caller[c].at = "ready" /\ p \in Leased(c)
  /\ LET Then(next) == caller' = [caller EXCEPT ![c] =
                         [at |-> next, domain |-> caller[c].domain,
                          capacity |-> caller[c].capacity, pointer |-> p]]
     IN IF ThresholdBytes = 0
          THEN Then("freeing") /\ UNCHANGED <<buffer, lost>>
          ELSE \/ ~lost /\ Then("caching") /\ buffer' = Drained(c) /\ UNCHANGED lost
               \/ Then("freeing") /\ lost' = TRUE /\ UNCHANGED buffer
  /\ UNCHANGED <<queue, cached_bytes, trim, leaked>>

(* Storage of the size and the slot left decide alone *)
MayCacheQueued(p) ==
  /\ ~buffer[p].outdated
  /\ buffer[p].bytes <= ThresholdBytes - cached_bytes /\ Cardinality(Cached) < Slots

(* MakeIdle refuses while an admission of the domain is queued. *)
MayCache(p) ==
  /\ ~buffer[p].outdated
  /\ buffer[p].bytes <= ThresholdBytes - cached_bytes /\ Cardinality(Cached) < Slots
  /\ queue[buffer[p].domain] = <<>>

CacheCompletedBuffer(c) ==
  /\ caller[c].at = "caching" /\ CacheUnlocked
  /\ LET p == caller[c].pointer
     IN IF MayCache(p)
          THEN /\ buffer' = [buffer EXCEPT ![p].at = "cached", ![p].lane = "none"]
               /\ cached_bytes' = cached_bytes + buffer[p].bytes
               /\ caller' = [caller EXCEPT ![c] = Ready(c)]
          ELSE /\ caller' = [caller EXCEPT ![c].at = "freeing"]
               /\ UNCHANGED <<buffer, cached_bytes>>
  /\ UNCHANGED <<queue, trim, lost, leaked>>

(* FreeDeviceMemory frees, if it can, and drains; the ticket is reset after  *)
(* it, and the buffer's owner is gone.                                      *)
FreeDeviceMemory(c) ==
  /\ caller[c].at = "freeing"
  /\ \E freed \in BOOLEAN :
       buffer' = [Drained(c) EXCEPT ![caller[c].pointer].backed = @ /\ ~freed]
  /\ caller' = [caller EXCEPT ![c].at = "freed"]
  /\ lost' \in {lost, TRUE}
  /\ UNCHANGED <<queue, cached_bytes, trim, leaked>>

ResetTicket(c) ==
  /\ caller[c].at = "freed"
  /\ buffer' = [buffer EXCEPT ![caller[c].pointer] = NoBuffer]
  /\ leaked' = leaked + BytesOf({p \in {caller[c].pointer} : buffer[p].backed})
  /\ caller' = [caller EXCEPT ![c] = Ready(c)]
  /\ UNCHANGED <<queue, cached_bytes, trim, lost>>

-------------------------------------------------------------------------------
Init ==
  /\ queue = [d \in Domain |-> <<>>]
  /\ caller = [c \in Caller |-> Outside]
  /\ buffer = [p \in Pointer |-> NoBuffer]
  /\ cached_bytes = 0
  /\ trim = NoTrim
  /\ lost = FALSE /\ leaked = 0

Admission(c) ==
  \/ \E d \in Domain, n \in Sizes : Reserve(c, d, n)
  \/ Admit(c) \/ Close(c) \/ Evict(c)

Allocation(c) ==
  \/ \E n \in Sizes : ReadGeneration(c, n)
  \/ AcquireCachedBuffer(c) \/ PrepareAllocation(c) \/ AllocateDeviceMemory(c) \/ TrimForRetry(c)

Use(c) ==
  \/ \E p \in Pointer : Submit(c, p) \/ Synchronize(c, p)
  \/ StreamCompletes(c)
  \/ CacheCompletedBuffer(c) \/ FreeDeviceMemory(c) \/ ResetTicket(c)

Next ==
  \/ \E c \in Caller : Admission(c) \/ Allocation(c) \/ Use(c)
  \/ TrimPreparationCache \/ TrimCompletes \/ TrimFails

Spec == Init /\ [][Next]_vars

-------------------------------------------------------------------------------
(* Retention never strands an admission: once a caller has evicted and       *)
(* sleeps in Reserve, its domain holds no idle buffer it could be waiting    *)
(* for, whatever returns to the cache meanwhile (resource_budget.h:230-240). *)
WaiterNotBehindIdle ==
  \A c \in Caller : caller[c].at = "asleep" =>
    \A p \in Cached : buffer[p].domain # caller[c].domain

(* Every byte of a buffer is charged to a domain until its free was tried,   *)
(* through both phases of a trim, a retry and a release that fails: what is  *)
(* backed and has a buffer is covered by what its domain committed, and that *)
(* by its limit; with what failed frees have leaked it fits the device; the  *)
(* cache never retains more than its threshold.                             *)
ChargeCoversBacking ==
  /\ \A d \in Domain :
       /\ BytesOf({p \in Existing : buffer[p].backed /\ buffer[p].domain = d}) <= Committed(d)
       /\ Committed(d) <= LimitBytes
  /\ \A c \in Admitted : Charged(c) <= caller[c].capacity
  /\ FreeBytes >= 0
  /\ cached_bytes = BytesOf(Cached) /\ cached_bytes <= ThresholdBytes

(* A cached buffer can be lent to any lane: no lane has work left on it, no  *)
(* trim of its domain overtook the lease it comes from, and its free was not *)
(* queued, unless the device is lost (cuda_backend.cpp:117-125, 158).       *)
CachedIsReusable ==
  \A p \in Cached : /\ ~buffer[p].busy
                    /\ ~buffer[p].trimmed
                    /\ (buffer[p].backed \/ lost)
===============================================================================
