---------------------------- MODULE DevicePoolProofs ----------------------------
(***************************************************************************)
(* The safety of the device pool for any number of callers, domains,        *)
(* pointers and bytes: no admission sleeps behind an idle buffer of its      *)
(* domain, every cached buffer can be lent, and every byte of the device is  *)
(* charged.                                                                 *)
(***************************************************************************)
EXTENDS DevicePool, CollectionsProofs

CallerStates ==
  {Outside}
    \cup [at : {"evicting", "asleep", "ready"}, domain : Domain, capacity : Sizes]
    \cup [at : {"lookup", "prepare", "malloc", "oom", "retry"},
          domain : Domain, capacity : Sizes, want : Sizes, outdated : BOOLEAN]
    \cup [at : {"caching", "freeing", "freed"},
          domain : Domain, capacity : Sizes, pointer : Pointer]

LiveBuffers ==
  [at : {"leased", "cached"}, bytes : Sizes, domain : Domain,
   owner : Caller \cup {"closed"}, lane : Caller \cup {"none"},
   outdated : BOOLEAN, trimmed : BOOLEAN, busy : BOOLEAN, backed : BOOLEAN]

BufferStates == {NoBuffer} \cup LiveBuffers

Trims == {NoTrim} \cup [by : Caller \cup {"user"}, released : SUBSET Pointer, error : BOOLEAN]

Types ==
  /\ queue \in [Domain -> Seq(Caller)]
  /\ caller \in [Caller -> CallerStates]
  /\ buffer \in [Pointer -> BufferStates]
  /\ trim \in Trims
  /\ lost \in BOOLEAN

Waits(c) == caller[c].at \in {"evicting", "asleep"}

WaitersQueued ==
  \A d \in Domain :
    /\ Distinct(queue[d])
    /\ \A c \in Caller : c \in Members(queue[d]) <=> (Waits(c) /\ caller[c].domain = d)

TrimIsHeld ==
  trim # NoTrim =>
    /\ \A p \in trim.released : buffer[p].at = "cached"
    /\ trim.by \in Caller => caller[trim.by].at \in {"evicting", "oom"}
    /\ (trim.by \in Caller /\ caller[trim.by].at = "evicting" /\ ~trim.error) =>
         \A p \in Cached : buffer[p].domain = caller[trim.by].domain => p \in trim.released

Drops(c) == caller[c].at \in {"caching", "freeing", "freed"}

DropsLeased ==
  \A c \in Caller : Drops(c) =>
    /\ buffer[caller[c].pointer].at = "leased"
    /\ buffer[caller[c].pointer].lane = c
    /\ caller[c].at = "caching" => ~buffer[caller[c].pointer].busy

CachedAreClean ==
  \A p \in Existing :
    /\ buffer[p].trimmed => buffer[p].outdated
    /\ buffer[p].at = "cached" => ~buffer[p].trimmed /\ ~buffer[p].busy

BackedUntilFreed ==
  \A p \in Existing :
    \/ buffer[p].backed \/ lost
    \/ \E c \in Caller : caller[c].at = "freed" /\ caller[c].pointer = p

OwnersAdmitted ==
  \A p \in Existing :
    \/ buffer[p].owner = "closed"
    \/ buffer[p].owner \in Admitted /\ caller[buffer[p].owner].domain = buffer[p].domain

-------------------------------------------------------------------------------

(* What a caller and a buffer have in each of their states. *)
LEMMA CallerFields ==
  ASSUME NEW s \in CallerStates
  PROVE  /\ s.at \in {"outside", "evicting", "asleep", "ready", "lookup", "prepare", "malloc",
                      "oom", "retry", "caching", "freeing", "freed"}
         /\ s.at # "outside" => s.domain \in Domain /\ s.capacity \in Sizes
         /\ s.at \in {"lookup", "prepare", "malloc", "oom", "retry"} =>
              s.want \in Sizes /\ s.outdated \in BOOLEAN
         /\ s.at \in {"caching", "freeing", "freed"} => s.pointer \in Pointer
BY DEF CallerStates, Outside

(* A caller that enters Reserve is a caller state. *)
LEMMA OpenCaller ==
  ASSUME NEW d \in Domain, NEW n \in Sizes, NEW a \in {"evicting", "asleep", "ready"}
  PROVE  [at |-> a, domain |-> d, capacity |-> n] \in CallerStates
BY DEF CallerStates

(* A waiter that moves on keeps what it waits for. *)
LEMMA CallerWakes ==
  ASSUME NEW s \in CallerStates, s.at \in {"evicting", "asleep"}, NEW a \in {"asleep", "ready"},
         NEW t, t = [s EXCEPT !.at = a]
  PROVE  t \in CallerStates /\ t.at = a /\ t.domain = s.domain /\ t.capacity = s.capacity
BY DEF CallerStates, Outside

(* An allocating caller that moves on keeps its envelope and its request. *)
LEMMA CallerAllocates ==
  ASSUME NEW s \in CallerStates, s.at \in {"lookup", "prepare", "malloc", "oom", "retry"},
         NEW a \in {"lookup", "prepare", "malloc", "oom", "retry"},
         NEW t, t = [s EXCEPT !.at = a]
  PROVE  /\ t \in CallerStates /\ t.at = a /\ t.domain = s.domain /\ t.capacity = s.capacity
         /\ t.want = s.want
BY DEF CallerStates, Outside

(* A generation read that is overtaken is only marked. *)
LEMMA CallerOutdated ==
  ASSUME NEW s \in CallerStates, s.at \in {"lookup", "prepare", "malloc", "oom", "retry"},
         NEW t, t = [s EXCEPT !.outdated = TRUE]
  PROVE  /\ t \in CallerStates /\ t.at = s.at /\ t.domain = s.domain
         /\ t.capacity = s.capacity /\ t.want = s.want
BY DEF CallerStates, Outside

(* A caller that gives a buffer up goes on with the same one. *)
LEMMA CallerDrops ==
  ASSUME NEW s \in CallerStates, s.at \in {"caching", "freeing", "freed"},
         NEW a \in {"caching", "freeing", "freed"}, NEW t, t = [s EXCEPT !.at = a]
  PROVE  /\ t \in CallerStates /\ t.at = a /\ t.domain = s.domain /\ t.capacity = s.capacity
         /\ t.pointer = s.pointer
BY DEF CallerStates, Outside

(* What a buffer that exists carries. *)
LEMMA BufferFields ==
  ASSUME NEW b \in BufferStates
  PROVE  /\ b.at \in {"none", "leased", "cached"}
         /\ b.at # "none" => /\ b.bytes \in Sizes /\ b.domain \in Domain
                             /\ b.owner \in Caller \cup {"closed"}
                             /\ b.lane \in Caller \cup {"none"}
                             /\ b.outdated \in BOOLEAN /\ b.trimmed \in BOOLEAN
                             /\ b.busy \in BOOLEAN /\ b.backed \in BOOLEAN
BY DEF BufferStates, LiveBuffers, NoBuffer

(* A buffer that exists is a full record. *)
LEMMA IsLive ==
  ASSUME NEW b \in BufferStates, b.at # "none"
  PROVE  b \in LiveBuffers
BY DEF BufferStates, NoBuffer

(* The ticket of a buffer closes: only its owner changes. *)
LEMMA TicketCloses ==
  ASSUME NEW b \in BufferStates, b.at # "none",
         NEW t, t = [b EXCEPT !.owner = "closed"]
  PROVE  /\ t \in BufferStates /\ t.at = b.at /\ t.bytes = b.bytes /\ t.domain = b.domain
         /\ t.lane = b.lane /\ t.outdated = b.outdated /\ t.trimmed = b.trimmed
         /\ t.busy = b.busy /\ t.backed = b.backed /\ t.owner = "closed"
BY IsLive DEF BufferStates, LiveBuffers

(* The device memory of a buffer is released: only that changes. *)
LEMMA BackingGoes ==
  ASSUME NEW b \in BufferStates, b.at # "none",
         NEW t, t = [b EXCEPT !.backed = FALSE]
  PROVE  /\ t \in BufferStates /\ t.at = b.at /\ t.bytes = b.bytes /\ t.domain = b.domain
         /\ t.owner = b.owner /\ t.lane = b.lane /\ t.outdated = b.outdated
         /\ t.trimmed = b.trimmed /\ t.busy = b.busy /\ ~t.backed
BY IsLive DEF BufferStates, LiveBuffers

(* Its free is tried: at most its backing goes. *)
LEMMA BackingTried ==
  ASSUME NEW b \in BufferStates, b.at # "none", NEW freed \in BOOLEAN,
         NEW t, t = [b EXCEPT !.backed = @ /\ ~freed]
  PROVE  /\ t \in BufferStates /\ t.at = b.at /\ t.bytes = b.bytes /\ t.domain = b.domain
         /\ t.owner = b.owner /\ t.lane = b.lane /\ t.outdated = b.outdated
         /\ t.trimmed = b.trimmed /\ t.busy = b.busy /\ (t.backed => b.backed)
<1>1. b.backed \in BOOLEAN
  BY BufferFields
<1>2. CASE freed \/ ~b.backed
  <2>1. (b.backed /\ ~freed) = FALSE
    BY <1>1, <1>2
  <2>2. QED
    BY <2>1, BackingGoes
<1>3. CASE ~freed /\ b.backed
  <2>1. (b.backed /\ ~freed) = TRUE /\ b.backed = TRUE
    BY <1>1, <1>3
  <2>2. t = b
    BY <2>1, IsLive DEF LiveBuffers
  <2>3. QED
    BY <2>2
<1>4. QED
  BY <1>2, <1>3

(* Work is queued on a buffer or completes: only that changes. *)
LEMMA BusyChanges ==
  ASSUME NEW b \in BufferStates, b.at # "none", NEW v \in BOOLEAN,
         NEW t, t = [b EXCEPT !.busy = v]
  PROVE  /\ t \in BufferStates /\ t.at = b.at /\ t.bytes = b.bytes /\ t.domain = b.domain
         /\ t.owner = b.owner /\ t.lane = b.lane /\ t.outdated = b.outdated
         /\ t.trimmed = b.trimmed /\ t.backed = b.backed /\ t.busy = v
BY IsLive DEF BufferStates, LiveBuffers

(* A cached buffer is leased: its bytes and its backing stay. *)
LEMMA BufferLent ==
  ASSUME NEW b \in BufferStates, b.at # "none", NEW c \in Caller, NEW old \in BOOLEAN,
         NEW t, t = [b EXCEPT !.at = "leased", !.owner = c, !.lane = c, !.outdated = old,
                           !.trimmed = FALSE]
  PROVE  /\ t \in BufferStates /\ t.bytes = b.bytes /\ t.domain = b.domain
         /\ t.busy = b.busy /\ t.backed = b.backed /\ t.at = "leased" /\ t.owner = c
         /\ t.lane = c /\ t.outdated = old /\ ~t.trimmed
BY IsLive DEF BufferStates, LiveBuffers

(* A lease is cached: its ticket, bytes and backing stay. *)
LEMMA BufferCached ==
  ASSUME NEW b \in BufferStates, b.at # "none",
         NEW t, t = [b EXCEPT !.at = "cached", !.lane = "none"]
  PROVE  /\ t \in BufferStates /\ t.bytes = b.bytes /\ t.domain = b.domain
         /\ t.owner = b.owner /\ t.outdated = b.outdated /\ t.trimmed = b.trimmed
         /\ t.busy = b.busy /\ t.backed = b.backed /\ t.at = "cached" /\ t.lane = "none"
BY IsLive DEF BufferStates, LiveBuffers

(* A new lease is a buffer state. *)
LEMMA BufferNew ==
  ASSUME NEW c \in Caller, NEW n \in Sizes, NEW d \in Domain, NEW old \in BOOLEAN
  PROVE  [at |-> "leased", bytes |-> n, domain |-> d, owner |-> c, lane |-> c,
          outdated |-> old, trimmed |-> FALSE, busy |-> FALSE, backed |-> TRUE]
           \in BufferStates
BY DEF BufferStates, LiveBuffers

-------------------------------------------------------------------------------
(* Every step, field by field. *)

Reads(c) == caller[c].at \in {"lookup", "prepare", "malloc", "oom", "retry"}

OthersStay(c) == \A x \in Caller \ {c} : caller'[x] = caller[x]

CallerKept(x) ==
  /\ caller'[x].at = caller[x].at
  /\ caller[x].at # "outside" => /\ caller'[x].domain = caller[x].domain
                                 /\ caller'[x].capacity = caller[x].capacity
  /\ Reads(x) => caller'[x].want = caller[x].want
  /\ Drops(x) => caller'[x].pointer = caller[x].pointer

(* One caller changes to a state of its type. *)
LEMMA CallerTypes ==
  ASSUME Types, NEW c \in Caller, NEW s \in CallerStates, caller' = [caller EXCEPT ![c] = s]
  PROVE  caller' \in [Caller -> CallerStates] /\ caller'[c] = s /\ OthersStay(c)
BY DEF Types, OthersStay

(* What each action changes, as the invariants need it; Types with it. *)
LEMMA ReserveMoves ==
  ASSUME Types, NEW c \in Caller, NEW d \in Domain, NEW n \in Sizes, Reserve(c, d, n)
  PROVE  /\ Types' /\ OthersStay(c)
         /\ caller[c].at = "outside"
         /\ caller'[c].domain = d /\ caller'[c].capacity = n
         /\ \/ /\ caller'[c].at = "ready" /\ Committed(d) + n <= LimitBytes
               /\ queue' = queue
            \/ /\ caller'[c].at = "evicting"
               /\ queue' = [queue EXCEPT ![d] = Append(@, c)]
         /\ UNCHANGED <<buffer, cached_bytes, trim, lost>>
<1> DEFINE s(a) == [at |-> a, domain |-> d, capacity |-> n]
<1>1. s("ready") \in CallerStates /\ s("evicting") \in CallerStates
  BY OpenCaller
<1>2. /\ caller[c].at = "outside" /\ UNCHANGED <<buffer, cached_bytes, trim, lost>>
      /\ \/ /\ caller' = [caller EXCEPT ![c] = s("ready")] /\ queue' = queue
            /\ Committed(d) + n <= LimitBytes
         \/ /\ caller' = [caller EXCEPT ![c] = s("evicting")]
            /\ queue' = [queue EXCEPT ![d] = Append(@, c)]
  BY DEF Reserve
<1>3. /\ caller' \in [Caller -> CallerStates] /\ OthersStay(c)
      /\ \/ /\ caller'[c] = s("ready") /\ queue' = queue /\ Committed(d) + n <= LimitBytes
         \/ /\ caller'[c] = s("evicting")
            /\ queue' = [queue EXCEPT ![d] = Append(@, c)]
  BY <1>1, <1>2, CallerTypes
<1>4. queue' \in [Domain -> Seq(Caller)]
  <2>1. queue[d] \in Seq(Caller) /\ Append(queue[d], c) \in Seq(Caller)
    BY DEF Types
  <2>2. QED
    BY <1>2, <2>1 DEF Types
<1>5. Types'
  BY <1>2, <1>3, <1>4 DEF Types
<1>6. QED
  BY <1>2, <1>3, <1>5

(* A waiter is admitted with the envelope it waited for. *)
LEMMA AdmitMoves ==
  ASSUME Types, WaitersQueued, NEW c \in Caller, Admit(c)
  PROVE  /\ Types' /\ OthersStay(c)
         /\ caller[c].at = "asleep" /\ caller'[c].at = "ready"
         /\ caller[c].domain \in Domain /\ caller[c].capacity \in Sizes
         /\ caller'[c].domain = caller[c].domain /\ caller'[c].capacity = caller[c].capacity
         /\ Head(queue[caller[c].domain]) = c
         /\ Committed(caller[c].domain) + caller[c].capacity <= LimitBytes
         /\ queue' = [queue EXCEPT ![caller[c].domain] = Tail(@)]
         /\ UNCHANGED <<buffer, cached_bytes, trim, lost>>
<1> DEFINE t == [caller[c] EXCEPT !.at = "ready"]
<1>1. /\ caller[c].at = "asleep" /\ caller' = [caller EXCEPT ![c] = t]
      /\ Head(queue[caller[c].domain]) = c
      /\ Committed(caller[c].domain) + caller[c].capacity <= LimitBytes
      /\ queue' = [queue EXCEPT ![caller[c].domain] = Tail(@)]
      /\ UNCHANGED <<buffer, cached_bytes, trim, lost>>
  BY DEF Admit
<1>2. caller[c] \in CallerStates
  BY DEF Types
<1>3. /\ t \in CallerStates /\ t.at = "ready" /\ t.domain = caller[c].domain
      /\ t.capacity = caller[c].capacity
  BY <1>1, <1>2, CallerWakes
<1> HIDE DEF t
<1>4. caller' \in [Caller -> CallerStates] /\ caller'[c] = t /\ OthersStay(c)
  BY <1>1, <1>3, CallerTypes
<1>5. caller[c].domain \in Domain /\ caller[c].capacity \in Sizes
  BY <1>1, <1>2, CallerFields
<1>6. queue' \in [Domain -> Seq(Caller)]
  <2>1. queue[caller[c].domain] \in Seq(Caller) /\ c \in Members(queue[caller[c].domain])
    BY <1>1, <1>5 DEF Types, WaitersQueued, Waits
  <2>2. Tail(queue[caller[c].domain]) \in Seq(Caller)
    BY <2>1 DEF Members
  <2>3. QED
    BY <1>1, <2>2 DEF Types
<1>7. Types'
  BY <1>1, <1>4, <1>6 DEF Types
<1>8. QED
  BY <1>1, <1>3, <1>4, <1>5, <1>7


(* A scope that ends closes its tickets. *)
LEMMA CloseMoves ==
  ASSUME Types, NEW c \in Caller, Close(c)
  PROVE  /\ Types' /\ OthersStay(c)
         /\ caller[c].at = "ready" /\ caller'[c] = Outside
         /\ caller[c].domain \in Domain /\ caller[c].capacity \in Sizes
         /\ \A p \in Pointer :
              /\ buffer'[p].at = buffer[p].at
              /\ p \in Existing =>
                   /\ buffer'[p].bytes = buffer[p].bytes /\ buffer'[p].domain = buffer[p].domain
                   /\ buffer'[p].lane = buffer[p].lane /\ buffer'[p].busy = buffer[p].busy
                   /\ buffer'[p].outdated = buffer[p].outdated
                   /\ buffer'[p].trimmed = buffer[p].trimmed
                   /\ buffer'[p].backed = buffer[p].backed
                   /\ buffer'[p].owner = IF buffer[p].owner = c THEN "closed" ELSE buffer[p].owner
         /\ UNCHANGED <<queue, cached_bytes, trim, lost>>
<1>1. /\ caller[c].at = "ready" /\ caller' = [caller EXCEPT ![c] = Outside]
      /\ UNCHANGED <<queue, cached_bytes, trim, lost>>
  BY DEF Close
<1>2. Outside \in CallerStates
  BY DEF CallerStates
<1>3. caller' \in [Caller -> CallerStates] /\ caller'[c] = Outside /\ OthersStay(c)
  BY <1>1, <1>2, CallerTypes
<1>4. caller[c] \in CallerStates
  BY DEF Types
<1>5. caller[c].domain \in Domain /\ caller[c].capacity \in Sizes
  BY <1>1, <1>4, CallerFields
<1> DEFINE closed(p) == [buffer[p] EXCEPT !.owner = "closed"]
<1>6. buffer' = [p \in Pointer |-> IF p \in Existing /\ buffer[p].owner = c THEN closed(p)
                                   ELSE buffer[p]]
  BY DEF Close
<1>7. ASSUME NEW p \in Existing
      PROVE  /\ closed(p) \in BufferStates /\ closed(p).at = buffer[p].at
             /\ closed(p).bytes = buffer[p].bytes /\ closed(p).domain = buffer[p].domain
             /\ closed(p).lane = buffer[p].lane /\ closed(p).busy = buffer[p].busy
             /\ closed(p).outdated = buffer[p].outdated
             /\ closed(p).trimmed = buffer[p].trimmed
             /\ closed(p).backed = buffer[p].backed /\ closed(p).owner = "closed"
  BY TicketCloses DEF Types, Existing
<1> HIDE DEF closed
<1>8. buffer' \in [Pointer -> BufferStates]
  BY <1>6, <1>7 DEF Types
<1>9. Types'
  BY <1>1, <1>3, <1>8 DEF Types
<1>10. \A p \in Pointer :
              /\ buffer'[p].at = buffer[p].at
              /\ p \in Existing =>
                   /\ buffer'[p].bytes = buffer[p].bytes /\ buffer'[p].domain = buffer[p].domain
                   /\ buffer'[p].lane = buffer[p].lane /\ buffer'[p].busy = buffer[p].busy
                   /\ buffer'[p].outdated = buffer[p].outdated
                   /\ buffer'[p].trimmed = buffer[p].trimmed
                   /\ buffer'[p].backed = buffer[p].backed
                   /\ buffer'[p].owner = IF buffer[p].owner = c THEN "closed" ELSE buffer[p].owner
  BY <1>6, <1>7
<1>11. QED
  BY <1>1, <1>3, <1>5, <1>9, <1>10

(* A trim that starts: the leases it invalidates, the callers that already   *)
(* read the generation.                                                    *)
LEMMA LeasesInvalidated ==
  ASSUME Types, NEW d \in Domain \cup {"all"}, buffer' = Invalidated(d)
  PROVE  /\ buffer' \in [Pointer -> BufferStates]
         /\ \A p \in Pointer :
              /\ buffer'[p].at = buffer[p].at
              /\ buffer[p].at # "leased" => buffer'[p] = buffer[p]
              /\ buffer[p].at = "leased" =>
                   /\ buffer'[p].bytes = buffer[p].bytes /\ buffer'[p].domain = buffer[p].domain
                   /\ buffer'[p].owner = buffer[p].owner /\ buffer'[p].lane = buffer[p].lane
                   /\ buffer'[p].busy = buffer[p].busy /\ buffer'[p].backed = buffer[p].backed
                   /\ buffer'[p].outdated
<1> DEFINE v(p) == buffer[p].trimmed \/ d \in {"all", buffer[p].domain}
           old(p) == [buffer[p] EXCEPT !.outdated = TRUE, !.trimmed = v(p)]
<1>1. buffer' = [p \in Pointer |-> IF p \in Existing /\ buffer[p].at = "leased" THEN old(p)
                                   ELSE buffer[p]]
  BY Zenon DEF Invalidated
<1>2. ASSUME NEW p \in Existing
      PROVE  /\ old(p) \in BufferStates /\ old(p).at = buffer[p].at
             /\ old(p).bytes = buffer[p].bytes /\ old(p).domain = buffer[p].domain
             /\ old(p).owner = buffer[p].owner /\ old(p).lane = buffer[p].lane
             /\ old(p).busy = buffer[p].busy /\ old(p).backed = buffer[p].backed
             /\ old(p).outdated
  <2>1. buffer[p] \in BufferStates /\ buffer[p].at # "none"
    BY DEF Types, Existing
  <2>2. v(p) \in BOOLEAN
    OBVIOUS
  <2> HIDE DEF v
  <2>3. buffer[p] \in LiveBuffers
    BY <2>1, IsLive
  <2>4. QED
    BY <2>2, <2>3 DEF BufferStates, LiveBuffers
<1> HIDE DEF old
<1>3. buffer' \in [Pointer -> BufferStates]
  BY <1>1, <1>2 DEF Types
<1>4. \A p \in Pointer : buffer[p].at = "leased" => p \in Existing
  BY DEF Existing
<1>5. QED
  BY <1>1, <1>2, <1>3, <1>4

(* An invalidation leaves every caller where it is, with its envelope. *)
LEMMA ReadersMove ==
  ASSUME Types, caller' = ReadersInvalidated
  PROVE  /\ caller' \in [Caller -> CallerStates]
         /\ \A x \in Caller : CallerKept(x)
<1> DEFINE old(c) == [caller[c] EXCEPT !.outdated = TRUE]
<1>1. caller' = [c \in Caller |-> IF Reads(c) THEN old(c) ELSE caller[c]]
  BY DEF ReadersInvalidated, Reads
<1>2. ASSUME NEW c \in Caller, Reads(c)
      PROVE  /\ old(c) \in CallerStates /\ old(c).at = caller[c].at
             /\ old(c).domain = caller[c].domain /\ old(c).capacity = caller[c].capacity
             /\ old(c).want = caller[c].want
  BY <1>2, CallerOutdated DEF Types, Reads
<1> HIDE DEF old
<1>3. caller' \in [Caller -> CallerStates]
  BY <1>1, <1>2 DEF Types
<1>4. QED
  BY <1>1, <1>2, <1>3 DEF CallerKept, Reads, Drops

(* A trim takes cached buffers of its scope, and nobody else moves. *)
LEMMA QueueFreesMoves ==
  ASSUME Types, NEW by \in Caller \cup {"user"}, NEW d \in Domain \cup {"all"},
         NEW invalidate \in BOOLEAN, QueueFrees(by, d, invalidate), UNCHANGED <<queue, lost>>
  PROVE  /\ Types' /\ trim = NoTrim /\ trim' # NoTrim
         /\ trim'.by = by
         /\ trim'.released \in SUBSET InScope(d)
         /\ ~trim'.error => trim'.released = InScope(d)
         /\ \A x \in Caller : CallerKept(x)
         /\ \A p \in Pointer :
              /\ buffer'[p].at = buffer[p].at
              /\ buffer[p].at # "leased" => buffer'[p] = buffer[p]
              /\ buffer[p].at = "leased" =>
                   /\ buffer'[p].bytes = buffer[p].bytes /\ buffer'[p].domain = buffer[p].domain
                   /\ buffer'[p].owner = buffer[p].owner /\ buffer'[p].lane = buffer[p].lane
                   /\ buffer'[p].busy = buffer[p].busy /\ buffer'[p].backed = buffer[p].backed
                   /\ buffer'[p].outdated \/ buffer'[p] = buffer[p]
         /\ UNCHANGED <<queue, cached_bytes, lost>>
<1>1. /\ trim = NoTrim /\ UNCHANGED <<queue, cached_bytes, lost>>
      /\ buffer' = IF invalidate THEN Invalidated(d) ELSE buffer
      /\ caller' = IF invalidate THEN ReadersInvalidated ELSE caller
  BY DEF QueueFrees, CacheUnlocked
<1>2. PICK released \in SUBSET InScope(d) :
        trim' = [by |-> by, released |-> released, error |-> released # InScope(d)]
  BY DEF QueueFrees
<1>3. released \in SUBSET Pointer
  BY DEF InScope, Cached, Existing
<1>4. /\ trim' \in Trims /\ trim' # NoTrim /\ trim'.by = by
      /\ trim'.released = released /\ (~trim'.error => released = InScope(d))
  <2> DEFINE e == released # InScope(d)
  <2>1. e \in BOOLEAN /\ trim' = [by |-> by, released |-> released, error |-> e]
    BY <1>2
  <2>2. ~e => released = InScope(d)
    OBVIOUS
  <2> HIDE DEF e
  <2>3. trim' \in Trims /\ trim'.by = by /\ trim'.released = released /\ trim'.error = e
    BY <1>3, <2>1 DEF Trims
  <2>4. trim' # NoTrim
    <3>1. DOMAIN NoTrim = {"by"}
      BY DEF NoTrim
    <3>2. DOMAIN trim' = {"by", "released", "error"}
      BY <2>1
    <3>3. QED
      BY <3>1, <3>2
  <2>5. QED
    BY <2>2, <2>3, <2>4
<1>5. /\ caller' \in [Caller -> CallerStates]
      /\ \A x \in Caller : CallerKept(x)
  <2>1. CASE invalidate
    BY <1>1, <2>1, ReadersMove
  <2>2. CASE ~invalidate
    BY <1>1, <2>2 DEF Types, CallerKept
  <2>3. QED
    BY <2>1, <2>2
<1>6. /\ buffer' \in [Pointer -> BufferStates]
      /\ \A p \in Pointer :
              /\ buffer'[p].at = buffer[p].at
              /\ buffer[p].at # "leased" => buffer'[p] = buffer[p]
              /\ buffer[p].at = "leased" =>
                   /\ buffer'[p].bytes = buffer[p].bytes /\ buffer'[p].domain = buffer[p].domain
                   /\ buffer'[p].owner = buffer[p].owner /\ buffer'[p].lane = buffer[p].lane
                   /\ buffer'[p].busy = buffer[p].busy /\ buffer'[p].backed = buffer[p].backed
                   /\ buffer'[p].outdated \/ buffer'[p] = buffer[p]
  <2>1. CASE invalidate
    <3>1. buffer' = Invalidated(d)
      BY <1>1, <2>1
    <3>2. QED
      BY <3>1, LeasesInvalidated
  <2>2. CASE ~invalidate
    BY <1>1, <2>2 DEF Types
  <2>3. QED
    BY <2>1, <2>2
<1>7. Types'
  BY <1>1, <1>4, <1>5, <1>6 DEF Types
<1>8. QED
  BY <1>1, <1>4, <1>5, <1>6, <1>7


(* What the end of a trim does to the caller that asked for it. *)
LEMMA TrimReturnsMoves ==
  ASSUME Types, TrimIsHeld, trim # NoTrim, NEW ok \in BOOLEAN, TrimReturns(ok)
  PROVE  /\ caller' \in [Caller -> CallerStates] /\ queue' \in [Domain -> Seq(Caller)]
         /\ \A x \in Caller : x # trim.by => caller'[x] = caller[x]
         /\ trim.by \notin Caller => queue' = queue
         /\ trim.by \in Caller =>
              /\ caller[trim.by].domain \in Domain
              /\ \/ /\ caller[trim.by].at = "oom" /\ queue' = queue
                    /\ caller'[trim.by].at \in {"retry", "ready"}
                    /\ caller'[trim.by].domain = caller[trim.by].domain
                    /\ caller'[trim.by].capacity = caller[trim.by].capacity
                    /\ caller'[trim.by].at = "retry" => caller'[trim.by].want = caller[trim.by].want
                 \/ /\ caller[trim.by].at = "evicting" /\ ok /\ queue' = queue
                    /\ caller'[trim.by].at = "asleep"
                    /\ caller'[trim.by].domain = caller[trim.by].domain
                    /\ caller'[trim.by].capacity = caller[trim.by].capacity
                 \/ /\ caller[trim.by].at = "evicting"
                    /\ caller'[trim.by] = Outside
                    /\ \E i \in 1 .. Len(queue[caller[trim.by].domain]) :
                         /\ queue[caller[trim.by].domain][i] = trim.by
                         /\ queue' = [queue EXCEPT ![caller[trim.by].domain] = Without(@, i)]
<1> DEFINE c == trim.by
           d == caller[c].domain
<1>1. CASE c \notin Caller
  BY <1>1 DEF TrimReturns, Types
<1>2. CASE c \in Caller
  <2>1. caller[c] \in CallerStates /\ caller[c].at \in {"evicting", "oom"}
    BY <1>2 DEF Types, TrimIsHeld
  <2>2. d \in Domain /\ caller[c].capacity \in Sizes
    BY <2>1, CallerFields
  <2>3. CASE caller[c].at = "oom"
    <3> DEFINE r == [caller[c] EXCEPT !.at = "retry"]
    <3>1. /\ queue' = queue
          /\ caller' = [caller EXCEPT ![c] = IF ok THEN r ELSE Ready(c)]
      BY <1>2, <2>3 DEF TrimReturns
    <3>2. r \in CallerStates /\ r.at = "retry" /\ r.domain = d
            /\ r.capacity = caller[c].capacity /\ r.want = caller[c].want
      BY <2>1, <2>3, CallerAllocates
    <3>3. Ready(c) \in CallerStates /\ Ready(c).at = "ready" /\ Ready(c).domain = d
            /\ Ready(c).capacity = caller[c].capacity
      BY <2>2, OpenCaller DEF Ready
    <3> HIDE DEF r
    <3>4. CASE ok
      BY <1>2, <2>2, <2>3, <3>1, <3>2, <3>4, CallerTypes DEF Types, OthersStay
    <3>5. CASE ~ok
      BY <1>2, <2>2, <2>3, <3>1, <3>3, <3>5, CallerTypes DEF Types, OthersStay
    <3>6. QED
      BY <3>4, <3>5
  <2>4. CASE caller[c].at = "evicting" /\ ok
    <3> DEFINE r == [caller[c] EXCEPT !.at = "asleep"]
    <3>1. queue' = queue /\ caller' = [caller EXCEPT ![c] = r]
      BY <1>2, <2>4 DEF TrimReturns
    <3>2. r \in CallerStates /\ r.at = "asleep" /\ r.domain = d /\ r.capacity = caller[c].capacity
      BY <2>1, <2>4, CallerWakes
    <3> HIDE DEF r
    <3>3. QED
      BY <1>2, <2>2, <2>4, <3>1, <3>2, CallerTypes DEF Types, OthersStay
  <2>5. CASE caller[c].at = "evicting" /\ ~ok
    <3>1. /\ caller' = [caller EXCEPT ![c] = Outside]
          /\ \E i \in 1 .. Len(queue[d]) :
               queue[d][i] = c /\ queue' = [queue EXCEPT ![d] = Without(@, i)]
      BY <1>2, <2>5 DEF TrimReturns
    <3>2. PICK i \in 1 .. Len(queue[d]) :
               queue[d][i] = c /\ queue' = [queue EXCEPT ![d] = Without(@, i)]
      BY <3>1
    <3>3. Outside \in CallerStates
      BY DEF CallerStates
    <3>4. caller' \in [Caller -> CallerStates] /\ caller'[c] = Outside /\ OthersStay(c)
      BY <1>2, <3>1, <3>3, CallerTypes
    <3>5. queue[d] \in Seq(Caller)
      BY <2>2 DEF Types
    <3>6. Without(queue[d], i) \in Seq(Caller)
      BY <3>5, WithoutType
    <3>7. queue' \in [Domain -> Seq(Caller)]
      BY <2>2, <3>2, <3>6 DEF Types
    <3>8. QED
      BY <1>2, <2>2, <2>5, <3>2, <3>4, <3>7 DEF OthersStay
  <2>6. QED
    BY <2>1, <2>3, <2>4, <2>5
<1>3. QED
  BY <1>1, <1>2

(* A trim that succeeds leaves nothing of what it took. *)
LEMMA TrimCompletesMoves ==
  ASSUME Types, TrimIsHeld, TrimCompletes
  PROVE  /\ Types' /\ trim # NoTrim /\ trim' = NoTrim
         /\ cached_bytes' = cached_bytes - BytesOf(trim.released)
         /\ \A p \in Pointer : buffer'[p] = IF p \in trim.released THEN NoBuffer ELSE buffer[p]
         /\ \E ok \in BOOLEAN : (trim.error => ~ok) /\ TrimReturns(ok)
         /\ lost' = lost
<1>1. /\ trim # NoTrim /\ trim' = NoTrim /\ lost' = lost
      /\ cached_bytes' = cached_bytes - BytesOf(trim.released)
      /\ buffer' = [p \in Pointer |-> IF p \in trim.released THEN NoBuffer ELSE buffer[p]]
  BY DEF TrimCompletes
<1>2. PICK ok \in BOOLEAN : (trim.error => ~ok) /\ TrimReturns(ok)
  BY DEF TrimCompletes
<1>3. caller' \in [Caller -> CallerStates] /\ queue' \in [Domain -> Seq(Caller)]
  BY <1>1, <1>2, TrimReturnsMoves
<1>4. buffer' \in [Pointer -> BufferStates]
  BY <1>1 DEF Types, BufferStates
<1>5. Types'
  BY <1>1, <1>3, <1>4 DEF Types, Trims
<1>6. QED
  BY <1>1, <1>2, <1>5

(* A trim that fails keeps what it could not release. *)
LEMMA TrimFailsMoves ==
  ASSUME Types, TrimIsHeld, TrimFails
  PROVE  /\ Types' /\ trim # NoTrim /\ trim' = NoTrim
         /\ \A p \in Pointer :
              /\ p \notin trim.released => buffer'[p] = buffer[p]
              /\ p \in trim.released =>
                   /\ buffer'[p].at = buffer[p].at
                   /\ buffer'[p].bytes = buffer[p].bytes /\ buffer'[p].domain = buffer[p].domain
                   /\ buffer'[p].owner = buffer[p].owner /\ buffer'[p].lane = buffer[p].lane
                   /\ buffer'[p].outdated = buffer[p].outdated
                   /\ buffer'[p].trimmed = buffer[p].trimmed
                   /\ buffer'[p].busy = buffer[p].busy /\ ~buffer'[p].backed
         /\ TrimReturns(FALSE) /\ lost' /\ cached_bytes' = cached_bytes
<1> DEFINE gone(p) == [buffer[p] EXCEPT !.backed = FALSE]
<1>1. /\ trim # NoTrim /\ trim' = NoTrim /\ lost' = TRUE /\ TrimReturns(FALSE)
      /\ cached_bytes' = cached_bytes
      /\ buffer' = [p \in Pointer |-> IF p \in trim.released THEN gone(p) ELSE buffer[p]]
  BY DEF TrimFails
<1>2. caller' \in [Caller -> CallerStates] /\ queue' \in [Domain -> Seq(Caller)]
  <2>1. FALSE \in BOOLEAN
    OBVIOUS
  <2>2. QED
    BY <1>1, <2>1, TrimReturnsMoves
<1>3. ASSUME NEW p \in Pointer, p \in trim.released
      PROVE  /\ gone(p) \in BufferStates /\ gone(p).at = buffer[p].at
             /\ gone(p).bytes = buffer[p].bytes /\ gone(p).domain = buffer[p].domain
             /\ gone(p).owner = buffer[p].owner /\ gone(p).lane = buffer[p].lane
             /\ gone(p).outdated = buffer[p].outdated /\ gone(p).trimmed = buffer[p].trimmed
             /\ gone(p).busy = buffer[p].busy /\ ~gone(p).backed
  <2>1. buffer[p] \in BufferStates /\ buffer[p].at # "none"
    BY <1>1, <1>3 DEF Types, TrimIsHeld
  <2>2. QED
    BY <2>1, BackingGoes
<1> HIDE DEF gone
<1>4. buffer' \in [Pointer -> BufferStates]
  BY <1>1, <1>3 DEF Types
<1>5. Types'
  BY <1>1, <1>2, <1>4 DEF Types, Trims
<1>6. QED
  BY <1>1, <1>3, <1>5


(* An allocation, step by step. *)
LEMMA ReadGenerationMoves ==
  ASSUME Types, NEW c \in Caller, NEW n \in Sizes, ReadGeneration(c, n)
  PROVE  /\ Types' /\ OthersStay(c)
         /\ caller[c].at = "ready" /\ caller'[c].at = "lookup"
         /\ caller'[c].domain = caller[c].domain /\ caller'[c].capacity = caller[c].capacity
         /\ UNCHANGED <<queue, buffer, cached_bytes, trim, lost>>
<1> DEFINE r == [at |-> "lookup", domain |-> caller[c].domain, capacity |-> caller[c].capacity,
                 want |-> n, outdated |-> FALSE]
<1>1. /\ caller[c].at = "ready" /\ caller' = [caller EXCEPT ![c] = r]
      /\ UNCHANGED <<queue, buffer, cached_bytes, trim, lost>>
  BY DEF ReadGeneration
<1>2. caller[c].domain \in Domain /\ caller[c].capacity \in Sizes
  BY <1>1, CallerFields DEF Types
<1>3. r \in CallerStates /\ r.at = "lookup" /\ r.domain = caller[c].domain
        /\ r.capacity = caller[c].capacity
  BY <1>2 DEF CallerStates
<1> HIDE DEF r
<1>4. QED
  BY <1>1, <1>3, CallerTypes DEF Types

(* The caller that is ready again has the envelope it had. *)
LEMMA ReadyAgain ==
  ASSUME Types, NEW c \in Caller, caller[c].at # "outside", caller' = [caller EXCEPT ![c] = Ready(c)]
  PROVE  /\ caller' \in [Caller -> CallerStates] /\ OthersStay(c)
         /\ caller'[c].at = "ready"
         /\ caller'[c].domain = caller[c].domain /\ caller'[c].capacity = caller[c].capacity
<1>1. caller[c].domain \in Domain /\ caller[c].capacity \in Sizes
  BY CallerFields DEF Types
<1>2. Ready(c) \in CallerStates /\ Ready(c).at = "ready" /\ Ready(c).domain = caller[c].domain
        /\ Ready(c).capacity = caller[c].capacity
  BY <1>1, OpenCaller DEF Ready
<1>3. QED
  BY <1>2, CallerTypes

(* The caller goes on with its allocation. *)
LEMMA AllocatesOn ==
  ASSUME Types, NEW c \in Caller, Reads(c),
         NEW a \in {"lookup", "prepare", "malloc", "oom", "retry"},
         caller' = [caller EXCEPT ![c] = [caller[c] EXCEPT !.at = a]]
  PROVE  /\ caller' \in [Caller -> CallerStates] /\ OthersStay(c)
         /\ caller'[c].at = a
         /\ caller'[c].domain = caller[c].domain /\ caller'[c].capacity = caller[c].capacity
         /\ caller'[c].want = caller[c].want
<1> DEFINE r == [caller[c] EXCEPT !.at = a]
<1>1. caller[c] \in CallerStates
  BY DEF Types
<1>2. r \in CallerStates /\ r.at = a /\ r.domain = caller[c].domain
        /\ r.capacity = caller[c].capacity /\ r.want = caller[c].want
  BY <1>1, CallerAllocates DEF Reads
<1> HIDE DEF r
<1>3. caller' = [caller EXCEPT ![c] = r]
  BY DEF r
<1>4. QED
  BY <1>2, <1>3, CallerTypes

(* What a lookup in the cache takes and releases *)
Acquired(c, taken, dropped) ==
  /\ caller'[c].at = IF taken = {} THEN "prepare" ELSE "ready"
  /\ taken \cap dropped = {}
  /\ taken # {} => \E q \in Fitting(c) : taken = {q} /\ (HasRoom(c) \/ buffer[q].owner = c)
  /\ cached_bytes' = cached_bytes - BytesOf(taken \cup dropped)
  /\ \E unfreed \in SUBSET {p \in dropped : buffer[p].backed} :
       leaked' = leaked + BytesOf(unfreed)
  /\ \A p \in Pointer :
       /\ p \in taken =>
            /\ buffer'[p].at = "leased" /\ buffer'[p].owner = c /\ buffer'[p].lane = c
            /\ buffer'[p].bytes = buffer[p].bytes /\ buffer'[p].domain = buffer[p].domain
            /\ buffer'[p].busy = buffer[p].busy /\ buffer'[p].backed = buffer[p].backed
            /\ ~buffer'[p].trimmed
       /\ p \in dropped => buffer'[p] = NoBuffer
       /\ p \notin taken \cup dropped => buffer'[p] = buffer[p]

(* A cached buffer that fits is leased, or the caller goes on to allocate. *)
LEMMA AcquireMoves ==
  ASSUME Types, NEW c \in Caller, AcquireCachedBuffer(c)
  PROVE  /\ Types' /\ OthersStay(c)
         /\ trim = NoTrim
         /\ caller[c].at = "lookup" /\ caller[c].domain \in Domain /\ caller[c].want \in Sizes
         /\ caller'[c].domain = caller[c].domain /\ caller'[c].capacity = caller[c].capacity
         /\ \E taken \in SUBSET Fitting(c) : \E dropped \in SUBSET Fitting(c) :
              Acquired(c, taken, dropped)
         /\ (lost' = lost \/ lost') /\ UNCHANGED <<queue, trim>>
<1> DEFINE usable == {p \in Fitting(c) : HasRoom(c) \/ buffer[p].owner = c}
           others == Fitting(c) \ usable
           lent(p) == Lend(p, c, caller[c].outdated)
<1>1. caller[c].at = "lookup" /\ trim = NoTrim /\ UNCHANGED <<queue, trim>>
  BY DEF AcquireCachedBuffer, CacheUnlocked
<1>2. PICK taken \in IF usable = {} THEN {{}} ELSE {{p} : p \in usable},
           dropped \in IF usable = {} THEN {others} ELSE SUBSET others :
        /\ buffer' = [p \in Pointer |-> CASE p \in taken -> lent(p)
                                          [] p \in dropped -> NoBuffer
                                          [] OTHER -> buffer[p]]
        /\ cached_bytes' = cached_bytes - BytesOf(taken \cup dropped)
        /\ caller' = [caller EXCEPT ![c] =
                        IF taken = {} THEN [caller[c] EXCEPT !.at = "prepare"] ELSE Ready(c)]
        /\ \E unfreed \in SUBSET {p \in dropped : buffer[p].backed} :
             leaked' = leaked + BytesOf(unfreed)
        /\ lost' \in IF dropped = {} THEN {lost} ELSE {lost, TRUE}
  <2>1. \E taken \in IF usable = {} THEN {{}} ELSE {{p} : p \in usable} :
        \E dropped \in IF usable = {} THEN {others} ELSE SUBSET others :
          /\ buffer' = [p \in Pointer |-> CASE p \in taken -> lent(p)
                                            [] p \in dropped -> NoBuffer
                                            [] OTHER -> buffer[p]]
          /\ cached_bytes' = cached_bytes - BytesOf(taken \cup dropped)
          /\ caller' = [caller EXCEPT ![c] =
                          IF taken = {} THEN [@ EXCEPT !.at = "prepare"] ELSE Ready(c)]
          /\ \E unfreed \in SUBSET {p \in dropped : buffer[p].backed} :
               leaked' = leaked + BytesOf(unfreed)
          /\ lost' \in IF dropped = {} THEN {lost} ELSE {lost, TRUE}
    BY Zenon DEF AcquireCachedBuffer
  <2>2. QED
    BY <2>1
<1>3. /\ taken \in SUBSET usable /\ dropped \in SUBSET others
      /\ taken # {} => \E q \in usable : taken = {q}
      /\ lost' = lost \/ lost' = TRUE
  BY <1>2
<1>4. /\ caller[c] \in CallerStates /\ caller[c].domain \in Domain /\ caller[c].want \in Sizes
      /\ caller[c].outdated \in BOOLEAN /\ Reads(c)
  BY <1>1, CallerFields DEF Types, Reads
<1>5. \A p \in Fitting(c) : p \in Pointer /\ buffer[p] \in BufferStates /\ buffer[p].at = "cached"
  BY DEF Types, Fitting, Cached, Existing
<1>6. ASSUME NEW p \in taken
      PROVE  /\ lent(p) \in BufferStates /\ lent(p).at = "leased" /\ lent(p).owner = c
             /\ lent(p).lane = c /\ lent(p).bytes = buffer[p].bytes
             /\ lent(p).domain = buffer[p].domain /\ lent(p).busy = buffer[p].busy
             /\ lent(p).backed = buffer[p].backed /\ ~lent(p).trimmed
  <2>1. buffer[p] \in BufferStates /\ buffer[p].at # "none"
    BY <1>3, <1>5
  <2>2. QED
    BY <1>4, <2>1, IsLive DEF Lend, BufferStates, LiveBuffers
<1> HIDE DEF lent
<1>7. \A p \in Pointer : /\ p \in taken => buffer'[p] = lent(p)
                         /\ p \in dropped => buffer'[p] = NoBuffer
                         /\ p \notin taken \cup dropped => buffer'[p] = buffer[p]
  BY <1>2, <1>3
<1>8. buffer' \in [Pointer -> BufferStates]
  <2>1. \A p \in Pointer : buffer'[p] \in BufferStates
    BY <1>6, <1>7 DEF Types, BufferStates
  <2>2. QED
    BY <1>2, <2>1
<1>9. /\ caller' \in [Caller -> CallerStates] /\ OthersStay(c)
      /\ caller'[c].domain = caller[c].domain /\ caller'[c].capacity = caller[c].capacity
      /\ caller'[c].at = IF taken = {} THEN "prepare" ELSE "ready"
  <2>1. CASE taken = {}
    <3>1. caller' = [caller EXCEPT ![c] = [caller[c] EXCEPT !.at = "prepare"]]
      BY <1>2, <2>1
    <3>2. QED
      BY <1>4, <2>1, <3>1, AllocatesOn
  <2>2. CASE taken # {}
    <3>1. caller' = [caller EXCEPT ![c] = Ready(c)]
      BY <1>2, <2>2
    <3>2. QED
      BY <1>1, <2>2, <3>1, ReadyAgain
  <2>3. QED
    BY <2>1, <2>2
<1>10. Types'
  BY <1>1, <1>3, <1>8, <1>9 DEF Types
<1>11. taken \in SUBSET Fitting(c) /\ dropped \in SUBSET Fitting(c) /\ taken \cap dropped = {}
  BY <1>3
<1>12. taken # {} => \E q \in Fitting(c) : taken = {q} /\ (HasRoom(c) \/ buffer[q].owner = c)
  BY <1>3
<1> HIDE DEF usable, others
<1>13. Acquired(c, taken, dropped)
  BY <1>2, <1>6, <1>7, <1>9, <1>11, <1>12 DEF Acquired
<1>14. QED
  BY <1>1, <1>3, <1>4, <1>9, <1>10, <1>11, <1>13


(* The charge of an allocation is made within the envelope. *)
LEMMA PrepareAllocationMoves ==
  ASSUME Types, NEW c \in Caller, PrepareAllocation(c)
  PROVE  /\ Types' /\ OthersStay(c)
         /\ caller[c].at = "prepare" /\ caller[c].want \in Sizes
         /\ caller'[c].domain = caller[c].domain /\ caller'[c].capacity = caller[c].capacity
         /\ \/ HasRoom(c) /\ caller'[c].at = "malloc" /\ caller'[c].want = caller[c].want
            \/ caller'[c].at = "ready"
         /\ UNCHANGED <<queue, buffer, cached_bytes, trim, lost>>
<1>1. /\ caller[c].at = "prepare" /\ UNCHANGED <<queue, buffer, cached_bytes, trim, lost>>
      /\ caller' = [caller EXCEPT ![c] = IF HasRoom(c) THEN [caller[c] EXCEPT !.at = "malloc"]
                                         ELSE Ready(c)]
  BY DEF PrepareAllocation
<1>2. Reads(c) /\ caller[c].want \in Sizes
  BY <1>1, CallerFields DEF Types, Reads
<1>3. CASE HasRoom(c)
  <2>1. caller' = [caller EXCEPT ![c] = [caller[c] EXCEPT !.at = "malloc"]]
    BY <1>1, <1>3
  <2>2. QED
    BY <1>1, <1>2, <1>3, <2>1, AllocatesOn DEF Types
<1>4. CASE ~HasRoom(c)
  <2>1. caller' = [caller EXCEPT ![c] = Ready(c)]
    BY <1>1, <1>4
  <2>2. QED
    BY <1>1, <1>2, <2>1, ReadyAgain DEF Types
<1>5. QED
  BY <1>3, <1>4

(* A new buffer of the caller *)
NewBuffer(c, p) ==
  /\ buffer'[p].at = "leased" /\ buffer'[p].owner = c /\ buffer'[p].lane = c
  /\ buffer'[p].bytes = caller[c].want /\ buffer'[p].domain = caller[c].domain
  /\ buffer'[p].backed /\ ~buffer'[p].trimmed /\ ~buffer'[p].busy

(* Device memory that fits becomes a lease, or the caller meets the shortage. *)
LEMMA AllocateMoves ==
  ASSUME Types, NEW c \in Caller, AllocateDeviceMemory(c)
  PROVE  /\ Types' /\ OthersStay(c)
         /\ caller[c].at \in {"malloc", "retry"} /\ caller[c].want \in Sizes
         /\ caller[c].domain \in Domain
         /\ caller'[c].domain = caller[c].domain /\ caller'[c].capacity = caller[c].capacity
         /\ \/ /\ caller[c].want <= FreeBytes /\ caller'[c].at = "ready"
               /\ \E p \in Pointer \ Existing :
                    /\ NewBuffer(c, p)
                    /\ \A x \in Pointer \ {p} : buffer'[x] = buffer[x]
            \/ /\ caller'[c].at = "oom" /\ caller'[c].want = caller[c].want
               /\ buffer' = buffer
            \/ caller'[c].at = "ready" /\ buffer' = buffer
         /\ UNCHANGED <<queue, cached_bytes, trim, lost>>
<1> DEFINE new == [at |-> "leased", bytes |-> caller[c].want, domain |-> caller[c].domain,
                   owner |-> c, lane |-> c, outdated |-> caller[c].outdated,
                   trimmed |-> FALSE, busy |-> FALSE, backed |-> TRUE]
<1>1. /\ caller[c].at \in {"malloc", "retry"} /\ UNCHANGED <<queue, cached_bytes, trim, lost>>
      /\ \/ /\ caller[c].want <= FreeBytes
            /\ \E p \in Pointer \ Existing : buffer' = [buffer EXCEPT ![p] = new]
            /\ caller' = [caller EXCEPT ![c] = Ready(c)]
         \/ /\ caller' = [caller EXCEPT ![c] = [caller[c] EXCEPT !.at = "oom"]]
            /\ UNCHANGED buffer
         \/ caller' = [caller EXCEPT ![c] = Ready(c)] /\ UNCHANGED buffer
  BY DEF AllocateDeviceMemory
<1>2. /\ caller[c].want \in Sizes /\ caller[c].domain \in Domain /\ Reads(c)
      /\ caller[c].outdated \in BOOLEAN
  BY <1>1, CallerFields DEF Types, Reads
<1>3. /\ new \in BufferStates /\ new.at = "leased" /\ new.owner = c /\ new.lane = c
      /\ new.bytes = caller[c].want /\ new.domain = caller[c].domain
      /\ new.backed /\ ~new.trimmed /\ ~new.busy
  BY <1>2, BufferNew
<1> HIDE DEF new
<1>4. CASE /\ caller[c].want <= FreeBytes
           /\ \E p \in Pointer \ Existing : buffer' = [buffer EXCEPT ![p] = new]
           /\ caller' = [caller EXCEPT ![c] = Ready(c)]
  <2>1. PICK p \in Pointer \ Existing : buffer' = [buffer EXCEPT ![p] = new]
    BY <1>4
  <2>2. /\ buffer' \in [Pointer -> BufferStates]
        /\ buffer'[p] = new
        /\ \A x \in Pointer \ {p} : buffer'[x] = buffer[x]
    BY <1>3, <2>1 DEF Types
  <2>3. NewBuffer(c, p)
    BY <1>3, <2>2 DEF NewBuffer
  <2>4. QED
    BY <1>1, <1>2, <1>4, <2>2, <2>3, ReadyAgain DEF Types
<1>5. CASE /\ caller' = [caller EXCEPT ![c] = [caller[c] EXCEPT !.at = "oom"]]
           /\ UNCHANGED buffer
  BY <1>1, <1>2, <1>5, AllocatesOn DEF Types
<1>6. CASE caller' = [caller EXCEPT ![c] = Ready(c)] /\ UNCHANGED buffer
  BY <1>1, <1>2, <1>6, ReadyAgain DEF Types
<1>7. QED
  BY <1>1, <1>4, <1>5, <1>6

(* Busy or not, all else of a buffer stays *)
BufferStays(p) ==
  /\ buffer'[p].at = buffer[p].at
  /\ p \in Existing =>
       /\ buffer'[p].bytes = buffer[p].bytes /\ buffer'[p].domain = buffer[p].domain
       /\ buffer'[p].owner = buffer[p].owner /\ buffer'[p].lane = buffer[p].lane
       /\ buffer'[p].outdated = buffer[p].outdated /\ buffer'[p].trimmed = buffer[p].trimmed
       /\ buffer'[p].backed = buffer[p].backed

(* A submission makes one lease busy. *)
LEMMA SubmitMoves ==
  ASSUME Types, NEW c \in Caller, NEW p \in Pointer, Submit(c, p)
  PROVE  /\ Types' /\ p \in Leased(c) /\ caller[c].at = "ready"
         /\ \A x \in Pointer : BufferStays(x) /\ (x # p => buffer'[x] = buffer[x])
         /\ UNCHANGED <<queue, caller, cached_bytes, trim, lost>>
<1> DEFINE t == [buffer[p] EXCEPT !.busy = TRUE]
<1>1. /\ p \in Leased(c) /\ caller[c].at = "ready" /\ buffer' = [buffer EXCEPT ![p] = t]
      /\ UNCHANGED <<queue, caller, cached_bytes, trim, lost>>
  BY DEF Submit
<1>2. buffer[p] \in BufferStates /\ buffer[p].at # "none" /\ p \in Existing
  BY <1>1 DEF Types, Leased, Existing
<1>3. /\ t \in BufferStates /\ t.at = buffer[p].at /\ t.bytes = buffer[p].bytes
      /\ t.domain = buffer[p].domain /\ t.owner = buffer[p].owner /\ t.lane = buffer[p].lane
      /\ t.outdated = buffer[p].outdated /\ t.trimmed = buffer[p].trimmed
      /\ t.backed = buffer[p].backed
  BY <1>2, IsLive DEF BufferStates, LiveBuffers
<1> HIDE DEF t
<1>4. /\ buffer' \in [Pointer -> BufferStates] /\ buffer'[p] = t
      /\ \A x \in Pointer \ {p} : buffer'[x] = buffer[x]
  BY <1>1, <1>3 DEF Types
<1>5. \A x \in Pointer : BufferStays(x)
  BY <1>2, <1>3, <1>4 DEF BufferStays
<1>6. QED
  BY <1>1, <1>4, <1>5 DEF Types

(* The lane is drained: nothing of it is busy. *)
LEMMA DrainedBuffers ==
  ASSUME Types, NEW c \in Caller, NEW p \in Pointer
  PROVE  /\ Drained(c)[p] \in BufferStates
         /\ Drained(c)[p].at = buffer[p].at
         /\ p \in Leased(c) => ~Drained(c)[p].busy
         /\ p \notin Leased(c) => Drained(c)[p] = buffer[p]
         /\ p \in Existing =>
              /\ Drained(c)[p].bytes = buffer[p].bytes /\ Drained(c)[p].domain = buffer[p].domain
              /\ Drained(c)[p].owner = buffer[p].owner /\ Drained(c)[p].lane = buffer[p].lane
              /\ Drained(c)[p].outdated = buffer[p].outdated
              /\ Drained(c)[p].trimmed = buffer[p].trimmed
              /\ Drained(c)[p].backed = buffer[p].backed
<1> DEFINE t == [buffer[p] EXCEPT !.busy = FALSE]
<1>1. Drained(c)[p] = IF p \in Leased(c) THEN t ELSE buffer[p]
  BY DEF Drained
<1>2. buffer[p] \in BufferStates
  BY DEF Types
<1>3. CASE p \in Leased(c)
  <2>1. buffer[p].at # "none"
    BY <1>3 DEF Leased, Existing
  <2>2. /\ t \in BufferStates /\ t.at = buffer[p].at /\ t.bytes = buffer[p].bytes
        /\ t.domain = buffer[p].domain /\ t.owner = buffer[p].owner /\ t.lane = buffer[p].lane
        /\ t.outdated = buffer[p].outdated /\ t.trimmed = buffer[p].trimmed
        /\ t.backed = buffer[p].backed /\ ~t.busy
    BY <1>2, <2>1, IsLive DEF BufferStates, LiveBuffers
  <2>3. Drained(c)[p] = t
    BY <1>1, <1>3
  <2> HIDE DEF t
  <2>4. QED
    BY <1>3, <2>2, <2>3
<1>4. CASE p \notin Leased(c)
  BY <1>1, <1>2, <1>4
<1>5. QED
  BY <1>3, <1>4


(* A stream that completes frees its leases of work. *)
LEMMA StreamCompletesMoves ==
  ASSUME Types, NEW c \in Caller, StreamCompletes(c)
  PROVE  /\ Types'
         /\ \A x \in Pointer :
              /\ BufferStays(x)
              /\ x \in Leased(c) => ~buffer'[x].busy
              /\ x \notin Leased(c) => buffer'[x] = buffer[x]
         /\ UNCHANGED <<queue, caller, cached_bytes, trim, lost>>
<1>1. buffer' = Drained(c) /\ UNCHANGED <<queue, caller, cached_bytes, trim, lost>>
  BY DEF StreamCompletes
<1>2. buffer' \in [Pointer -> BufferStates]
  <2>1. Drained(c) = [x \in Pointer |-> Drained(c)[x]]
    BY DEF Drained
  <2>2. QED
    BY <1>1, <2>1, DrainedBuffers
<1>3. \A x \in Pointer :
        /\ BufferStays(x)
        /\ x \in Leased(c) => ~buffer'[x].busy
        /\ x \notin Leased(c) => buffer'[x] = buffer[x]
  BY <1>1, DrainedBuffers DEF BufferStays
<1>4. QED
  BY <1>1, <1>2, <1>3 DEF Types

(* A lease is given up only after its work. *)
LEMMA SynchronizeMoves ==
  ASSUME Types, NEW c \in Caller, NEW p \in Pointer, Synchronize(c, p)
  PROVE  /\ Types' /\ OthersStay(c)
         /\ p \in Leased(c) /\ caller[c].at = "ready"
         /\ caller'[c].pointer = p
         /\ caller'[c].domain = caller[c].domain /\ caller'[c].capacity = caller[c].capacity
         /\ \/ caller'[c].at = "freeing" /\ buffer' = buffer /\ (lost' = lost \/ lost')
            \/ /\ caller'[c].at = "caching" /\ lost' = lost
               /\ \A x \in Pointer :
                    /\ BufferStays(x)
                    /\ x \in Leased(c) => ~buffer'[x].busy
                    /\ x \notin Leased(c) => buffer'[x] = buffer[x]
         /\ UNCHANGED <<queue, cached_bytes, trim>>
<1> DEFINE r(next) == [at |-> next, domain |-> caller[c].domain,
                       capacity |-> caller[c].capacity, pointer |-> p]
<1>1. /\ p \in Leased(c) /\ caller[c].at = "ready" /\ UNCHANGED <<queue, cached_bytes, trim>>
      /\ \/ /\ caller' = [caller EXCEPT ![c] = r("freeing")]
            /\ buffer' = buffer /\ lost' \in {lost, TRUE}
         \/ /\ caller' = [caller EXCEPT ![c] = r("caching")]
            /\ buffer' = Drained(c) /\ lost' = lost
  BY DEF Synchronize
<1>2. caller[c].domain \in Domain /\ caller[c].capacity \in Sizes
  BY <1>1, CallerFields DEF Types
<1>3. \A a \in {"caching", "freeing"} :
        /\ r(a) \in CallerStates /\ r(a).at = a /\ r(a).pointer = p
        /\ r(a).domain = caller[c].domain /\ r(a).capacity = caller[c].capacity
  BY <1>2 DEF CallerStates
<1> HIDE DEF r
<1>4. CASE /\ caller' = [caller EXCEPT ![c] = r("freeing")]
           /\ buffer' = buffer /\ lost' \in {lost, TRUE}
  BY <1>1, <1>3, <1>4, CallerTypes DEF Types
<1>5. CASE /\ caller' = [caller EXCEPT ![c] = r("caching")]
           /\ buffer' = Drained(c) /\ lost' = lost
  <2>1. buffer' \in [Pointer -> BufferStates]
    <3>1. Drained(c) = [x \in Pointer |-> Drained(c)[x]]
      BY DEF Drained
    <3>2. QED
      BY <1>5, <3>1, DrainedBuffers
  <2>2. \A x \in Pointer :
          /\ BufferStays(x)
          /\ x \in Leased(c) => ~buffer'[x].busy
          /\ x \notin Leased(c) => buffer'[x] = buffer[x]
    BY <1>5, DrainedBuffers DEF BufferStays
  <2>3. QED
    BY <1>1, <1>3, <1>5, <2>1, <2>2, CallerTypes DEF Types
<1>6. QED
  BY <1>1, <1>4, <1>5

(* The buffer of a caller that drops it is its own. *)
LEMMA CacheMoves ==
  ASSUME Types, DropsLeased, NEW c \in Caller, CacheCompletedBuffer(c)
  PROVE  /\ Types' /\ OthersStay(c)
         /\ caller[c].at = "caching" /\ trim = NoTrim
         /\ caller[c].pointer \in Existing
         /\ caller'[c].domain = caller[c].domain /\ caller'[c].capacity = caller[c].capacity
         /\ \/ /\ MayCache(caller[c].pointer)
               /\ caller'[c].at = "ready"
               /\ buffer'[caller[c].pointer].at = "cached"
               /\ buffer'[caller[c].pointer].bytes = buffer[caller[c].pointer].bytes
               /\ buffer'[caller[c].pointer].domain = buffer[caller[c].pointer].domain
               /\ buffer'[caller[c].pointer].owner = buffer[caller[c].pointer].owner
               /\ buffer'[caller[c].pointer].outdated = buffer[caller[c].pointer].outdated
               /\ buffer'[caller[c].pointer].trimmed = buffer[caller[c].pointer].trimmed
               /\ buffer'[caller[c].pointer].busy = buffer[caller[c].pointer].busy
               /\ buffer'[caller[c].pointer].backed = buffer[caller[c].pointer].backed
               /\ \A x \in Pointer \ {caller[c].pointer} : buffer'[x] = buffer[x]
               /\ cached_bytes' = cached_bytes + buffer[caller[c].pointer].bytes
            \/ /\ caller'[c].at = "freeing" /\ caller'[c].pointer = caller[c].pointer
               /\ UNCHANGED <<buffer, cached_bytes>>
         /\ UNCHANGED <<queue, trim, lost>>
<1> DEFINE p == caller[c].pointer
           t == [buffer[p] EXCEPT !.at = "cached", !.lane = "none"]
           r == [caller[c] EXCEPT !.at = "freeing"]
<1>1. /\ caller[c].at = "caching" /\ trim = NoTrim /\ UNCHANGED <<queue, trim, lost>>
      /\ \/ /\ MayCache(p) /\ caller' = [caller EXCEPT ![c] = Ready(c)]
            /\ buffer' = [buffer EXCEPT ![p].at = "cached", ![p].lane = "none"]
            /\ cached_bytes' = cached_bytes + buffer[p].bytes
         \/ caller' = [caller EXCEPT ![c] = r] /\ UNCHANGED <<buffer, cached_bytes>>
  BY DEF CacheCompletedBuffer, CacheUnlocked
<1>2. /\ caller[c] \in CallerStates /\ p \in Pointer /\ buffer[p].at = "leased"
      /\ buffer[p] \in BufferStates /\ p \in Existing
  BY <1>1, CallerFields DEF Types, DropsLeased, Drops, Existing
<1>3. CASE /\ MayCache(p) /\ caller' = [caller EXCEPT ![c] = Ready(c)]
           /\ buffer' = [buffer EXCEPT ![p].at = "cached", ![p].lane = "none"]
           /\ cached_bytes' = cached_bytes + buffer[p].bytes
  <2>1. /\ t \in BufferStates /\ t.at = "cached" /\ t.bytes = buffer[p].bytes
        /\ t.domain = buffer[p].domain /\ t.owner = buffer[p].owner
        /\ t.outdated = buffer[p].outdated /\ t.trimmed = buffer[p].trimmed
        /\ t.busy = buffer[p].busy /\ t.backed = buffer[p].backed
    BY <1>2, IsLive DEF BufferStates, LiveBuffers
  <2>2. buffer' = [buffer EXCEPT ![p] = t]
    BY <1>2, <1>3 DEF Types
  <2> HIDE DEF t
  <2>3. /\ buffer' \in [Pointer -> BufferStates] /\ buffer'[p] = t
        /\ \A x \in Pointer \ {p} : buffer'[x] = buffer[x]
    BY <1>2, <2>1, <2>2 DEF Types
  <2>4. QED
    BY <1>1, <1>2, <1>3, <2>1, <2>3, ReadyAgain DEF Types
<1>4. CASE caller' = [caller EXCEPT ![c] = r] /\ UNCHANGED <<buffer, cached_bytes>>
  <2>1. /\ r \in CallerStates /\ r.at = "freeing" /\ r.domain = caller[c].domain
        /\ r.capacity = caller[c].capacity /\ r.pointer = caller[c].pointer
    BY <1>1, <1>2, CallerDrops
  <2> HIDE DEF r
  <2>2. QED
    BY <1>1, <1>2, <1>4, <2>1, CallerTypes DEF Types
<1>5. QED
  BY <1>1, <1>3, <1>4

(* The device memory of a lease goes before its ticket. *)
LEMMA FreeMoves ==
  ASSUME Types, DropsLeased, NEW c \in Caller, FreeDeviceMemory(c)
  PROVE  /\ Types' /\ OthersStay(c)
         /\ caller[c].at = "freeing" /\ caller'[c].at = "freed"
         /\ caller[c].pointer \in Existing
         /\ caller'[c].pointer = caller[c].pointer
         /\ caller'[c].domain = caller[c].domain /\ caller'[c].capacity = caller[c].capacity
         /\ \A x \in Pointer :
              /\ buffer'[x].at = buffer[x].at
              /\ x \in Existing =>
                   /\ buffer'[x].bytes = buffer[x].bytes /\ buffer'[x].domain = buffer[x].domain
                   /\ buffer'[x].owner = buffer[x].owner /\ buffer'[x].lane = buffer[x].lane
                   /\ buffer'[x].outdated = buffer[x].outdated
                   /\ buffer'[x].trimmed = buffer[x].trimmed
                   /\ buffer'[x].backed => buffer[x].backed
                   /\ x # caller[c].pointer => buffer'[x].backed = buffer[x].backed
              /\ x \in Leased(c) => ~buffer'[x].busy
              /\ x \notin Leased(c) => buffer'[x] = buffer[x]
         /\ (lost' = lost \/ lost')
         /\ UNCHANGED <<queue, cached_bytes, trim>>
<1> DEFINE p == caller[c].pointer
           r == [caller[c] EXCEPT !.at = "freed"]
<1>a. PICK freed \in BOOLEAN : buffer' = [Drained(c) EXCEPT ![p].backed = @ /\ ~freed]
  BY DEF FreeDeviceMemory
<1> DEFINE t == [Drained(c)[p] EXCEPT !.backed = @ /\ ~freed]
<1>1. /\ caller[c].at = "freeing" /\ UNCHANGED <<queue, cached_bytes, trim>>
      /\ caller' = [caller EXCEPT ![c] = r] /\ lost' \in {lost, TRUE}
  BY DEF FreeDeviceMemory
<1>2. /\ caller[c] \in CallerStates /\ p \in Pointer /\ buffer[p].at = "leased"
      /\ buffer[p] \in BufferStates /\ p \in Existing /\ p \in Leased(c)
  BY <1>1, CallerFields DEF Types, DropsLeased, Drops, Existing, Leased
<1>3. /\ r \in CallerStates /\ r.at = "freed" /\ r.domain = caller[c].domain
      /\ r.capacity = caller[c].capacity /\ r.pointer = caller[c].pointer
  BY <1>1, <1>2, CallerDrops
<1>4. Drained(c) \in [Pointer -> BufferStates]
  <2>1. Drained(c) = [x \in Pointer |-> Drained(c)[x]]
    BY DEF Drained
  <2>2. QED
    BY <2>1, DrainedBuffers
<1>5. Drained(c)[p] \in BufferStates /\ Drained(c)[p].at # "none"
  BY <1>2, <1>4, DrainedBuffers
<1>6. /\ t \in BufferStates /\ t.at = Drained(c)[p].at /\ t.bytes = Drained(c)[p].bytes
      /\ t.domain = Drained(c)[p].domain /\ t.owner = Drained(c)[p].owner
      /\ t.lane = Drained(c)[p].lane /\ t.outdated = Drained(c)[p].outdated
      /\ t.trimmed = Drained(c)[p].trimmed /\ t.busy = Drained(c)[p].busy
      /\ t.backed => Drained(c)[p].backed
  <2>1. freed \in BOOLEAN /\ Drained(c)[p] \in BufferStates /\ Drained(c)[p].at # "none"
    BY <1>a, <1>5
  <2>2. t = [Drained(c)[p] EXCEPT !.backed = @ /\ ~freed]
    OBVIOUS
  <2> HIDE DEF t
  <2>3. \A b \in BufferStates : b.at # "none" /\ t = [b EXCEPT !.backed = @ /\ ~freed] =>
          /\ t \in BufferStates /\ t.at = b.at /\ t.bytes = b.bytes /\ t.domain = b.domain
          /\ t.owner = b.owner /\ t.lane = b.lane /\ t.outdated = b.outdated
          /\ t.trimmed = b.trimmed /\ t.busy = b.busy /\ (t.backed => b.backed)
    BY <2>1, BackingTried
  <2>4. QED
    BY <2>1, <2>2, <2>3
<1>7. buffer' = [Drained(c) EXCEPT ![p] = t]
  BY <1>a, <1>2, <1>4
<1> HIDE DEF t, r
<1>8. /\ buffer' \in [Pointer -> BufferStates] /\ buffer'[p] = t
      /\ \A x \in Pointer \ {p} : buffer'[x] = Drained(c)[x]
  BY <1>2, <1>4, <1>6, <1>7
<1>9. ASSUME NEW x \in Pointer
      PROVE   /\ buffer'[x].at = buffer[x].at
              /\ x \in Existing =>
                   /\ buffer'[x].bytes = buffer[x].bytes /\ buffer'[x].domain = buffer[x].domain
                   /\ buffer'[x].owner = buffer[x].owner /\ buffer'[x].lane = buffer[x].lane
                   /\ buffer'[x].outdated = buffer[x].outdated
                   /\ buffer'[x].trimmed = buffer[x].trimmed
                   /\ buffer'[x].backed => buffer[x].backed
                   /\ x # caller[c].pointer => buffer'[x].backed = buffer[x].backed
              /\ x \in Leased(c) => ~buffer'[x].busy
              /\ x \notin Leased(c) => buffer'[x] = buffer[x]
  <2>1. CASE x = p
    BY <1>2, <1>6, <1>8, <2>1, DrainedBuffers
  <2>2. CASE x # p
    BY <1>8, <2>2, DrainedBuffers
  <2>3. QED
    BY <2>1, <2>2
<1>10. Types'
  BY <1>1, <1>2, <1>3, <1>8, CallerTypes DEF Types
<1>11. QED
  BY <1>1, <1>2, <1>3, <1>9, <1>10, CallerTypes

(* The ticket of a lease goes last. *)
LEMMA ResetMoves ==
  ASSUME Types, DropsLeased, NEW c \in Caller, ResetTicket(c)
  PROVE  /\ Types' /\ OthersStay(c)
         /\ caller[c].at = "freed" /\ caller'[c].at = "ready"
         /\ caller[c].pointer \in Existing
         /\ caller'[c].domain = caller[c].domain /\ caller'[c].capacity = caller[c].capacity
         /\ \A x \in Pointer :
              buffer'[x] = IF x = caller[c].pointer THEN NoBuffer ELSE buffer[x]
         /\ UNCHANGED <<queue, cached_bytes, trim, lost>>
<1>1. /\ caller[c].at = "freed" /\ UNCHANGED <<queue, cached_bytes, trim, lost>>
      /\ buffer' = [buffer EXCEPT ![caller[c].pointer] = NoBuffer]
      /\ caller' = [caller EXCEPT ![c] = Ready(c)]
  BY DEF ResetTicket
<1>2. caller[c].pointer \in Pointer /\ buffer[caller[c].pointer].at = "leased"
        /\ caller[c].pointer \in Existing
  BY <1>1, CallerFields DEF Types, DropsLeased, Drops, Existing
<1>3. NoBuffer \in BufferStates
  BY DEF BufferStates
<1>4. /\ buffer' \in [Pointer -> BufferStates]
      /\ \A x \in Pointer :
           buffer'[x] = IF x = caller[c].pointer THEN NoBuffer ELSE buffer[x]
  BY <1>1, <1>2, <1>3 DEF Types
<1>5. QED
  BY <1>1, <1>2, <1>4, ReadyAgain DEF Types

(* The steps of Next, grouped by what they can disturb *)
OwnStep(c) ==
  \/ Close(c)
  \/ \E n \in Sizes : ReadGeneration(c, n)
  \/ AcquireCachedBuffer(c) \/ PrepareAllocation(c) \/ AllocateDeviceMemory(c)
  \/ \E p \in Pointer : Submit(c, p) \/ Synchronize(c, p)
  \/ StreamCompletes(c)
  \/ CacheCompletedBuffer(c) \/ FreeDeviceMemory(c) \/ ResetTicket(c)

TrimStarts == (\E c \in Caller : Evict(c) \/ TrimForRetry(c)) \/ TrimPreparationCache

(* A step is a reservation, an admission, a step of one caller or one of the trim. *)
LEMMA NextCases ==
  ASSUME Next
  PROVE  \/ \E c \in Caller, d \in Domain, n \in Sizes : Reserve(c, d, n)
         \/ \E c \in Caller : Admit(c)
         \/ \E c \in Caller : OwnStep(c)
         \/ TrimStarts \/ TrimCompletes \/ TrimFails
<1>1. \/ \E c \in Caller : Admission(c) \/ Allocation(c) \/ Use(c)
      \/ TrimPreparationCache \/ TrimCompletes \/ TrimFails
  BY DEF Next
<1>2. ASSUME NEW c \in Caller, Admission(c)
      PROVE  \/ \E d \in Domain, n \in Sizes : Reserve(c, d, n)
             \/ Admit(c) \/ OwnStep(c) \/ TrimStarts
  BY <1>2, Zenon DEF Admission, OwnStep, TrimStarts
<1>3. ASSUME NEW c \in Caller, Allocation(c) PROVE OwnStep(c) \/ TrimStarts
  BY <1>3, Zenon DEF Allocation, OwnStep, TrimStarts
<1>4. ASSUME NEW c \in Caller, Use(c) PROVE OwnStep(c)
  BY <1>4, Zenon DEF Use, OwnStep
<1>5. QED
  BY <1>1, <1>2, <1>3, <1>4, Zenon DEF TrimStarts

(* No step of a caller on its own waits, queues or trims. *)
LEMMA OwnMoves ==
  ASSUME Types, DropsLeased, NEW c \in Caller, OwnStep(c)
  PROVE  /\ Types' /\ OthersStay(c)
         /\ queue' = queue /\ trim' = trim /\ (lost => lost')
         /\ \/ caller' = caller
            \/ /\ caller[c].at \notin {"outside", "evicting", "asleep", "oom"}
               /\ caller'[c].at \notin {"evicting", "asleep"}
               /\ caller'[c].at # "outside" =>
                    /\ caller'[c].domain = caller[c].domain
                    /\ caller'[c].capacity = caller[c].capacity
<1>1. CASE Close(c)
  BY <1>1, CloseMoves DEF Outside
<1>2. CASE \E n \in Sizes : ReadGeneration(c, n)
  BY <1>2, ReadGenerationMoves
<1>3. CASE AcquireCachedBuffer(c)
  BY <1>3, AcquireMoves DEF Acquired
<1>4. CASE PrepareAllocation(c)
  BY <1>4, PrepareAllocationMoves
<1>5. CASE AllocateDeviceMemory(c)
  BY <1>5, AllocateMoves
<1>6. CASE \E p \in Pointer : Submit(c, p)
  BY <1>6, SubmitMoves DEF OthersStay
<1>7. CASE \E p \in Pointer : Synchronize(c, p)
  BY <1>7, SynchronizeMoves
<1>8. CASE StreamCompletes(c)
  BY <1>8, StreamCompletesMoves DEF OthersStay
<1>9. CASE CacheCompletedBuffer(c)
  BY <1>9, CacheMoves
<1>10. CASE FreeDeviceMemory(c)
  BY <1>10, FreeMoves
<1>11. CASE ResetTicket(c)
  BY <1>11, ResetMoves
<1>12. QED
  BY <1>1, <1>2, <1>3, <1>4, <1>5, <1>6, <1>7, <1>8, <1>9, <1>10, <1>11, Zenon DEF OwnStep

(* A trim that starts queues frees of idle buffers, and changes no caller's place. *)
LEMMA TrimStartsMoves ==
  ASSUME Types, TrimStarts
  PROVE  /\ Types' /\ trim = NoTrim /\ trim' # NoTrim
         /\ trim'.released \subseteq Cached
         /\ trim'.by \in Caller =>
              /\ caller[trim'.by].at \in {"evicting", "oom"}
              /\ caller[trim'.by].at = "evicting" /\ ~trim'.error =>
                   trim'.released = InScope(caller[trim'.by].domain)
         /\ \A x \in Caller : CallerKept(x)
         /\ \A p \in Pointer :
              /\ buffer'[p].at = buffer[p].at
              /\ buffer[p].at # "leased" => buffer'[p] = buffer[p]
              /\ buffer[p].at = "leased" =>
                   /\ buffer'[p].bytes = buffer[p].bytes /\ buffer'[p].domain = buffer[p].domain
                   /\ buffer'[p].owner = buffer[p].owner /\ buffer'[p].lane = buffer[p].lane
                   /\ buffer'[p].busy = buffer[p].busy /\ buffer'[p].backed = buffer[p].backed
                   /\ buffer'[p].outdated \/ buffer'[p] = buffer[p]
         /\ UNCHANGED <<queue, cached_bytes, lost>>
<1>0. \A d : InScope(d) \subseteq Cached
  BY DEF InScope
<1>1. CASE \E c \in Caller : Evict(c)
  <2>1. PICK c \in Caller : Evict(c)
    BY <1>1
  <2>2. /\ caller[c].at = "evicting" /\ QueueFrees(c, caller[c].domain, TRUE)
        /\ UNCHANGED <<queue, lost>>
    BY <2>1 DEF Evict
  <2>3. caller[c].domain \in Domain
    BY <2>2, CallerFields DEF Types
  <2>4. QED
    BY <1>0, <2>2, <2>3, QueueFreesMoves
<1>2. CASE \E c \in Caller : TrimForRetry(c)
  <2>1. PICK c \in Caller : TrimForRetry(c)
    BY <1>2
  <2>2. caller[c].at = "oom" /\ QueueFrees(c, "all", FALSE) /\ UNCHANGED <<queue, lost>>
    BY <2>1 DEF TrimForRetry
  <2>3. QED
    BY <1>0, <2>2, QueueFreesMoves
<1>3. CASE TrimPreparationCache
  <2>1. QueueFrees("user", "all", TRUE) /\ UNCHANGED <<queue, lost>>
    BY <1>3 DEF TrimPreparationCache
  <2>2. "user" \notin Caller
    BY ActorsAssumption
  <2>3. QED
    BY <1>0, <2>1, <2>2, QueueFreesMoves
<1>4. QED
  BY <1>1, <1>2, <1>3 DEF TrimStarts

(* A trim that ends, either way *)
LEMMA TrimEndsMoves ==
  ASSUME Types, TrimIsHeld, TrimCompletes \/ TrimFails
  PROVE  /\ Types' /\ trim # NoTrim /\ trim' = NoTrim /\ (lost => lost')
         /\ \E ok \in BOOLEAN : (trim.error => ~ok) /\ (TrimFails => ~ok) /\ TrimReturns(ok)
         /\ \A p \in Pointer :
              /\ p \notin trim.released => buffer'[p] = buffer[p]
              /\ p \in trim.released =>
                   /\ buffer[p].at = "cached"
                   /\ \/ TrimCompletes /\ buffer'[p] = NoBuffer
                      \/ /\ TrimFails /\ lost'
                         /\ buffer'[p].at = buffer[p].at
                         /\ buffer'[p].bytes = buffer[p].bytes
                         /\ buffer'[p].domain = buffer[p].domain
                         /\ buffer'[p].owner = buffer[p].owner
                         /\ buffer'[p].lane = buffer[p].lane
                         /\ buffer'[p].outdated = buffer[p].outdated
                         /\ buffer'[p].trimmed = buffer[p].trimmed
                         /\ buffer'[p].busy = buffer[p].busy
<1>1. TrimCompletes => ~TrimFails \/ lost' = TRUE
  BY DEF TrimFails
<1>2. CASE TrimFails
  <2>1. FALSE \in BOOLEAN /\ TrimReturns(FALSE)
    BY <1>2, TrimFailsMoves
  <2>2. QED
    BY <1>2, <2>1, TrimFailsMoves DEF TrimIsHeld
<1>3. CASE TrimCompletes /\ ~TrimFails
  BY <1>3, TrimCompletesMoves DEF TrimIsHeld
<1>4. QED
  BY <1>2, <1>3

(* Each part of the invariant is kept by every step. *)

(* Every variable keeps its type. *)
LEMMA TypesStep ==
  ASSUME Types, WaitersQueued, TrimIsHeld, DropsLeased, [Next]_vars
  PROVE  Types'
<1>1. CASE Next
  <2>1. ASSUME NEW c \in Caller, NEW d \in Domain, NEW n \in Sizes, Reserve(c, d, n)
        PROVE  Types'
    BY <2>1, ReserveMoves
  <2>2. ASSUME NEW c \in Caller, Admit(c) PROVE Types'
    BY <2>2, AdmitMoves
  <2>3. ASSUME NEW c \in Caller, OwnStep(c) PROVE Types'
    BY <2>3, OwnMoves
  <2>4. TrimStarts => Types'
    BY TrimStartsMoves
  <2>5. TrimCompletes \/ TrimFails => Types'
    BY TrimEndsMoves
  <2>6. QED
    BY <1>1, <2>1, <2>2, <2>3, <2>4, <2>5, NextCases
<1>2. CASE UNCHANGED vars
  BY <1>2 DEF vars, Types
<1>3. QED
  BY <1>1, <1>2

(* The waiting list of a domain is the callers that wait in it. *)
LEMMA WaitersQueuedStep ==
  ASSUME Types, WaitersQueued, TrimIsHeld, DropsLeased, [Next]_vars
  PROVE  WaitersQueued'
<1>0. \A d \in Domain : queue[d] \in Seq(Caller)
  BY DEF Types
<1> DEFINE Ok(d) == /\ Distinct(queue'[d])
                    /\ \A x \in Caller :
                         x \in Members(queue'[d]) <=> (Waits(x)' /\ caller'[x].domain = d)
<1> SUFFICES ASSUME NEW d \in Domain PROVE Ok(d)
  BY DEF WaitersQueued
<1>1. /\ Distinct(queue[d])
      /\ \A x \in Caller : x \in Members(queue[d]) <=> (Waits(x) /\ caller[x].domain = d)
  BY DEF WaitersQueued
<1>2. ASSUME NEW c \in Caller, NEW e \in Domain, NEW n \in Sizes, Reserve(c, e, n)
      PROVE  Ok(d)
  <2>1. /\ Types' /\ OthersStay(c) /\ caller[c].at = "outside" /\ caller'[c].domain = e
        /\ \/ caller'[c].at = "ready" /\ queue' = queue
           \/ /\ caller'[c].at = "evicting"
              /\ queue' = [queue EXCEPT ![e] = Append(@, c)]
    BY <1>2, ReserveMoves
  <2>2. CASE caller'[c].at = "ready" /\ queue' = queue
    BY <1>1, <2>1, <2>2 DEF Waits, OthersStay
  <2>3. CASE /\ caller'[c].at = "evicting"
             /\ queue' = [queue EXCEPT ![e] = Append(@, c)]
    <3>1. CASE d = e
      <4>1. queue'[d] = Append(queue[d], c) /\ c \notin Members(queue[d])
        BY <1>1, <2>1, <2>3, <3>1 DEF Types, Waits
      <4>2. Distinct(queue'[d]) /\ Members(queue'[d]) = Members(queue[d]) \cup {c}
        BY <1>0, <1>1, <4>1, Appended
      <4>3. QED
        BY <1>1, <2>1, <2>3, <3>1, <4>2 DEF Waits, OthersStay
    <3>2. CASE d # e
      <4>1. queue'[d] = queue[d]
        BY <2>3, <3>2 DEF Types
      <4>2. QED
        BY <1>1, <2>1, <3>2, <4>1 DEF Waits, OthersStay
    <3>3. QED
      BY <3>1, <3>2
  <2>4. QED
    BY <2>1, <2>2, <2>3
<1>3. ASSUME NEW c \in Caller, NEW i \in 1 .. Len(queue[caller[c].domain]),
             queue[caller[c].domain][i] = c, caller[c].domain \in Domain,
             \A x \in Caller \ {c} : caller'[x] = caller[x],
             ~Waits(c)', queue' = [queue EXCEPT ![caller[c].domain] = Without(@, i)]
      PROVE  Ok(d)
  <2>1. CASE d = caller[c].domain
    <3>1. queue'[d] = Without(queue[d], i) /\ queue[d][i] = c
      BY <1>3, <2>1 DEF Types
    <3>2. Distinct(queue'[d]) /\ Members(queue'[d]) = Members(queue[d]) \ {c}
      BY <1>0, <1>1, <1>3, <2>1, <3>1, Unlinked
    <3>3. QED
      BY <1>1, <1>3, <3>2 DEF Waits
  <2>2. CASE d # caller[c].domain
    <3>1. queue'[d] = queue[d]
      BY <1>3, <2>2 DEF Types
    <3>2. c \notin Members(queue[d])
      BY <1>1, <2>2
    <3>3. QED
      BY <1>1, <1>3, <3>1, <3>2 DEF Waits
  <2>3. QED
    BY <2>1, <2>2
<1>4. ASSUME NEW c \in Caller, Admit(c) PROVE Ok(d)
  <2> DEFINE q == queue[caller[c].domain]
  <2>1. /\ OthersStay(c) /\ caller[c].at = "asleep" /\ caller'[c].at = "ready"
        /\ caller[c].domain \in Domain /\ Head(q) = c
        /\ queue' = [queue EXCEPT ![caller[c].domain] = Tail(@)]
    BY <1>4, AdmitMoves
  <2>2. c \in Members(q)
    BY <2>1 DEF WaitersQueued, Waits
  <2>3. q \in Seq(Caller) /\ Len(q) >= 1 /\ q[1] = c /\ 1 \in 1 .. Len(q)
    BY <1>0, <2>1, <2>2, HeadIsMember DEF Members
  <2>4. Tail(q) = Without(q, 1)
    BY <2>3, FirstUnlinked
  <2>5. queue' = [queue EXCEPT ![caller[c].domain] = Without(@, 1)]
    BY <2>1, <2>4 DEF Types
  <2>6. ~Waits(c)'
    BY <2>1 DEF Waits
  <2>7. QED
    BY <1>3, <2>1, <2>3, <2>5, <2>6 DEF OthersStay
<1>5. ASSUME NEW c \in Caller, OwnStep(c) PROVE Ok(d)
  <2>1. OthersStay(c) /\ queue' = queue
    BY <1>5, OwnMoves
  <2>2. caller' = caller \/ (~Waits(c) /\ ~Waits(c)')
    BY <1>5, OwnMoves DEF Waits
  <2>3. QED
    BY <1>1, <2>1, <2>2 DEF OthersStay, Waits
<1>6. CASE TrimStarts
  <2>1. queue' = queue /\ \A x \in Caller : CallerKept(x)
    BY <1>6, TrimStartsMoves
  <2>2. QED
    BY <1>1, <2>1 DEF CallerKept, Waits
<1>7. CASE TrimCompletes \/ TrimFails
  <2>1. PICK ok \in BOOLEAN : TrimReturns(ok)
    BY <1>7, TrimEndsMoves
  <2>2. trim # NoTrim
    BY <1>7, TrimEndsMoves
  <2>3. \A x \in Caller : x # trim.by => caller'[x] = caller[x]
    BY <2>1, <2>2, TrimReturnsMoves
  <2>4. CASE trim.by \notin Caller
    <3>1. queue' = queue
      BY <2>1, <2>2, <2>4, TrimReturnsMoves
    <3>2. QED
      BY <1>1, <2>3, <2>4, <3>1 DEF Waits
  <2>5. ASSUME NEW c \in Caller, c = trim.by PROVE Ok(d)
    <3>1. /\ caller[c].domain \in Domain
          /\ \/ /\ queue' = queue /\ ~Waits(c) /\ ~Waits(c)'
             \/ /\ queue' = queue /\ Waits(c) /\ Waits(c)'
                /\ caller'[c].domain = caller[c].domain
             \/ /\ ~Waits(c)'
                /\ \E i \in 1 .. Len(queue[caller[c].domain]) :
                     /\ queue[caller[c].domain][i] = c
                     /\ queue' = [queue EXCEPT ![caller[c].domain] = Without(@, i)]
      BY <2>1, <2>2, <2>5, TrimReturnsMoves DEF Waits, Outside
    <3>2. CASE queue' = queue /\ ~Waits(c) /\ ~Waits(c)'
      BY <1>1, <2>3, <2>5, <3>2 DEF Waits
    <3>3. CASE queue' = queue /\ Waits(c) /\ Waits(c)' /\ caller'[c].domain = caller[c].domain
      BY <1>1, <2>3, <2>5, <3>3 DEF Waits
    <3>4. CASE /\ ~Waits(c)'
               /\ \E i \in 1 .. Len(queue[caller[c].domain]) :
                    /\ queue[caller[c].domain][i] = c
                    /\ queue' = [queue EXCEPT ![caller[c].domain] = Without(@, i)]
      BY <1>3, <2>3, <2>5, <3>1, <3>4
    <3>5. QED
      BY <3>1, <3>2, <3>3, <3>4
  <2>6. QED
    BY <2>4, <2>5
<1>8. CASE UNCHANGED vars
  BY <1>1, <1>8 DEF vars, Waits
<1> HIDE DEF Ok
<1>9. QED
  BY <1>2, <1>4, <1>5, <1>6, <1>7, <1>8, NextCases

(* While a trim is under way, what it queued stays in the cache, and an       *)
(* admission that asked for it covers all its domain has there.             *)
LEMMA TrimIsHeldStep ==
  ASSUME Types, WaitersQueued, TrimIsHeld, DropsLeased, [Next]_vars
  PROVE  TrimIsHeld'
<1> DEFINE Cover(x) == \A p \in Cached : buffer[p].domain = caller[x].domain => p \in trim.released
<1>1. ASSUME NEW c \in Caller, trim' = trim, OthersStay(c),
             caller' = caller \/ caller[c].at \notin {"evicting", "oom"},
             trim # NoTrim => \A p \in Pointer : /\ buffer'[p].at = "cached" <=> buffer[p].at = "cached"
                                                 /\ buffer[p].at = "cached" =>
                                                      buffer'[p].domain = buffer[p].domain
      PROVE  TrimIsHeld'
  <2> SUFFICES ASSUME trim # NoTrim
               PROVE  /\ \A p \in trim.released : buffer'[p].at = "cached"
                      /\ trim.by \in Caller => caller'[trim.by].at \in {"evicting", "oom"}
                      /\ (trim.by \in Caller /\ caller'[trim.by].at = "evicting" /\ ~trim.error) =>
                            \A p \in Cached' : buffer'[p].domain = caller'[trim.by].domain
                                                 => p \in trim.released
    BY <1>1 DEF TrimIsHeld
  <2>1. trim.released \subseteq Pointer
    BY DEF Types, Trims
  <2>2. \A p \in trim.released : buffer'[p].at = "cached"
    BY <1>1, <2>1 DEF TrimIsHeld
  <2>3. trim.by \in Caller => caller'[trim.by] = caller[trim.by]
    BY <1>1 DEF TrimIsHeld, OthersStay
  <2>4. \A p \in Cached' : p \in Cached /\ buffer'[p].domain = buffer[p].domain
    BY <1>1 DEF Cached, Existing
  <2>5. QED
    BY <2>2, <2>3, <2>4 DEF TrimIsHeld
<1>2. ASSUME NEW c \in Caller, NEW d \in Domain, NEW n \in Sizes, Reserve(c, d, n)
      PROVE  TrimIsHeld'
  BY <1>1, <1>2, ReserveMoves
<1>3. ASSUME NEW c \in Caller, Admit(c) PROVE TrimIsHeld'
  BY <1>1, <1>3, AdmitMoves
<1>4. ASSUME NEW c \in Caller, OwnStep(c) PROVE TrimIsHeld'
  <2>1. /\ OthersStay(c) /\ trim' = trim
        /\ caller' = caller \/ caller[c].at \notin {"evicting", "oom"}
    BY <1>4, OwnMoves
  <2> DEFINE Same == \A p \in Pointer : /\ buffer'[p].at = "cached" <=> buffer[p].at = "cached"
                                        /\ buffer[p].at = "cached" =>
                                             buffer'[p].domain = buffer[p].domain
  <2>2. \A p \in Pointer : buffer[p].at = "cached" => p \in Existing
    BY DEF Existing
  <2>3. trim # NoTrim => Same
    <3>1. Close(c) => Same
      BY <2>2, CloseMoves
    <3>2. (\E n \in Sizes : ReadGeneration(c, n)) \/ PrepareAllocation(c) => Same
      BY ReadGenerationMoves, PrepareAllocationMoves
    <3>3. AcquireCachedBuffer(c) \/ CacheCompletedBuffer(c) => trim = NoTrim
      BY AcquireMoves, CacheMoves
    <3>4. AllocateDeviceMemory(c) => Same
      BY AllocateMoves DEF NewBuffer, Existing
    <3>5. (\E p \in Pointer : Submit(c, p) \/ Synchronize(c, p)) => Same
      BY <2>2, SubmitMoves, SynchronizeMoves DEF BufferStays
    <3>6. StreamCompletes(c) => Same
      BY <2>2, StreamCompletesMoves DEF BufferStays
    <3>7. FreeDeviceMemory(c) => Same
      BY <2>2, FreeMoves
    <3>8. ResetTicket(c) => Same
      BY ResetMoves DEF DropsLeased, Drops, NoBuffer
    <3>9. QED
      BY <1>4, <3>1, <3>2, <3>3, <3>4, <3>5, <3>6, <3>7, <3>8, Zenon DEF OwnStep
  <2>4. QED
    BY <1>1, <2>1, <2>3
<1>5. CASE TrimStarts
  <2>1. /\ trim' # NoTrim /\ trim'.released \subseteq Cached
        /\ trim'.by \in Caller =>
              /\ caller[trim'.by].at \in {"evicting", "oom"}
              /\ caller[trim'.by].at = "evicting" /\ ~trim'.error =>
                   trim'.released = InScope(caller[trim'.by].domain)
        /\ \A x \in Caller : CallerKept(x)
        /\ \A p \in Pointer : /\ buffer'[p].at = buffer[p].at
                              /\ buffer[p].at # "leased" => buffer'[p] = buffer[p]
    BY <1>5, TrimStartsMoves
  <2>2. \A p \in Cached : buffer'[p].at = "cached"
    BY <2>1 DEF Cached, Existing
  <2>3. \A p \in Cached' : p \in Cached /\ buffer'[p] = buffer[p]
    BY <2>1 DEF Cached, Existing
  <2>4. \A p \in trim'.released : buffer'[p].at = "cached"
    BY <2>1, <2>2
  <2>5. trim'.by \in Caller => caller'[trim'.by].at \in {"evicting", "oom"}
    BY <2>1 DEF CallerKept
  <2>6. ASSUME trim'.by \in Caller, caller'[trim'.by].at = "evicting", ~trim'.error,
               NEW p \in Cached', buffer'[p].domain = caller'[trim'.by].domain
        PROVE  p \in trim'.released
    <3>1. caller[trim'.by].at = "evicting" /\ caller'[trim'.by].domain = caller[trim'.by].domain
      BY <2>1, <2>6 DEF CallerKept
    <3>2. p \in InScope(caller[trim'.by].domain)
      BY <2>3, <2>6, <3>1 DEF InScope
    <3>3. QED
      BY <2>1, <2>6, <3>1, <3>2
  <2>7. QED
    BY <2>4, <2>5, <2>6 DEF TrimIsHeld
<1>6. CASE TrimCompletes \/ TrimFails
  BY <1>6, TrimEndsMoves DEF TrimIsHeld
<1>7. CASE UNCHANGED vars
  BY <1>7 DEF vars, TrimIsHeld, Cached, Existing
<1>8. QED
  BY <1>2, <1>3, <1>4, <1>5, <1>6, <1>7, NextCases

(* What a caller drops is its own lease, drained before it goes to the cache. *)
LEMMA DropsLeasedStep ==
  ASSUME Types, WaitersQueued, TrimIsHeld, DropsLeased, [Next]_vars
  PROVE  DropsLeased'
<1> DEFINE Held(x) == /\ buffer'[caller'[x].pointer].at = "leased"
                      /\ buffer'[caller'[x].pointer].lane = x
                      /\ caller'[x].at = "caching" => ~buffer'[caller'[x].pointer].busy
<1> SUFFICES ASSUME NEW x \in Caller, Drops(x)' PROVE Held(x)
  BY DEF DropsLeased
<1>0. ASSUME Drops(x)
      PROVE  /\ caller[x].pointer \in Pointer
             /\ buffer[caller[x].pointer].at = "leased" /\ buffer[caller[x].pointer].lane = x
             /\ caller[x].pointer \in Existing
             /\ caller[x].at = "caching" => ~buffer[caller[x].pointer].busy
  BY <1>0, CallerFields DEF Types, DropsLeased, Drops, Existing
(* The lease stays as it is. *)
<1>1. ASSUME caller'[x] = caller[x],
             \A p \in Pointer : buffer[p].at = "leased" /\ buffer[p].lane = x =>
               /\ buffer'[p].at = "leased" /\ buffer'[p].lane = x
               /\ buffer'[p].busy => buffer[p].busy
      PROVE  Held(x)
  BY <1>0, <1>1 DEF Drops
<1>2. ASSUME NEW c \in Caller, NEW d \in Domain, NEW n \in Sizes, Reserve(c, d, n)
      PROVE  Held(x)
  <2>1. x # c
    BY <1>2, ReserveMoves DEF Drops
  <2>2. QED
    BY <1>1, <1>2, <2>1, ReserveMoves DEF OthersStay
<1>3. ASSUME NEW c \in Caller, Admit(c) PROVE Held(x)
  <2>1. x # c
    BY <1>3, AdmitMoves DEF Drops
  <2>2. QED
    BY <1>1, <1>3, <2>1, AdmitMoves DEF OthersStay
<1>4. CASE TrimStarts
  <2>1. /\ CallerKept(x)
        /\ \A p \in Pointer :
             /\ buffer'[p].at = buffer[p].at
             /\ buffer[p].at = "leased" => /\ buffer'[p].lane = buffer[p].lane
                                           /\ buffer'[p].busy = buffer[p].busy
    BY <1>4, TrimStartsMoves
  <2>2. Drops(x) /\ caller'[x].at = caller[x].at /\ caller'[x].pointer = caller[x].pointer
    BY <2>1 DEF CallerKept, Drops
  <2>3. QED
    BY <1>0, <2>1, <2>2
<1>5. CASE TrimCompletes \/ TrimFails
  <2>1. PICK ok \in BOOLEAN : TrimReturns(ok)
    BY <1>5, TrimEndsMoves
  <2>2. trim # NoTrim
    BY <1>5, TrimEndsMoves
  <2>3. caller'[x] = caller[x]
    BY <2>1, <2>2, TrimReturnsMoves DEF Drops, Outside
  <2>4. \A p \in Pointer : buffer[p].at = "leased" => buffer'[p] = buffer[p]
    BY <1>5, TrimEndsMoves
  <2>5. QED
    BY <1>1, <2>3, <2>4
<1>6. ASSUME NEW c \in Caller, OwnStep(c), x # c PROVE Held(x)
  <2>1. caller'[x] = caller[x]
    BY <1>6, OwnMoves DEF OthersStay
  <2> DEFINE Kept == \A p \in Pointer : buffer[p].at = "leased" /\ buffer[p].lane = x =>
                       /\ buffer'[p].at = "leased" /\ buffer'[p].lane = x
                       /\ buffer'[p].busy => buffer[p].busy
  <2>2. \A p \in Pointer : buffer[p].at = "leased" => p \in Existing
    BY DEF Existing
  <2>3. \A p \in Leased(c) : buffer[p].lane # x
    BY <1>6 DEF Leased
  <2>4. Close(c) => Kept
    BY <2>2, CloseMoves
  <2>5. (\E n \in Sizes : ReadGeneration(c, n)) \/ PrepareAllocation(c) => Kept
    BY ReadGenerationMoves, PrepareAllocationMoves
  <2>6. AcquireCachedBuffer(c) => Kept
    BY AcquireMoves DEF Acquired, Fitting, Cached
  <2>7. AllocateDeviceMemory(c) => Kept
    BY AllocateMoves DEF Existing
  <2>8. (\E p \in Pointer : Submit(c, p)) => Kept
    BY <2>3, SubmitMoves
  <2>9. (\E p \in Pointer : Synchronize(c, p)) => Kept
    BY <2>3, SynchronizeMoves
  <2>10. StreamCompletes(c) => Kept
    BY <2>3, StreamCompletesMoves
  <2>11. CacheCompletedBuffer(c) => Kept
    BY <1>6, CacheMoves DEF DropsLeased, Drops
  <2>12. FreeDeviceMemory(c) => Kept
    BY <2>3, FreeMoves
  <2>13. ResetTicket(c) => Kept
    BY <1>6, ResetMoves DEF DropsLeased, Drops
  <2>14. Kept
    BY <1>6, <2>4, <2>5, <2>6, <2>7, <2>8, <2>9, <2>10, <2>11, <2>12, <2>13, Zenon DEF OwnStep
  <2>15. QED
    BY <1>1, <2>1, <2>14
(* The caller itself: it goes from its buffer's synchronisation to the reset. *)
<1>7. ASSUME OwnStep(x) PROVE Held(x)
  <2>1. ~ Close(x)
    BY CloseMoves DEF Drops, Outside
  <2>2. ~ (\E n \in Sizes : ReadGeneration(x, n)) /\ ~ PrepareAllocation(x)
    BY ReadGenerationMoves, PrepareAllocationMoves DEF Drops
  <2>3. ~ AcquireCachedBuffer(x)
    BY AcquireMoves DEF Acquired, Drops
  <2>4. ~ AllocateDeviceMemory(x)
    BY AllocateMoves DEF Drops
  <2>5. ~ (\E p \in Pointer : Submit(x, p))
    BY SubmitMoves DEF Drops
  <2>6. ASSUME NEW p \in Pointer, Synchronize(x, p) PROVE Held(x)
    <3>1. /\ buffer[p].at = "leased" /\ buffer[p].lane = x /\ p \in Existing /\ p \in Leased(x)
          /\ caller'[x].pointer = p
      BY <2>6, SynchronizeMoves DEF Leased
    <3>2. QED
      BY <2>6, <3>1, SynchronizeMoves DEF BufferStays
  <2>7. StreamCompletes(x) => Held(x)
    <3> SUFFICES ASSUME StreamCompletes(x) PROVE Held(x)
      OBVIOUS
    <3>1. caller' = caller /\ \A p \in Pointer : /\ BufferStays(p)
                                                 /\ p \in Leased(x) => ~buffer'[p].busy
                                                 /\ p \notin Leased(x) => buffer'[p] = buffer[p]
      BY StreamCompletesMoves
    <3>2. Drops(x)
      BY <3>1 DEF Drops
    <3>3. QED
      BY <1>0, <3>1, <3>2 DEF BufferStays
  <2>8. CacheCompletedBuffer(x) => Held(x)
    BY <1>0, CacheMoves DEF Drops
  <2>9. FreeDeviceMemory(x) => Held(x)
    BY <1>0, FreeMoves DEF Drops
  <2>10. ~ ResetTicket(x)
    BY ResetMoves DEF Drops
  <2>11. QED
    BY <1>7, <2>1, <2>2, <2>3, <2>4, <2>5, <2>6, <2>7, <2>8, <2>9, <2>10, Zenon DEF OwnStep
<1>8. CASE UNCHANGED vars
  BY <1>0, <1>8 DEF vars, Drops
<1> HIDE DEF Held
<1>9. QED
  BY <1>2, <1>3, <1>4, <1>5, <1>6, <1>7, <1>8, NextCases

(* A buffer a trim overtook is out of date, and what is cached is neither      *)
(* overtaken nor in use.                                                   *)
LEMMA CachedAreCleanStep ==
  ASSUME Types, WaitersQueued, TrimIsHeld, DropsLeased, CachedAreClean, [Next]_vars
  PROVE  CachedAreClean'
<1> DEFINE Clean(p) == /\ buffer'[p].trimmed => buffer'[p].outdated
                       /\ buffer'[p].at = "cached" => ~buffer'[p].trimmed /\ ~buffer'[p].busy
           Kept(p) == /\ buffer'[p].at = buffer[p].at
                      /\ buffer'[p].trimmed = buffer[p].trimmed
                      /\ buffer'[p].outdated = buffer[p].outdated
                      /\ buffer'[p].busy = buffer[p].busy \/ ~buffer'[p].busy
                           \/ buffer'[p].at = "leased"
<1> SUFFICES ASSUME NEW p \in Pointer, buffer'[p].at # "none" PROVE Clean(p)
  BY DEF CachedAreClean, Existing
<1>1. ASSUME buffer'[p] = buffer[p] PROVE Clean(p)
  BY <1>1 DEF CachedAreClean, Existing
<1>2. ASSUME p \in Existing, Kept(p) PROVE Clean(p)
  BY <1>2 DEF CachedAreClean
<1>3. ASSUME NEW c \in Caller, NEW d \in Domain, NEW n \in Sizes, Reserve(c, d, n)
      PROVE  Clean(p)
  BY <1>1, <1>3, ReserveMoves
<1>4. ASSUME NEW c \in Caller, Admit(c) PROVE Clean(p)
  BY <1>1, <1>4, AdmitMoves
<1>5. CASE TrimStarts
  BY <1>1, <1>5, TrimStartsMoves
<1>6. CASE TrimCompletes \/ TrimFails
  <2>1. CASE p \notin trim.released
    BY <1>1, <1>6, <2>1, TrimEndsMoves
  <2>2. CASE p \in trim.released
    <3>1. p \in Existing
      BY <1>6, <2>2, TrimEndsMoves DEF Existing
    <3>2. Kept(p)
      BY <1>6, <2>2, TrimEndsMoves DEF NoBuffer
    <3>3. QED
      BY <1>2, <3>1, <3>2
  <2>3. QED
    BY <2>1, <2>2
<1>7. ASSUME NEW c \in Caller, OwnStep(c) PROVE Clean(p)
  <2>1. ASSUME Close(c) PROVE Clean(p)
    <3>1. p \in Existing
      BY <2>1, CloseMoves DEF Existing
    <3>2. Kept(p)
      BY <2>1, <3>1, CloseMoves
    <3>3. QED
      BY <1>2, <3>1, <3>2
  <2>2. (\E n \in Sizes : ReadGeneration(c, n)) \/ PrepareAllocation(c) => Clean(p)
    BY <1>1, ReadGenerationMoves, PrepareAllocationMoves
  <2>3. ASSUME AcquireCachedBuffer(c) PROVE Clean(p)
    <3>1. PICK taken \in SUBSET Fitting(c), dropped \in SUBSET Fitting(c) :
            Acquired(c, taken, dropped)
      BY <2>3, AcquireMoves
    <3>2. p \notin dropped
      BY <3>1 DEF Acquired, NoBuffer
    <3>3. CASE p \in taken
      BY <3>1, <3>3 DEF Acquired
    <3>4. CASE p \notin taken
      BY <1>1, <3>1, <3>2, <3>4 DEF Acquired
    <3>5. QED
      BY <3>3, <3>4
  <2>4. AllocateDeviceMemory(c) => Clean(p)
    BY <1>1, AllocateMoves DEF NewBuffer
  <2>5. ASSUME NEW x \in Pointer, Submit(c, x) PROVE Clean(p)
    <3>1. BufferStays(p) /\ (p # x => buffer'[p] = buffer[p]) /\ buffer[x].at = "leased"
      BY <2>5, SubmitMoves DEF Leased
    <3>2. p \in Existing
      BY <3>1 DEF BufferStays, Existing
    <3>3. Kept(p)
      BY <3>1, <3>2 DEF BufferStays
    <3>4. QED
      BY <1>2, <3>2, <3>3
  <2>6. ASSUME (\E x \in Pointer : Synchronize(c, x)) \/ StreamCompletes(c) PROVE Clean(p)
    <3>1. \/ buffer'[p] = buffer[p]
          \/ BufferStays(p) /\ ~buffer'[p].busy
      BY <2>6, SynchronizeMoves, StreamCompletesMoves
    <3>2. p \in Existing
      BY <3>1 DEF BufferStays, Existing
    <3>3. QED
      BY <1>1, <1>2, <3>1, <3>2 DEF BufferStays
  <2>7. ASSUME CacheCompletedBuffer(c) PROVE Clean(p)
    <3>1. CASE buffer'[p] = buffer[p]
      BY <1>1, <3>1
    <3>2. CASE buffer'[p] # buffer[p]
      <4>1. /\ p = caller[c].pointer /\ p \in Existing /\ MayCache(p)
            /\ buffer'[p].outdated = buffer[p].outdated
            /\ buffer'[p].trimmed = buffer[p].trimmed /\ buffer'[p].busy = buffer[p].busy
        BY <2>7, <3>2, CacheMoves
      <4>2. ~buffer[p].busy
        BY <2>7, <4>1, CacheMoves DEF DropsLeased, Drops
      <4>3. ~buffer[p].trimmed
        BY <4>1 DEF MayCache, CachedAreClean
      <4>4. QED
        BY <4>1, <4>2, <4>3
    <3>3. QED
      BY <3>1, <3>2
  <2>8. ASSUME FreeDeviceMemory(c) PROVE Clean(p)
    <3>1. p \in Existing
      BY <2>8, FreeMoves DEF Existing
    <3>2. Kept(p)
      BY <2>8, <3>1, FreeMoves
    <3>3. QED
      BY <1>2, <3>1, <3>2
  <2>9. ResetTicket(c) => Clean(p)
    BY <1>1, ResetMoves DEF NoBuffer
  <2>10. QED
    BY <1>7, <2>1, <2>2, <2>3, <2>4, <2>5, <2>6, <2>7, <2>8, <2>9, Zenon DEF OwnStep
<1>8. CASE UNCHANGED vars
  BY <1>1, <1>8 DEF vars
<1> HIDE DEF Clean
<1>9. QED
  BY <1>3, <1>4, <1>5, <1>6, <1>7, <1>8, NextCases

(* A buffer has backing unless the device is lost or its caller just freed it. *)
LEMMA BackedUntilFreedStep ==
  ASSUME Types, WaitersQueued, TrimIsHeld, DropsLeased, BackedUntilFreed, [Next]_vars
  PROVE  BackedUntilFreed'
<1> DEFINE Freed(p) == \E c \in Caller : caller[c].at = "freed" /\ caller[c].pointer = p
           Backed(p) == \/ buffer'[p].backed \/ lost'
                        \/ \E c \in Caller : caller'[c].at = "freed" /\ caller'[c].pointer = p
<1> SUFFICES ASSUME NEW p \in Pointer, buffer'[p].at # "none" PROVE Backed(p)
  BY DEF BackedUntilFreed, Existing
<1>0. ASSUME p \in Existing PROVE buffer[p].backed \/ lost \/ Freed(p)
  BY <1>0 DEF BackedUntilFreed
(* No step but the reset ends a caller's free, and that one takes the buffer. *)
<1>1. ASSUME p \in Existing, buffer'[p].backed = buffer[p].backed, lost => lost',
             \A c \in Caller : caller[c].at = "freed" =>
                caller'[c].at = "freed" /\ caller'[c].pointer = caller[c].pointer
      PROVE  Backed(p)
  BY <1>0, <1>1
<1>2. ASSUME NEW c \in Caller, OthersStay(c), caller[c].at # "freed"
      PROVE  \A x \in Caller : caller[x].at = "freed" =>
                caller'[x].at = "freed" /\ caller'[x].pointer = caller[x].pointer
  BY <1>2 DEF OthersStay
<1>3. ASSUME NEW c \in Caller, NEW d \in Domain, NEW n \in Sizes, Reserve(c, d, n)
      PROVE  Backed(p)
  BY <1>1, <1>2, <1>3, ReserveMoves DEF Existing
<1>4. ASSUME NEW c \in Caller, Admit(c) PROVE Backed(p)
  BY <1>1, <1>2, <1>4, AdmitMoves DEF Existing
<1>5. CASE TrimStarts
  <2>1. buffer'[p].at = buffer[p].at /\ lost' = lost /\ \A x \in Caller : CallerKept(x)
    BY <1>5, TrimStartsMoves
  <2>2. p \in Existing
    BY <2>1 DEF Existing
  <2>3. buffer'[p].backed = buffer[p].backed
    BY <1>5, TrimStartsMoves
  <2>4. \A x \in Caller : caller[x].at = "freed" =>
                caller'[x].at = "freed" /\ caller'[x].pointer = caller[x].pointer
    BY <2>1 DEF CallerKept, Drops
  <2>5. QED
    BY <1>1, <2>1, <2>2, <2>3, <2>4
<1>6. CASE TrimCompletes \/ TrimFails
  <2>1. CASE p \in trim.released
    BY <1>6, <2>1, TrimEndsMoves DEF NoBuffer
  <2>2. CASE p \notin trim.released
    <3>1. buffer'[p] = buffer[p] /\ p \in Existing /\ trim # NoTrim /\ (lost => lost')
      BY <1>6, <2>2, TrimEndsMoves DEF Existing
    <3>2. PICK ok \in BOOLEAN : TrimReturns(ok)
      BY <1>6, TrimEndsMoves
    <3>3. \A x \in Caller : caller[x].at = "freed" => caller'[x] = caller[x]
      BY <3>1, <3>2, TrimReturnsMoves
    <3>4. QED
      BY <1>1, <3>1, <3>3
  <2>3. QED
    BY <2>1, <2>2
<1>7. ASSUME NEW c \in Caller, OwnStep(c) PROVE Backed(p)
  <2>1. OthersStay(c) /\ (lost => lost')
    BY <1>7, OwnMoves
  <2>2. Close(c) => Backed(p)
    <3> SUFFICES ASSUME Close(c) PROVE Backed(p)
      OBVIOUS
    <3>1. caller[c].at # "freed" /\ p \in Existing /\ buffer'[p].backed = buffer[p].backed
      BY CloseMoves DEF Existing
    <3>2. QED
      BY <1>1, <1>2, <2>1, <3>1
  <2>3. (\E n \in Sizes : ReadGeneration(c, n)) \/ PrepareAllocation(c) => Backed(p)
    <3> SUFFICES ASSUME (\E n \in Sizes : ReadGeneration(c, n)) \/ PrepareAllocation(c)
                 PROVE  Backed(p)
      OBVIOUS
    <3>1. caller[c].at # "freed" /\ buffer' = buffer
      BY ReadGenerationMoves, PrepareAllocationMoves
    <3>2. QED
      BY <1>1, <1>2, <2>1, <3>1 DEF Existing
  <2>4. AcquireCachedBuffer(c) => Backed(p)
    <3> SUFFICES ASSUME AcquireCachedBuffer(c) PROVE Backed(p)
      OBVIOUS
    <3>1. caller[c].at # "freed"
      BY AcquireMoves
    <3>2. p \in Existing /\ buffer'[p].backed = buffer[p].backed
      <4>1. PICK taken \in SUBSET Fitting(c), dropped \in SUBSET Fitting(c) :
              Acquired(c, taken, dropped)
        BY AcquireMoves
      <4>2. p \notin dropped
        BY <4>1 DEF Acquired, NoBuffer
      <4>3. CASE p \in taken
        BY <4>1, <4>3 DEF Acquired, Fitting, Cached
      <4>4. CASE p \notin taken
        BY <4>1, <4>2, <4>4 DEF Acquired, Existing
      <4>5. QED
        BY <4>3, <4>4
    <3>3. QED
      BY <1>1, <1>2, <2>1, <3>1, <3>2
  <2>5. AllocateDeviceMemory(c) => Backed(p)
    <3> SUFFICES ASSUME AllocateDeviceMemory(c) PROVE Backed(p)
      OBVIOUS
    <3>1. caller[c].at # "freed"
      BY AllocateMoves
    <3>2. buffer'[p].backed \/ buffer'[p] = buffer[p]
      BY AllocateMoves DEF NewBuffer
    <3>3. QED
      BY <1>1, <1>2, <2>1, <3>1, <3>2 DEF Existing
  <2>6. (\E x \in Pointer : Submit(c, x) \/ Synchronize(c, x)) => Backed(p)
    <3> SUFFICES ASSUME (\E x \in Pointer : Submit(c, x) \/ Synchronize(c, x)) PROVE Backed(p)
      OBVIOUS
    <3>1. caller[c].at # "freed"
      BY SubmitMoves, SynchronizeMoves
    <3>2. p \in Existing /\ buffer'[p].backed = buffer[p].backed
      BY SubmitMoves, SynchronizeMoves DEF BufferStays, Existing
    <3>3. QED
      BY <1>1, <1>2, <2>1, <3>1, <3>2
  <2>7. StreamCompletes(c) => Backed(p)
    <3> SUFFICES ASSUME StreamCompletes(c) PROVE Backed(p)
      OBVIOUS
    <3>1. caller' = caller /\ p \in Existing /\ buffer'[p].backed = buffer[p].backed
      BY StreamCompletesMoves DEF BufferStays, Existing
    <3>2. QED
      BY <1>1, <2>1, <3>1
  <2>8. CacheCompletedBuffer(c) => Backed(p)
    <3> SUFFICES ASSUME CacheCompletedBuffer(c) PROVE Backed(p)
      OBVIOUS
    <3>1. caller[c].at # "freed" /\ p \in Existing /\ buffer'[p].backed = buffer[p].backed
      BY CacheMoves DEF Existing
    <3>2. QED
      BY <1>1, <1>2, <2>1, <3>1
  <2>9. FreeDeviceMemory(c) => Backed(p)
    <3> SUFFICES ASSUME FreeDeviceMemory(c) PROVE Backed(p)
      OBVIOUS
    <3>1. /\ caller[c].at = "freeing" /\ caller'[c].at = "freed"
          /\ caller'[c].pointer = caller[c].pointer /\ p \in Existing
          /\ p # caller[c].pointer => buffer'[p].backed = buffer[p].backed
      BY FreeMoves DEF Existing
    <3>2. CASE p = caller[c].pointer
      BY <3>1, <3>2
    <3>3. CASE p # caller[c].pointer
      BY <1>1, <1>2, <2>1, <3>1, <3>3
    <3>4. QED
      BY <3>2, <3>3
  <2>10. ResetTicket(c) => Backed(p)
    <3> SUFFICES ASSUME ResetTicket(c) PROVE Backed(p)
      OBVIOUS
    <3>1. p # caller[c].pointer /\ buffer'[p] = buffer[p] /\ p \in Existing
      BY ResetMoves DEF NoBuffer, Existing
    <3>2. buffer[p].backed \/ lost \/ Freed(p)
      BY <1>0, <3>1
    <3>3. QED
      BY <2>1, <3>1, <3>2 DEF OthersStay
  <2>11. QED
    BY <1>7, <2>2, <2>3, <2>4, <2>5, <2>6, <2>7, <2>8, <2>9, <2>10, Zenon DEF OwnStep
<1>8. CASE UNCHANGED vars
  BY <1>1, <1>8 DEF vars, Existing
<1> HIDE DEF Backed
<1>9. QED
  BY <1>3, <1>4, <1>5, <1>6, <1>7, <1>8, NextCases

(* A ticket belongs to an open envelope of its domain, or outlived it. *)
LEMMA OwnersAdmittedStep ==
  ASSUME Types, WaitersQueued, TrimIsHeld, DropsLeased, OwnersAdmitted, [Next]_vars
  PROVE  OwnersAdmitted'
<1> DEFINE Owned(p) == \/ buffer'[p].owner = "closed"
                       \/ /\ buffer'[p].owner \in Caller
                          /\ caller'[buffer'[p].owner].at \notin {"outside", "evicting", "asleep"}
                          /\ caller'[buffer'[p].owner].domain = buffer'[p].domain
           Stays(x) == caller[x].at \notin {"outside", "evicting", "asleep"} =>
                         /\ caller'[x].at \notin {"outside", "evicting", "asleep"}
                         /\ caller'[x].domain = caller[x].domain
<1> SUFFICES ASSUME NEW p \in Pointer, buffer'[p].at # "none" PROVE Owned(p)
  BY DEF OwnersAdmitted, Existing, Admitted
<1>0. ASSUME p \in Existing
      PROVE  \/ buffer[p].owner = "closed"
             \/ /\ buffer[p].owner \in Caller
                /\ caller[buffer[p].owner].at \notin {"outside", "evicting", "asleep"}
                /\ caller[buffer[p].owner].domain = buffer[p].domain
  BY <1>0 DEF OwnersAdmitted, Admitted
<1>1. ASSUME p \in Existing, buffer'[p].owner = buffer[p].owner,
             buffer'[p].domain = buffer[p].domain, \A x \in Caller : Stays(x)
      PROVE  Owned(p)
  BY <1>0, <1>1
<1>2. ASSUME NEW c \in Caller, OthersStay(c), Stays(c) PROVE \A x \in Caller : Stays(x)
  BY <1>2 DEF OthersStay
<1>3. ASSUME NEW c \in Caller, NEW d \in Domain, NEW n \in Sizes, Reserve(c, d, n)
      PROVE  Owned(p)
  <2>1. buffer' = buffer /\ OthersStay(c) /\ Stays(c)
    BY <1>3, ReserveMoves
  <2>2. QED
    BY <1>1, <1>2, <2>1 DEF Existing
<1>4. ASSUME NEW c \in Caller, Admit(c) PROVE Owned(p)
  <2>1. buffer' = buffer /\ OthersStay(c) /\ Stays(c)
    BY <1>4, AdmitMoves
  <2>2. QED
    BY <1>1, <1>2, <2>1 DEF Existing
<1>5. CASE TrimStarts
  <2>1. \A x \in Caller : Stays(x)
    BY <1>5, TrimStartsMoves DEF CallerKept
  <2>2. p \in Existing /\ buffer'[p].owner = buffer[p].owner /\ buffer'[p].domain = buffer[p].domain
    BY <1>5, TrimStartsMoves DEF Existing
  <2>3. QED
    BY <1>1, <2>1, <2>2
<1>6. CASE TrimCompletes \/ TrimFails
  <2>1. PICK ok \in BOOLEAN : TrimReturns(ok)
    BY <1>6, TrimEndsMoves
  <2>2. trim # NoTrim
    BY <1>6, TrimEndsMoves
  <2>3. ASSUME NEW x \in Caller PROVE Stays(x)
    <3>1. CASE x # trim.by
      BY <2>1, <2>2, <3>1, TrimReturnsMoves
    <3>2. CASE x = trim.by
      BY <2>1, <2>2, <3>2, TrimReturnsMoves
    <3>3. QED
      BY <3>1, <3>2
  <2>4. p \in Existing /\ buffer'[p].owner = buffer[p].owner /\ buffer'[p].domain = buffer[p].domain
    BY <1>6, TrimEndsMoves DEF Existing, NoBuffer
  <2>5. QED
    BY <1>1, <2>3, <2>4
<1>7. ASSUME NEW c \in Caller, OwnStep(c) PROVE Owned(p)
  <2>1. OthersStay(c)
    BY <1>7, OwnMoves
  <2>2. ASSUME Close(c) PROVE Owned(p)
    <3>1. /\ p \in Existing /\ buffer'[p].domain = buffer[p].domain
          /\ buffer'[p].owner = IF buffer[p].owner = c THEN "closed" ELSE buffer[p].owner
      BY <2>2, CloseMoves DEF Existing
    <3>2. QED
      BY <1>0, <2>1, <3>1 DEF OthersStay
  <2>3. ASSUME ~ Close(c) PROVE \A x \in Caller : Stays(x)
    <3>1. ASSUME caller'[c].at = "outside" PROVE caller'[c] = caller[c]
      <4>1. /\ ~(\E n \in Sizes : ReadGeneration(c, n))
            /\ ~AcquireCachedBuffer(c)
        BY <3>1, ReadGenerationMoves, AcquireMoves DEF Acquired
      <4>2. ~PrepareAllocation(c) /\ ~AllocateDeviceMemory(c)
        BY <3>1, PrepareAllocationMoves, AllocateMoves
      <4>3. ~CacheCompletedBuffer(c) /\ ~FreeDeviceMemory(c) /\ ~ResetTicket(c)
        BY <3>1, CacheMoves, FreeMoves, ResetMoves
      <4>4. ~(\E x \in Pointer : Synchronize(c, x))
        BY <3>1, SynchronizeMoves
      <4>5. (\E x \in Pointer : Submit(c, x)) \/ StreamCompletes(c)
        BY <1>7, <2>3, <4>1, <4>2, <4>3, <4>4 DEF OwnStep
      <4>6. QED
        BY <4>5, SubmitMoves, StreamCompletesMoves
    <3>2. Stays(c)
      BY <1>7, <3>1, OwnMoves
    <3>3. QED
      BY <1>2, <2>1, <3>2
  <2>4. ASSUME ~ Close(c), p \in Existing, buffer'[p].owner = buffer[p].owner,
               buffer'[p].domain = buffer[p].domain
        PROVE  Owned(p)
    BY <1>1, <2>3, <2>4
  <2>5. ASSUME buffer' = buffer, ~ Close(c) PROVE Owned(p)
    BY <2>4, <2>5 DEF Existing
  <2>6. ASSUME (\E n \in Sizes : ReadGeneration(c, n)) \/ PrepareAllocation(c) PROVE Owned(p)
    <3>1. buffer' = buffer /\ ~ Close(c)
      BY <2>6, ReadGenerationMoves, PrepareAllocationMoves, CloseMoves DEF Outside
    <3>2. QED
      BY <2>5, <3>1
  <2>7. ASSUME AcquireCachedBuffer(c) PROVE Owned(p)
    <3>1. PICK taken \in SUBSET Fitting(c), dropped \in SUBSET Fitting(c) :
            Acquired(c, taken, dropped)
      BY <2>7, AcquireMoves
    <3>2. p \notin dropped
      BY <3>1 DEF Acquired, NoBuffer
    <3>3. CASE p \in taken
      <4>1. buffer'[p].owner = c /\ buffer'[p].domain = caller'[c].domain
        BY <2>7, <3>1, <3>3, AcquireMoves DEF Acquired, Fitting
      <4>2. caller'[c].at \in {"prepare", "ready"}
        BY <3>1 DEF Acquired
      <4>3. QED
        BY <4>1, <4>2
    <3>4. CASE p \notin taken
      <4>1. buffer'[p] = buffer[p] /\ p \in Existing
        BY <3>1, <3>2, <3>4 DEF Acquired, Existing
      <4>2. ~ Close(c)
        BY <2>7, AcquireMoves, CloseMoves
      <4>3. QED
        BY <2>4, <4>1, <4>2
    <3>5. QED
      BY <3>3, <3>4
  <2>8. ASSUME AllocateDeviceMemory(c) PROVE Owned(p)
    <3>1. ~ Close(c)
      BY <2>8, AllocateMoves, CloseMoves
    <3>2. \/ buffer'[p] = buffer[p]
          \/ NewBuffer(c, p) /\ caller'[c].at = "ready" /\ caller'[c].domain = caller[c].domain
      BY <2>8, AllocateMoves
    <3>3. QED
      BY <2>4, <3>1, <3>2 DEF NewBuffer, Existing
  <2>9. ASSUME (\E x \in Pointer : Submit(c, x) \/ Synchronize(c, x)) \/ StreamCompletes(c)
        PROVE  Owned(p)
    <3>1. \/ buffer' = buffer
          \/ BufferStays(p)
      BY <2>9, SubmitMoves, SynchronizeMoves, StreamCompletesMoves
    <3>2. p \in Existing /\ buffer'[p].owner = buffer[p].owner /\ buffer'[p].domain = buffer[p].domain
      BY <3>1 DEF BufferStays, Existing
    <3>3. \A x \in Caller : Stays(x)
      <4>1. StreamCompletes(c) => Stays(c)
        BY StreamCompletesMoves
      <4>2. (\E x \in Pointer : Submit(c, x) \/ Synchronize(c, x)) => Stays(c)
        BY SubmitMoves, SynchronizeMoves
      <4>3. QED
        BY <1>2, <2>1, <2>9, <4>1, <4>2
    <3>4. QED
      BY <1>1, <3>2, <3>3
  <2>10. ASSUME CacheCompletedBuffer(c) PROVE Owned(p)
    <3>1. ~ Close(c)
      BY <2>10, CacheMoves, CloseMoves
    <3>2. p \in Existing /\ buffer'[p].owner = buffer[p].owner /\ buffer'[p].domain = buffer[p].domain
      BY <2>10, CacheMoves DEF Existing
    <3>3. QED
      BY <2>4, <3>1, <3>2
  <2>11. ASSUME FreeDeviceMemory(c) PROVE Owned(p)
    <3>1. ~ Close(c)
      BY <2>11, FreeMoves, CloseMoves
    <3>2. p \in Existing /\ buffer'[p].owner = buffer[p].owner /\ buffer'[p].domain = buffer[p].domain
      BY <2>11, FreeMoves DEF Existing
    <3>3. QED
      BY <2>4, <3>1, <3>2
  <2>12. ASSUME ResetTicket(c) PROVE Owned(p)
    <3>1. ~ Close(c)
      BY <2>12, ResetMoves, CloseMoves
    <3>2. buffer'[p] = buffer[p] /\ p \in Existing
      BY <2>12, ResetMoves DEF NoBuffer, Existing
    <3>3. QED
      BY <2>4, <3>1, <3>2
  <2>13. QED
    BY <1>7, <2>2, <2>6, <2>7, <2>8, <2>9, <2>10, <2>11, <2>12, Zenon DEF OwnStep
<1>8. CASE UNCHANGED vars
  BY <1>1, <1>8 DEF vars, Existing
<1> HIDE DEF Owned
<1>9. QED
  BY <1>3, <1>4, <1>5, <1>6, <1>7, <1>8, NextCases

(* An admission that sleeps has seen its domain's idle buffers go, and none    *)
(* returns to the cache while it is queued.                                *)
LEMMA WaiterNotBehindIdleStep ==
  ASSUME Types, WaitersQueued, TrimIsHeld, DropsLeased, WaiterNotBehindIdle, [Next]_vars
  PROVE  WaiterNotBehindIdle'
<1> SUFFICES ASSUME NEW w \in Caller, caller'[w].at = "asleep",
                    NEW p \in Pointer, buffer'[p].at = "cached",
                    buffer'[p].domain = caller'[w].domain
             PROVE  FALSE
  BY DEF WaiterNotBehindIdle, Cached, Existing
(* It slept already, and the buffer was idle in its domain already. *)
<1>1. ASSUME caller[w].at = "asleep", caller'[w].domain = caller[w].domain,
             buffer[p].at = "cached", buffer'[p].domain = buffer[p].domain
      PROVE  FALSE
  BY <1>1 DEF WaiterNotBehindIdle, Cached, Existing
<1>2. ASSUME NEW c \in Caller, NEW d \in Domain, NEW n \in Sizes, Reserve(c, d, n)
      PROVE  FALSE
  <2>1. buffer' = buffer /\ w # c /\ OthersStay(c)
    BY <1>2, ReserveMoves
  <2>2. QED
    BY <1>1, <2>1 DEF OthersStay
<1>3. ASSUME NEW c \in Caller, Admit(c) PROVE FALSE
  <2>1. buffer' = buffer /\ w # c /\ OthersStay(c)
    BY <1>3, AdmitMoves
  <2>2. QED
    BY <1>1, <2>1 DEF OthersStay
<1>4. CASE TrimStarts
  <2>1. CallerKept(w) /\ buffer'[p].at = buffer[p].at
    BY <1>4, TrimStartsMoves
  <2>2. buffer'[p] = buffer[p]
    BY <1>4, <2>1, TrimStartsMoves
  <2>3. QED
    BY <1>1, <2>1, <2>2 DEF CallerKept
<1>5. CASE TrimCompletes \/ TrimFails
  <2>1. PICK ok \in BOOLEAN : (trim.error => ~ok) /\ (TrimFails => ~ok) /\ TrimReturns(ok)
    BY <1>5, TrimEndsMoves
  <2>2. trim # NoTrim
    BY <1>5, TrimEndsMoves
  <2>3. buffer[p].at = "cached" /\ buffer'[p].domain = buffer[p].domain
    BY <1>5, TrimEndsMoves DEF NoBuffer
  <2>4. CASE caller'[w] = caller[w]
    BY <1>1, <2>3, <2>4
  <2>5. CASE caller'[w] # caller[w]
    <3>1. w = trim.by
      BY <2>1, <2>2, <2>5, TrimReturnsMoves
    <3>2. caller[w].at = "evicting" /\ ok /\ caller'[w].domain = caller[w].domain
      BY <2>1, <2>2, <3>1, TrimReturnsMoves DEF Outside
    <3>3. ~trim.error /\ ~TrimFails
      BY <2>1, <3>2
    <3>4. p \in trim.released
      BY <2>2, <2>3, <3>1, <3>2, <3>3 DEF TrimIsHeld, Cached, Existing
    <3>5. QED
      BY <1>5, <3>3, <3>4, TrimEndsMoves DEF NoBuffer
  <2>6. QED
    BY <2>4, <2>5
<1>6. ASSUME NEW c \in Caller, OwnStep(c) PROVE FALSE
  <2>1. caller'[w] = caller[w]
    BY <1>6, OwnMoves DEF OthersStay
  <2> DEFINE Idle == buffer[p].at = "cached" /\ buffer'[p].domain = buffer[p].domain
  <2>2. Close(c) => Idle
    BY CloseMoves DEF Existing
  <2>3. (\E n \in Sizes : ReadGeneration(c, n)) \/ PrepareAllocation(c) => Idle
    BY ReadGenerationMoves, PrepareAllocationMoves
  <2>4. AcquireCachedBuffer(c) => Idle
    <3> SUFFICES ASSUME AcquireCachedBuffer(c) PROVE Idle
      OBVIOUS
    <3>1. PICK taken \in SUBSET Fitting(c), dropped \in SUBSET Fitting(c) :
            Acquired(c, taken, dropped)
      BY AcquireMoves
    <3>2. p \notin dropped /\ p \notin taken
      BY <3>1 DEF Acquired, NoBuffer
    <3>3. QED
      BY <3>1, <3>2 DEF Acquired
  <2>5. AllocateDeviceMemory(c) => Idle
    BY AllocateMoves DEF NewBuffer
  <2>6. (\E x \in Pointer : Submit(c, x) \/ Synchronize(c, x)) \/ StreamCompletes(c) => Idle
    BY SubmitMoves, SynchronizeMoves, StreamCompletesMoves DEF BufferStays, Existing
  <2>7. CacheCompletedBuffer(c) => Idle
    <3> SUFFICES ASSUME CacheCompletedBuffer(c) PROVE Idle
      OBVIOUS
    <3>1. CASE buffer'[p] = buffer[p]
      BY <3>1
    <3>2. CASE buffer'[p] # buffer[p]
      <4>1. MayCache(p) /\ buffer'[p].domain = buffer[p].domain
        BY <3>2, CacheMoves
      <4>2. queue[caller[w].domain] = <<>> /\ caller[w].at = "asleep"
        BY <2>1, <4>1 DEF MayCache
      <4>3. caller[w].domain \in Domain
        BY <4>2, CallerFields DEF Types
      <4>4. w \in Members(queue[caller[w].domain])
        BY <4>2, <4>3 DEF WaitersQueued, Waits
      <4>5. QED
        BY <4>2, <4>4 DEF Members
    <3>3. QED
      BY <3>1, <3>2
  <2>8. FreeDeviceMemory(c) => Idle
    BY FreeMoves DEF Existing
  <2>9. ResetTicket(c) => Idle
    BY ResetMoves DEF NoBuffer
  <2>10. Idle
    BY <1>6, <2>2, <2>3, <2>4, <2>5, <2>6, <2>7, <2>8, <2>9, Zenon DEF OwnStep
  <2>11. QED
    BY <1>1, <2>1, <2>10
<1>7. CASE UNCHANGED vars
  BY <1>1, <1>7 DEF vars
<1>8. QED
  BY <1>2, <1>3, <1>4, <1>5, <1>6, <1>7, NextCases

(* The bytes of a set of buffers, as a sum over it *)
Held(b, S) == SumOver([p \in S |-> b[p].bytes], S)

(* BytesOf as a sum over the buffers of a state. *)
LEMMA BytesAreHeld ==
  ASSUME NEW S
  PROVE  BytesOf(S) = Held(buffer, S) /\ BytesOf(S)' = Held(buffer', S)
BY DEF BytesOf, Held, SumOver, SumFunction

(* The bytes of a set of buffers are a number. *)
LEMMA HeldType ==
  ASSUME NEW b, NEW S, S \subseteq Pointer, \A p \in S : b[p].bytes \in Nat
  PROVE  IsFiniteSet(S) /\ Held(b, S) \in Nat
<1>1. IsFiniteSet(S)
  BY ActorsAssumption, FS_Subset
<1>2. QED
  BY <1>1, SumType DEF Held

(* Buffers that go free bytes, those that stay keep theirs. *)
LEMMA HeldShrinks ==
  ASSUME NEW b, NEW S, S \subseteq Pointer, \A p \in S : b[p].bytes \in Nat,
         NEW a, NEW T, T \subseteq S, \A p \in T : a[p].bytes = b[p].bytes
  PROVE  /\ Held(a, T) \in Nat /\ Held(b, S) \in Nat /\ Held(a, T) <= Held(b, S)
         /\ T = S => Held(a, T) = Held(b, S)
<1> DEFINE f == [p \in S |-> b[p].bytes]
           g == [p \in T |-> a[p].bytes]
<1>1. IsFiniteSet(S)
  BY HeldType
<1>2. /\ \A p \in S : f[p] \in Nat
      /\ \A p \in T : g[p] \in Nat /\ g[p] <= f[p] /\ g[p] = f[p]
  OBVIOUS
<1> HIDE DEF f, g
<1>3. SumOver(g, T) \in Nat /\ SumOver(f, S) \in Nat /\ SumOver(g, T) <= SumOver(f, S)
  BY <1>1, <1>2, SumMono
<1>4. T = S => SumOver(g, T) = SumOver(f, S)
  BY <1>1, <1>2, SumSame
<1>5. QED
  BY <1>3, <1>4 DEF Held, f, g

(* A buffer more. *)
LEMMA HeldGrows ==
  ASSUME NEW b, NEW S, S \subseteq Pointer, \A p \in S : b[p].bytes \in Nat,
         NEW y, y \notin S, b[y].bytes \in Nat
  PROVE  Held(b, S) \in Nat /\ Held(b, S \cup {y}) = Held(b, S) + b[y].bytes
<1> DEFINE f == [p \in S |-> b[p].bytes]
           g == [p \in S \cup {y} |-> b[p].bytes]
<1>1. IsFiniteSet(S)
  BY HeldType
<1>2. /\ \A p \in S : f[p] \in Nat /\ g[p] = f[p]
      /\ g[y] = b[y].bytes
  OBVIOUS
<1> HIDE DEF f, g
<1>3. SumOver(g, S \cup {y}) = SumOver(g, S) + g[y]
  BY <1>1, <1>2, SumAdd
<1>4. SumOver(g, S) = SumOver(f, S) /\ SumOver(f, S) \in Nat
  BY <1>1, <1>2, SumSame, SumType
<1>5. QED
  BY <1>2, <1>3, <1>4 DEF Held, f, g

(* The bytes of two disjoint sets. *)
LEMMA HeldSplits ==
  ASSUME NEW b, NEW T, NEW R, T \subseteq Pointer, R \subseteq Pointer, T \cap R = {},
         \A p \in T : b[p].bytes \in Nat, \A p \in R : b[p].bytes \in Nat
  PROVE  Held(b, T \cup R) = Held(b, T) + Held(b, R)
<1> DEFINE S == T \cup R
           f == [p \in S |-> b[p].bytes]
           g == [p \in T |-> b[p].bytes]
           h == [p \in R |-> b[p].bytes]
<1>0. R = S \ T /\ T \in SUBSET S
  OBVIOUS
<1>1. IsFiniteSet(S) /\ IsFiniteSet(T) /\ IsFiniteSet(R)
  BY HeldType
<1>2. /\ \A p \in S : f[p] \in Nat
      /\ \A p \in T : f[p] = g[p]
      /\ \A p \in R : f[p] = h[p]
  OBVIOUS
<1> HIDE DEF f, g, h, S
<1>3. SumOver(f, S) = SumOver(f, T) + SumOver(f, R)
  <2>1. SumOver(f, S) = SumOver(f, T) + SumOver(f, S \ T)
    BY <1>0, <1>1, <1>2, SumSplit
  <2>2. QED
    BY <1>0, <2>1
<1>4. SumOver(f, T) = SumOver(g, T) /\ SumOver(f, R) = SumOver(h, R)
  BY <1>1, <1>2, SumSame
<1>5. QED
  BY <1>3, <1>4 DEF Held, f, g, h, S

(* A buffer that exists has a size. *)
LEMMA BytesAreNat ==
  ASSUME Types
  PROVE  \A p \in Existing : buffer[p].bytes \in Nat /\ buffer[p].bytes \in Sizes
BY BufferFields, SizesAssumption DEF Types, Existing

(* What a step does to the charges: most steps only release. *)
Remains(p) ==
  buffer'[p].at # "none" =>
    /\ p \in Existing
    /\ buffer'[p].bytes = buffer[p].bytes /\ buffer'[p].domain = buffer[p].domain
    /\ buffer'[p].backed => buffer[p].backed

TicketKept(p) == buffer'[p].at # "none" => buffer'[p].owner = buffer[p].owner

Pays(x) ==
  x \in Admitted' =>
    /\ x \in Admitted
    /\ caller'[x].domain = caller[x].domain /\ caller'[x].capacity = caller[x].capacity
    /\ Pending(x)' <= Pending(x)

Releases == /\ \A p \in Pointer : Remains(p) /\ TicketKept(p)
            /\ \A x \in Caller : Pays(x)

(* An envelope opens. *)
Opens(c) ==
  /\ buffer' = buffer /\ OthersStay(c)
  /\ c \notin Admitted /\ c \in Admitted' /\ Pending(c)' = 0
  /\ caller'[c].domain \in Domain /\ caller'[c].capacity \in Sizes
  /\ Committed(caller'[c].domain) + caller'[c].capacity <= LimitBytes

(* It admits a new ticket. *)
Charges(c) ==
  /\ buffer' = buffer /\ OthersStay(c)
  /\ c \in Admitted /\ c \in Admitted' /\ HasRoom(c)
  /\ Pending(c) = 0 /\ Pending(c)' = caller[c].want
  /\ caller'[c].domain = caller[c].domain /\ caller'[c].capacity = caller[c].capacity

(* The pending ticket of c becomes the buffer p. *)
Owns(c, p) ==
  /\ p \notin Existing /\ NewBuffer(c, p) /\ \A x \in Pointer \ {p} : buffer'[x] = buffer[x]
  /\ OthersStay(c)
  /\ c \in Admitted /\ c \in Admitted' /\ Pending(c) = caller[c].want /\ Pending(c)' = 0
  /\ caller'[c].domain = caller[c].domain /\ caller'[c].capacity = caller[c].capacity
  /\ caller[c].want \in Sizes /\ caller[c].want <= FreeBytes

(* A lookup reuses a ticket that exists. *)
Reuses(c) ==
  /\ \A p \in Pointer : Remains(p)
  /\ \A x \in Caller : Pays(x)
  /\ c \in Admitted /\ c \in Admitted' /\ Pending(c) = 0 /\ caller[c].want \in Sizes
  /\ \/ \A p \in Pointer : TicketKept(p)
     \/ \E q \in Existing : /\ HasRoom(c) /\ buffer[q].bytes = caller[c].want
                            /\ buffer'[q].owner = c
                            /\ \A p \in Pointer \ {q} : TicketKept(p)

Effect ==
  \/ Releases
  \/ \E c \in Caller : Opens(c) \/ Close(c) \/ Charges(c) \/ Reuses(c)
  \/ \E c \in Caller, p \in Pointer : Owns(c, p)

(* What a caller is charged for and has not yet received. *)
LEMMA PendingType ==
  ASSUME Types, NEW x \in Caller
  PROVE  /\ Pending(x) \in Nat
         /\ caller[x].at \in {"malloc", "oom", "retry"} => Pending(x) = caller[x].want
         /\ caller[x].at \notin {"malloc", "oom", "retry"} => Pending(x) = 0
BY CallerFields, SizesAssumption DEF Types, Pending

(* A caller that stays pays what it paid. *)
LEMMA StaysPays ==
  ASSUME Types, NEW x \in Caller, caller'[x] = caller[x]
  PROVE  Pays(x)
<1>1. Pending(x)' = Pending(x) /\ Pending(x) \in Nat
  BY PendingType DEF Pending
<1>2. QED
  BY <1>1 DEF Pays, Admitted

(* So does one that keeps its envelope and its request, or drops the request. *)
LEMMA KeepsPays ==
  ASSUME Types, NEW x \in Caller,
         caller[x].at \notin {"outside", "evicting", "asleep"},
         caller'[x].domain = caller[x].domain, caller'[x].capacity = caller[x].capacity,
         \/ caller'[x].at \notin {"malloc", "oom", "retry"}
         \/ caller[x].at \in {"malloc", "oom", "retry"} /\ caller'[x].want = caller[x].want
  PROVE  Pays(x)
<1>1. Pending(x)' <= Pending(x)
  BY PendingType DEF Pending
<1>2. QED
  BY <1>1 DEF Pays, Admitted

(* A step of one caller that keeps its envelope charges nobody more. *)
LEMMA OneKeepsPays ==
  ASSUME Types, NEW c \in Caller, OthersStay(c),
         caller[c].at \notin {"outside", "evicting", "asleep"},
         caller'[c].domain = caller[c].domain, caller'[c].capacity = caller[c].capacity,
         \/ caller'[c].at \notin {"malloc", "oom", "retry"}
         \/ caller[c].at \in {"malloc", "oom", "retry"} /\ caller'[c].want = caller[c].want
  PROVE  \A x \in Caller : Pays(x)
BY StaysPays, KeepsPays DEF OthersStay

(* An untouched buffer remains. *)
LEMMA SameRemains ==
  ASSUME NEW p \in Pointer, buffer'[p] = buffer[p]
  PROVE  Remains(p) /\ TicketKept(p)
BY DEF Remains, TicketKept, Existing

(* A step of one caller is one of the effects on the ledger. *)
LEMMA OwnEffect ==
  ASSUME Types, DropsLeased, NEW c \in Caller, OwnStep(c)
  PROVE  Effect
<1>1. ASSUME NEW n \in Sizes, ReadGeneration(c, n) PROVE Releases
  <2>1. buffer' = buffer /\ \A x \in Caller : Pays(x)
    BY <1>1, ReadGenerationMoves, OneKeepsPays
  <2>2. QED
    BY <2>1, SameRemains DEF Releases
<1>2. ASSUME AcquireCachedBuffer(c) PROVE Reuses(c)
  <2>1. PICK taken \in SUBSET Fitting(c), dropped \in SUBSET Fitting(c) :
          Acquired(c, taken, dropped)
    BY <1>2, AcquireMoves
  <2>2. /\ caller[c].at = "lookup" /\ caller'[c].at \in {"prepare", "ready"}
        /\ caller[c].want \in Sizes /\ OthersStay(c)
        /\ caller'[c].domain = caller[c].domain /\ caller'[c].capacity = caller[c].capacity
    BY <1>2, <2>1, AcquireMoves DEF Acquired
  <2>3. \A x \in Caller : Pays(x)
    BY <2>2, OneKeepsPays
  <2>4. c \in Admitted /\ c \in Admitted' /\ Pending(c) = 0
    BY <2>2, PendingType DEF Admitted
  <2>5. ASSUME NEW p \in Pointer, p \notin taken PROVE Remains(p) /\ TicketKept(p)
    <3>1. CASE p \in dropped
      BY <2>1, <3>1 DEF Acquired, Remains, TicketKept, NoBuffer
    <3>2. CASE p \notin dropped
      BY <2>1, <2>5, <3>2, SameRemains DEF Acquired
    <3>3. QED
      BY <3>1, <3>2
  <2>6. ASSUME NEW p \in taken PROVE p \in Pointer /\ Remains(p) /\ buffer'[p].owner = c
    <3>1. p \in Pointer /\ p \in Existing
      BY DEF Fitting, Cached, Existing
    <3>2. QED
      BY <2>1, <3>1 DEF Acquired, Remains
  <2>7. \A p \in Pointer : Remains(p)
    BY <2>5, <2>6
  <2>8. CASE taken = {}
    BY <2>2, <2>3, <2>4, <2>5, <2>7, <2>8 DEF Reuses
  <2>9. CASE taken # {}
    <3>1. PICK q \in Fitting(c) : taken = {q} /\ (HasRoom(c) \/ buffer[q].owner = c)
      BY <2>1, <2>9 DEF Acquired
    <3>2. q \in Existing /\ buffer[q].bytes = caller[c].want /\ buffer'[q].owner = c
      BY <2>6, <3>1 DEF Fitting, Cached
    <3>3. \A p \in Pointer \ {q} : TicketKept(p)
      BY <2>5, <3>1
    <3>4. CASE HasRoom(c)
      BY <2>2, <2>3, <2>4, <2>7, <3>2, <3>3, <3>4 DEF Reuses
    <3>5. CASE buffer[q].owner = c
      <4>1. TicketKept(q)
        BY <3>2, <3>5 DEF TicketKept
      <4>2. QED
        BY <2>2, <2>3, <2>4, <2>7, <3>3, <4>1 DEF Reuses
    <3>6. QED
      BY <3>1, <3>4, <3>5
  <2>10. QED
    BY <2>8, <2>9
<1>3. ASSUME PrepareAllocation(c) PROVE Releases \/ Charges(c)
  <2>1. /\ buffer' = buffer /\ OthersStay(c) /\ caller[c].at = "prepare"
        /\ caller'[c].domain = caller[c].domain /\ caller'[c].capacity = caller[c].capacity
        /\ \/ HasRoom(c) /\ caller'[c].at = "malloc" /\ caller'[c].want = caller[c].want
           \/ caller'[c].at = "ready"
    BY <1>3, PrepareAllocationMoves
  <2>2. CASE HasRoom(c) /\ caller'[c].at = "malloc" /\ caller'[c].want = caller[c].want
    <3>1. c \in Admitted /\ c \in Admitted' /\ Pending(c) = 0 /\ Pending(c)' = caller[c].want
      BY <2>1, <2>2 DEF Admitted, Pending
    <3>2. QED
      BY <2>1, <2>2, <3>1 DEF Charges
  <2>3. CASE caller'[c].at = "ready"
    <3>1. \A x \in Caller : Pays(x)
      BY <2>1, <2>3, OneKeepsPays
    <3>2. QED
      BY <2>1, <3>1, SameRemains DEF Releases
  <2>4. QED
    BY <2>1, <2>2, <2>3
<1>4. ASSUME AllocateDeviceMemory(c) PROVE Releases \/ \E p \in Pointer : Owns(c, p)
  <2>1. /\ OthersStay(c) /\ caller[c].at \in {"malloc", "retry"} /\ caller[c].want \in Sizes
        /\ caller'[c].domain = caller[c].domain /\ caller'[c].capacity = caller[c].capacity
        /\ \/ /\ caller[c].want <= FreeBytes /\ caller'[c].at = "ready"
              /\ \E p \in Pointer \ Existing :
                   /\ NewBuffer(c, p)
                   /\ \A x \in Pointer \ {p} : buffer'[x] = buffer[x]
           \/ /\ caller'[c].at = "oom" /\ caller'[c].want = caller[c].want
              /\ buffer' = buffer
           \/ caller'[c].at = "ready" /\ buffer' = buffer
    BY <1>4, AllocateMoves
  <2>2. CASE buffer' = buffer
    <3>1. \A x \in Caller : Pays(x)
      BY <2>1, <2>2, OneKeepsPays
    <3>2. QED
      BY <2>2, <3>1, SameRemains DEF Releases
  <2>3. ASSUME caller[c].want <= FreeBytes, caller'[c].at = "ready",
               NEW p \in Pointer \ Existing, NewBuffer(c, p),
               \A x \in Pointer \ {p} : buffer'[x] = buffer[x]
        PROVE  Owns(c, p)
    <3>1. c \in Admitted /\ c \in Admitted' /\ Pending(c) = caller[c].want /\ Pending(c)' = 0
      BY <2>1, <2>3 DEF Admitted, Pending
    <3>2. QED
      BY <2>1, <2>3, <3>1 DEF Owns
  <2>4. QED
    BY <2>1, <2>2, <2>3
<1>5. ASSUME (\E p \in Pointer : Submit(c, p)) \/ StreamCompletes(c) PROVE Releases
  <2>1. caller' = caller /\ \A p \in Pointer : BufferStays(p)
    BY <1>5, SubmitMoves, StreamCompletesMoves
  <2>2. QED
    BY <2>1, StaysPays DEF Releases, BufferStays, Remains, TicketKept, Existing
<1>6. ASSUME NEW p \in Pointer, Synchronize(c, p) PROVE Releases
  <2>1. \A x \in Caller : Pays(x)
    BY <1>6, SynchronizeMoves, OneKeepsPays
  <2>2. buffer' = buffer \/ \A x \in Pointer : BufferStays(x)
    BY <1>6, SynchronizeMoves
  <2>3. QED
    BY <2>1, <2>2, SameRemains DEF Releases, BufferStays, Remains, TicketKept, Existing
<1>7. ASSUME CacheCompletedBuffer(c) PROVE Releases
  <2>1. \A x \in Caller : Pays(x)
    BY <1>7, CacheMoves, OneKeepsPays
  <2>2. ASSUME NEW p \in Pointer PROVE Remains(p) /\ TicketKept(p)
    <3>1. CASE buffer'[p] = buffer[p]
      BY <3>1, SameRemains
    <3>2. CASE buffer'[p] # buffer[p]
      BY <1>7, <3>2, CacheMoves DEF Remains, TicketKept
    <3>3. QED
      BY <3>1, <3>2
  <2>3. QED
    BY <2>1, <2>2 DEF Releases
<1>8. ASSUME FreeDeviceMemory(c) PROVE Releases
  <2>1. \A x \in Caller : Pays(x)
    BY <1>8, FreeMoves, OneKeepsPays
  <2>2. \A p \in Pointer : Remains(p) /\ TicketKept(p)
    BY <1>8, FreeMoves DEF Remains, TicketKept, Existing
  <2>3. QED
    BY <2>1, <2>2 DEF Releases
<1>9. ASSUME ResetTicket(c) PROVE Releases
  <2>1. \A x \in Caller : Pays(x)
    BY <1>9, ResetMoves, OneKeepsPays
  <2>2. \A p \in Pointer : Remains(p) /\ TicketKept(p)
    BY <1>9, ResetMoves DEF Remains, TicketKept, Existing, NoBuffer
  <2>3. QED
    BY <2>1, <2>2 DEF Releases
<1>10. QED
  BY <1>1, <1>2, <1>3, <1>4, <1>5, <1>6, <1>7, <1>8, <1>9, Zenon DEF OwnStep, Effect

(* So is every step. *)
LEMMA StepEffect ==
  ASSUME Types, WaitersQueued, TrimIsHeld, DropsLeased, [Next]_vars
  PROVE  Effect
<1>1. ASSUME NEW c \in Caller, NEW d \in Domain, NEW n \in Sizes, Reserve(c, d, n)
      PROVE  Effect
  <2>1. /\ OthersStay(c) /\ caller[c].at = "outside" /\ buffer' = buffer
        /\ caller'[c].domain = d /\ caller'[c].capacity = n
        /\ \/ caller'[c].at = "ready" /\ Committed(d) + n <= LimitBytes
           \/ caller'[c].at = "evicting"
    BY <1>1, ReserveMoves
  <2>2. CASE caller'[c].at = "ready" /\ Committed(d) + n <= LimitBytes
    <3>1. c \notin Admitted /\ c \in Admitted' /\ Pending(c)' = 0
      BY <2>1, <2>2 DEF Admitted, Pending
    <3>2. QED
      BY <2>1, <2>2, <3>1 DEF Opens, Effect
  <2>3. CASE caller'[c].at = "evicting"
    <3>1. Pays(c)
      BY <2>3 DEF Pays, Admitted
    <3>2. \A x \in Caller : Pays(x)
      BY <2>1, <3>1, StaysPays DEF OthersStay
    <3>3. QED
      BY <2>1, <3>2, SameRemains DEF Releases, Effect
  <2>4. QED
    BY <2>1, <2>2, <2>3
<1>2. ASSUME NEW c \in Caller, Admit(c) PROVE Effect
  <2>1. /\ OthersStay(c) /\ caller[c].at = "asleep" /\ caller'[c].at = "ready" /\ buffer' = buffer
        /\ caller'[c].domain = caller[c].domain /\ caller'[c].capacity = caller[c].capacity
        /\ caller[c].domain \in Domain /\ caller[c].capacity \in Sizes
        /\ Committed(caller[c].domain) + caller[c].capacity <= LimitBytes
    BY <1>2, AdmitMoves
  <2>2. c \notin Admitted /\ c \in Admitted' /\ Pending(c)' = 0
    BY <2>1 DEF Admitted, Pending
  <2>3. QED
    BY <2>1, <2>2 DEF Opens, Effect
<1>3. ASSUME NEW c \in Caller, OwnStep(c) PROVE Effect
  BY <1>3, OwnEffect
<1>4. CASE TrimStarts
  <2>1. ASSUME NEW x \in Caller PROVE Pays(x)
    <3>1. CallerKept(x)
      BY <1>4, TrimStartsMoves
    <3>2. CASE caller[x].at \in {"outside", "evicting", "asleep"}
      BY <3>1, <3>2 DEF CallerKept, Pays, Admitted
    <3>3. CASE caller[x].at \notin {"outside", "evicting", "asleep"}
      BY <3>1, <3>3, KeepsPays DEF CallerKept, Reads
    <3>4. QED
      BY <3>2, <3>3
  <2>2. \A p \in Pointer : Remains(p) /\ TicketKept(p)
    BY <1>4, TrimStartsMoves DEF Remains, TicketKept, Existing
  <2>3. QED
    BY <2>1, <2>2 DEF Releases, Effect
<1>5. CASE TrimCompletes \/ TrimFails
  <2>1. PICK ok \in BOOLEAN : TrimReturns(ok)
    BY <1>5, TrimEndsMoves
  <2>2. trim # NoTrim
    BY <1>5, TrimEndsMoves
  <2>3. ASSUME NEW x \in Caller PROVE Pays(x)
    <3>1. CASE x # trim.by
      BY <2>1, <2>2, <3>1, TrimReturnsMoves, StaysPays
    <3>2. CASE x = trim.by
      <4>1. \/ /\ caller[x].at = "oom"
               /\ caller'[x].at \in {"retry", "ready"}
               /\ caller'[x].domain = caller[x].domain
               /\ caller'[x].capacity = caller[x].capacity
               /\ caller'[x].at = "retry" => caller'[x].want = caller[x].want
            \/ caller'[x].at \in {"asleep", "outside"}
        BY <2>1, <2>2, <3>2, TrimReturnsMoves DEF Outside
      <4>2. CASE caller'[x].at \in {"asleep", "outside"}
        BY <4>2 DEF Pays, Admitted
      <4>3. CASE caller[x].at = "oom" /\ caller'[x].at \notin {"asleep", "outside"}
        BY <4>1, <4>3, KeepsPays
      <4>4. QED
        BY <4>1, <4>2, <4>3
    <3>3. QED
      BY <3>1, <3>2
  <2>4. ASSUME NEW p \in Pointer PROVE Remains(p) /\ TicketKept(p)
    <3>1. CASE p \notin trim.released
      BY <1>5, <3>1, SameRemains, TrimEndsMoves
    <3>2. CASE p \in trim.released
      <4>1. buffer[p].at = "cached" /\ trim # NoTrim
        BY <1>5, <3>2, TrimEndsMoves
      <4>2. CASE buffer'[p] = NoBuffer
        BY <4>2 DEF NoBuffer, Remains, TicketKept
      <4>3. CASE TrimFails
        BY <3>2, <4>1, <4>3, TrimFailsMoves DEF Remains, TicketKept, Existing
      <4>4. QED
        BY <1>5, <3>2, <4>2, <4>3, TrimEndsMoves
    <3>3. QED
      BY <3>1, <3>2
  <2>5. QED
    BY <2>3, <2>4 DEF Releases, Effect
<1>6. CASE UNCHANGED vars
  BY <1>6, StaysPays, SameRemains DEF vars, Releases, Effect
<1>7. QED
  BY <1>1, <1>2, <1>3, <1>4, <1>5, <1>6, NextCases

(* What a step leaks was backed, and its buffer is gone; only a step that   *)
(* otherwise releases leaks.                                               *)
Leaks ==
  \/ leaked' = leaked
  \/ /\ \A p \in Pointer : Remains(p)
     /\ \E unfreed \in SUBSET {p \in Existing : buffer[p].backed} :
          /\ leaked' = leaked + BytesOf(unfreed)
          /\ \A p \in unfreed : buffer'[p].at = "none"

LEMMA OwnLeaks ==
  ASSUME Types, DropsLeased, NEW c \in Caller, OwnStep(c)
  PROVE  Leaks
<1>1. ASSUME \/ Close(c) \/ (\E n \in Sizes : ReadGeneration(c, n)) \/ PrepareAllocation(c)
             \/ AllocateDeviceMemory(c) \/ (\E p \in Pointer : Submit(c, p) \/ Synchronize(c, p))
             \/ StreamCompletes(c) \/ CacheCompletedBuffer(c) \/ FreeDeviceMemory(c)
      PROVE  leaked' = leaked
  BY <1>1 DEF Close, ReadGeneration, PrepareAllocation, AllocateDeviceMemory, Submit,
     Synchronize, StreamCompletes, CacheCompletedBuffer, FreeDeviceMemory
<1>2. ASSUME AcquireCachedBuffer(c) PROVE Leaks
  <2>1. PICK taken \in SUBSET Fitting(c), dropped \in SUBSET Fitting(c) :
          Acquired(c, taken, dropped)
    BY <1>2, AcquireMoves
  <2>2. PICK unfreed \in SUBSET {p \in dropped : buffer[p].backed} :
          leaked' = leaked + BytesOf(unfreed)
    BY <2>1 DEF Acquired
  <2>3. dropped \subseteq Existing /\ Existing \subseteq Pointer
    BY DEF Fitting, Cached, Existing
  <2>4. \A p \in unfreed : buffer'[p].at = "none"
    BY <2>1, <2>2, <2>3 DEF Acquired, NoBuffer
  <2>5. \A p \in Pointer : Remains(p)
    <3> SUFFICES ASSUME NEW p \in Pointer PROVE Remains(p)
      OBVIOUS
    <3>1. CASE p \in dropped
      BY <2>1, <3>1 DEF Acquired, Remains, NoBuffer
    <3>2. CASE p \in taken
      BY <2>1, <3>2 DEF Acquired, Remains, Fitting, Cached
    <3>3. CASE p \notin taken \cup dropped
      BY <2>1, <3>3, SameRemains DEF Acquired
    <3>4. QED
      BY <3>1, <3>2, <3>3
  <2>6. QED
    BY <2>2, <2>3, <2>4, <2>5 DEF Leaks
<1>3. ASSUME ResetTicket(c) PROVE Leaks
  <2> DEFINE unfreed == {p \in {caller[c].pointer} : buffer[p].backed}
  <2>1. /\ \A p \in Pointer : Remains(p)
        /\ unfreed \in SUBSET {p \in Existing : buffer[p].backed}
        /\ \A p \in unfreed : buffer'[p].at = "none"
    BY <1>3, ResetMoves DEF Remains, Existing, NoBuffer
  <2>2. leaked' = leaked + BytesOf(unfreed)
    BY <1>3, Zenon DEF ResetTicket
  <2>3. QED
    BY <2>1, <2>2 DEF Leaks
<1>4. QED
  BY <1>1, <1>2, <1>3, Zenon DEF OwnStep, Leaks

LEMMA StepLeaks ==
  ASSUME Types, DropsLeased, [Next]_vars
  PROVE  Leaks
<1>1. ASSUME \/ \E c \in Caller, d \in Domain, n \in Sizes : Reserve(c, d, n)
             \/ \E c \in Caller : Admit(c)
             \/ TrimStarts \/ TrimCompletes \/ TrimFails
             \/ UNCHANGED vars
      PROVE  leaked' = leaked
  BY <1>1 DEF Reserve, Admit, TrimStarts, Evict, TrimForRetry, TrimPreparationCache,
     TrimCompletes, TrimFails, vars
<1>2. QED
  BY <1>1, OwnLeaks, NextCases DEF Leaks

(* The four parts of ChargeCoversBacking that are kept step by step *)
OwnedBy(c) == {p \in Existing : buffer[p].owner = c}
Outlived(d) == {p \in Existing : buffer[p].domain = d /\ buffer[p].owner = "closed"}
Backed == {p \in Existing : buffer[p].backed}

EnvelopesCover == \A c \in Admitted : Charged(c) <= caller[c].capacity
LimitsHold == \A d \in Domain : Committed(d) <= LimitBytes
DeviceFits == leaked \in Nat /\ BytesOf(Backed) + leaked <= DeviceBytes
CacheCounted == cached_bytes = BytesOf(Cached) /\ cached_bytes <= ThresholdBytes

(* What a caller is charged, before and after a step. *)
LEMMA ChargedIs ==
  ASSUME Types, NEW c \in Caller
  PROVE  /\ Charged(c) = Pending(c) + Held(buffer, OwnedBy(c))
         /\ Charged(c)' = Pending(c)' + Held(buffer', OwnedBy(c)')
         /\ Held(buffer, OwnedBy(c)) \in Nat /\ Charged(c) \in Nat
         /\ \A p \in OwnedBy(c) : p \in Pointer /\ p \in Existing /\ buffer[p].bytes \in Nat
<1>1. OwnedBy(c) \subseteq Pointer /\ \A p \in OwnedBy(c) : p \in Existing /\ buffer[p].bytes \in Nat
  BY BytesAreNat DEF OwnedBy, Existing
<1>2. Held(buffer, OwnedBy(c)) \in Nat /\ Pending(c) \in Nat
  BY <1>1, HeldType, PendingType
<1>3. Charged(c) = Pending(c) + BytesOf(OwnedBy(c))
  BY DEF Charged, OwnedBy
<1>4. Charged(c)' = Pending(c)' + BytesOf(OwnedBy(c))'
  BY DEF Charged, OwnedBy
<1>5. BytesOf(OwnedBy(c))' = Held(buffer', OwnedBy(c)')
  BY DEF BytesOf, Held, SumOver, SumFunction
<1>6. BytesOf(OwnedBy(c)) = Held(buffer, OwnedBy(c))
  BY BytesAreHeld
<1>7. QED
  BY <1>1, <1>2, <1>3, <1>4, <1>5, <1>6

(* Capacities of the open envelopes of a domain *)
Capacities(d) == SumOver([c \in Envelopes(d) |-> caller[c].capacity], Envelopes(d))

(* What a domain has committed, before and after a step. *)
LEMMA CommittedIs ==
  ASSUME Types, NEW d
  PROVE  /\ Committed(d) = Capacities(d) + Held(buffer, Outlived(d))
         /\ Committed(d)' = Capacities(d)' + Held(buffer', Outlived(d)')
         /\ Held(buffer, Outlived(d)) \in Nat /\ Capacities(d) \in Nat
         /\ IsFiniteSet(Envelopes(d))
         /\ \A c \in Envelopes(d) : c \in Caller /\ caller[c].capacity \in Nat
         /\ Outlived(d) \subseteq Pointer
         /\ \A p \in Outlived(d) : p \in Existing /\ buffer[p].bytes \in Nat
<1>1. Outlived(d) \subseteq Pointer /\ \A p \in Outlived(d) : p \in Existing /\ buffer[p].bytes \in Nat
  BY BytesAreNat DEF Outlived, Existing
<1>2. Held(buffer, Outlived(d)) \in Nat
  BY <1>1, HeldType
<1>3. Envelopes(d) \subseteq Caller /\ \A c \in Envelopes(d) : caller[c].capacity \in Nat
  BY CallerFields, SizesAssumption DEF Types, Envelopes, Admitted
<1>4. IsFiniteSet(Envelopes(d))
  BY <1>3, ActorsAssumption, FS_Subset
<1>5. Capacities(d) \in Nat
  BY <1>3, <1>4, SumType DEF Capacities
<1>6. Committed(d) = Capacities(d) + BytesOf(Outlived(d))
  BY DEF Committed, Capacities, Outlived, SumOver, SumFunction
<1>7. Committed(d)' = Capacities(d)' + BytesOf(Outlived(d))'
  BY DEF Committed, Capacities, Outlived, SumOver, SumFunction
<1>8. BytesOf(Outlived(d))' = Held(buffer', Outlived(d)')
  BY DEF BytesOf, Held, SumOver, SumFunction
<1>9. BytesOf(Outlived(d)) = Held(buffer, Outlived(d))
  BY BytesAreHeld
<1>10. QED
  BY <1>1, <1>2, <1>3, <1>4, <1>5, <1>6, <1>7, <1>8, <1>9

(* The tickets of a caller, when none is new *)
LEMMA OwnedShrinks ==
  ASSUME Types, NEW x \in Caller, \A p \in Pointer : Remains(p),
         \A p \in OwnedBy(x)' : buffer[p].owner = x
  PROVE  Held(buffer', OwnedBy(x)') \in Nat
         /\ Held(buffer', OwnedBy(x)') <= Held(buffer, OwnedBy(x))
<1>1. OwnedBy(x)' \subseteq OwnedBy(x)
  BY DEF OwnedBy, Existing, Remains
<1>2. \A p \in OwnedBy(x)' : buffer'[p].bytes = buffer[p].bytes
  BY DEF OwnedBy, Existing, Remains
<1>3. OwnedBy(x) \subseteq Pointer /\ \A p \in OwnedBy(x) : buffer[p].bytes \in Nat
  BY ChargedIs
<1>4. QED
  BY <1>1, <1>2, <1>3, HeldShrinks

(* A caller charged no more for no more buffers stays within its envelope. *)
LEMMA PaysCovered ==
  ASSUME Types, Types', EnvelopesCover, NEW x \in Caller, x \in Admitted', Pays(x),
         Held(buffer', OwnedBy(x)') \in Nat, Held(buffer', OwnedBy(x)') <= Held(buffer, OwnedBy(x))
  PROVE  Charged(x)' <= caller'[x].capacity
<1>1. /\ Charged(x) <= caller[x].capacity /\ caller'[x].capacity = caller[x].capacity
      /\ Pending(x)' <= Pending(x) /\ Pending(x) \in Nat
  BY PendingType DEF Pays, EnvelopesCover
<1>2. Pending(x)' \in Nat
  BY SizesAssumption, CallerFields DEF Types, Pending
<1>3. caller[x].capacity \in Nat
  BY CallerFields, SizesAssumption DEF Types, Pays, Admitted
<1>4. QED
  BY <1>1, <1>2, <1>3, ChargedIs

(* What is charged to an envelope stays within it. *)
LEMMA EnvelopesCoverStep ==
  ASSUME Types, Types', OwnersAdmitted, EnvelopesCover, Effect
  PROVE  EnvelopesCover'
<1> SUFFICES ASSUME NEW x \in Caller, x \in Admitted' PROVE Charged(x)' <= caller'[x].capacity
  BY DEF EnvelopesCover, Admitted
<1>0. /\ caller'[x].capacity \in Nat /\ Pending(x)' \in Nat
  BY SizesAssumption, CallerFields DEF Types, Admitted, Pending
<1>a. x \notin {"closed"}
  BY ActorsAssumption
<1>1. CASE Releases
  <2>1. \A p \in OwnedBy(x)' : buffer[p].owner = x
    BY <1>1 DEF Releases, OwnedBy, Existing, TicketKept
  <2>2. QED
    BY <1>1, <2>1, OwnedShrinks, PaysCovered DEF Releases
<1>2. ASSUME NEW c \in Caller, Opens(c) PROVE Charged(x)' <= caller'[x].capacity
  <2>1. CASE x = c
    <3>1. OwnedBy(c)' = {}
      <4>1. \A p \in Existing : buffer[p].owner # c
        BY <1>2, ActorsAssumption DEF OwnersAdmitted, Opens
      <4>2. QED
        BY <1>2, <4>1 DEF OwnedBy, Opens, Existing
    <3>2. Held(buffer', {}) = 0
      BY SumEmpty DEF Held
    <3>3. QED
      BY <1>0, <1>2, <2>1, <3>1, <3>2, ChargedIs DEF Opens
  <2>2. CASE x # c
    <3>1. Pays(x) /\ \A p \in Pointer : Remains(p)
      BY <1>2, <2>2, StaysPays, SameRemains DEF Opens, OthersStay
    <3>2. \A p \in OwnedBy(x)' : buffer[p].owner = x
      BY <1>2 DEF OwnedBy, Opens
    <3>3. QED
      BY <3>1, <3>2, OwnedShrinks, PaysCovered
  <2>3. QED
    BY <2>1, <2>2
<1>3. ASSUME NEW c \in Caller, Close(c) PROVE Charged(x)' <= caller'[x].capacity
  <2>1. OthersStay(c) /\ x # c
    BY <1>3, CloseMoves DEF Admitted, Outside
  <2>2. Pays(x) /\ \A p \in Pointer : Remains(p)
    BY <1>3, <2>1, StaysPays, CloseMoves DEF OthersStay, Remains, Existing
  <2>3. \A p \in OwnedBy(x)' : buffer[p].owner = x
    BY <1>3, <1>a, CloseMoves DEF OwnedBy, Existing
  <2>4. QED
    BY <2>2, <2>3, OwnedShrinks, PaysCovered
<1>4. ASSUME NEW c \in Caller, Charges(c) PROVE Charged(x)' <= caller'[x].capacity
  <2>1. OwnedBy(x)' = OwnedBy(x) /\ buffer' = buffer /\ \A p \in Pointer : Remains(p)
    BY <1>4, SameRemains DEF Charges, OwnedBy, Existing
  <2>2. CASE x = c
    <3>1. /\ caller[c].want <= caller[c].capacity - Charged(c) /\ Pending(c) = 0
          /\ Pending(c)' = caller[c].want /\ caller'[c].capacity = caller[c].capacity
      BY <1>4 DEF Charges, HasRoom
    <3>2. Charged(c) = Held(buffer, OwnedBy(c)) /\ Charged(c) \in Nat
      BY <3>1, ChargedIs
    <3>3. Charged(c)' = caller[c].want + Charged(c)
      BY <2>1, <2>2, <3>1, <3>2, ChargedIs
    <3>4. QED
      BY <1>0, <2>2, <3>1, <3>2, <3>3
  <2>3. CASE x # c
    <3>1. Pays(x) /\ \A p \in OwnedBy(x)' : buffer[p].owner = x
      BY <1>4, <2>1, <2>3, StaysPays DEF Charges, OthersStay, OwnedBy
    <3>2. QED
      BY <2>1, <3>1, OwnedShrinks, PaysCovered
  <2>4. QED
    BY <2>2, <2>3
<1>5. ASSUME NEW c \in Caller, NEW p \in Pointer, Owns(c, p)
      PROVE  Charged(x)' <= caller'[x].capacity
  <2>1. CASE x = c
    <3>1. /\ p \notin OwnedBy(c) /\ OwnedBy(c)' = OwnedBy(c) \cup {p}
          /\ \A q \in OwnedBy(c) : buffer'[q].bytes = buffer[q].bytes
          /\ buffer'[p].bytes = caller[c].want
      BY <1>5 DEF Owns, OwnedBy, NewBuffer, Existing
    <3>2. /\ caller[c].want \in Nat /\ Pending(c) = caller[c].want /\ Pending(c)' = 0
          /\ caller'[c].capacity = caller[c].capacity /\ Charged(c) <= caller[c].capacity
      BY <1>5, SizesAssumption DEF Owns, EnvelopesCover
    <3>3. OwnedBy(c) \subseteq Pointer /\ \A q \in OwnedBy(c) : buffer[q].bytes \in Nat
      BY ChargedIs
    <3> DEFINE mine == OwnedBy(c)
               more == Held(buffer', mine \cup {p})
    <3>4. Held(buffer, mine) \in Nat /\ more = Held(buffer, mine) + caller[c].want
      <4>1. mine \subseteq Pointer /\ p \notin mine /\ buffer'[p].bytes \in Nat
        BY <3>1, <3>2, <3>3
      <4>2. \A q \in mine : buffer[q].bytes \in Nat /\ buffer'[q].bytes = buffer[q].bytes
        BY <3>1, <3>3
      <4> HIDE DEF mine
      <4>3. Held(buffer', mine) = Held(buffer, mine) /\ Held(buffer, mine) \in Nat
        BY <4>1, <4>2, HeldShrinks
      <4>4. \A q \in mine : buffer'[q].bytes \in Nat
        BY <4>2
      <4>5. Held(buffer', mine \cup {p}) = Held(buffer', mine) + buffer'[p].bytes
        BY <4>1, <4>4, HeldGrows
      <4>6. QED
        BY <3>1, <4>3, <4>5
    <3>5. Charged(c)' = Held(buffer, OwnedBy(c)) + caller[c].want
      <4>1. Charged(c)' = Pending(c)' + more
        BY <3>1, ChargedIs
      <4>2. Charged(c)' = 0 + more
        BY <3>2, <4>1
      <4> HIDE DEF more
      <4>3. QED
        BY <3>2, <3>4, <4>2
    <3>6. Charged(c) = caller[c].want + Held(buffer, OwnedBy(c))
      BY <3>2, ChargedIs
    <3>7. QED
      BY <2>1, <3>2, <3>4, <3>5, <3>6
  <2>2. CASE x # c
    <3>1. \A q \in OwnedBy(x)' : q # p /\ buffer'[q] = buffer[q]
      BY <1>5, <2>2 DEF Owns, OwnedBy, NewBuffer, Existing
    <3>2. OwnedBy(x)' \subseteq OwnedBy(x) /\ \A q \in OwnedBy(x)' : buffer'[q].bytes = buffer[q].bytes
      BY <3>1 DEF OwnedBy, Existing
    <3>3. OwnedBy(x) \subseteq Pointer /\ \A q \in OwnedBy(x) : buffer[q].bytes \in Nat
      BY ChargedIs
    <3>4. Held(buffer', OwnedBy(x)') \in Nat /\ Held(buffer', OwnedBy(x)') <= Held(buffer, OwnedBy(x))
      BY <3>2, <3>3, HeldShrinks
    <3>5. Pays(x)
      BY <1>5, <2>2, StaysPays DEF Owns, OthersStay
    <3>6. QED
      BY <3>4, <3>5, PaysCovered
  <2>3. QED
    BY <2>1, <2>2
<1>6. ASSUME NEW c \in Caller, Reuses(c) PROVE Charged(x)' <= caller'[x].capacity
  <2>1. Pays(x) /\ \A p \in Pointer : Remains(p)
    BY <1>6 DEF Reuses
  <2>2. CASE \A p \in OwnedBy(x)' : buffer[p].owner = x
    BY <2>1, <2>2, OwnedShrinks, PaysCovered
  <2>3. ASSUME NEW r \in OwnedBy(x)', buffer[r].owner # x
        PROVE  Charged(x)' <= caller'[x].capacity
    <3>1. r \in Pointer /\ buffer'[r].at # "none" /\ buffer'[r].owner = x
      BY <2>3 DEF OwnedBy, Existing
    <3>2. ~ TicketKept(r)
      BY <2>3, <3>1 DEF TicketKept
    <3>3. PICK q \in Existing : /\ HasRoom(c) /\ buffer[q].bytes = caller[c].want
                                /\ buffer'[q].owner = c
                                /\ \A p \in Pointer \ {q} : TicketKept(p)
      BY <1>6, <3>1, <3>2 DEF Reuses
    <3>4. q = r /\ x = c /\ buffer'[r].bytes = caller[c].want
      BY <2>1, <3>1, <3>2, <3>3 DEF Remains
    <3>5. /\ r \notin OwnedBy(c) /\ OwnedBy(c)' \subseteq OwnedBy(c) \cup {r}
          /\ \A p \in OwnedBy(c)' \ {r} : buffer'[p].bytes = buffer[p].bytes
      BY <2>1, <2>3, <3>3, <3>4 DEF OwnedBy, Existing, Remains, TicketKept
    <3> DEFINE rest == OwnedBy(c)' \ {r}
    <3>6. rest \subseteq OwnedBy(c) /\ OwnedBy(c)' = rest \cup {r} /\ r \notin rest
      BY <2>3, <3>4, <3>5
    <3>7. /\ rest \subseteq Pointer
          /\ OwnedBy(c) \subseteq Pointer /\ \A p \in OwnedBy(c) : buffer[p].bytes \in Nat
          /\ \A p \in rest : buffer'[p].bytes = buffer[p].bytes /\ buffer'[p].bytes \in Nat
      BY <3>5, <3>6, ChargedIs
    <3> HIDE DEF rest
    <3>8. /\ Held(buffer', rest) \in Nat /\ Held(buffer, OwnedBy(c)) \in Nat
          /\ Held(buffer', rest) <= Held(buffer, OwnedBy(c))
      BY <3>6, <3>7, HeldShrinks
    <3>9. caller[c].want \in Nat /\ Pending(c) = 0
      BY <1>6, SizesAssumption DEF Reuses
    <3>10. Held(buffer', OwnedBy(c)') = Held(buffer', rest) + caller[c].want
      BY <3>4, <3>6, <3>7, <3>9, HeldGrows
    <3>11. Charged(c) = Held(buffer, OwnedBy(c))
      BY <3>9, ChargedIs
    <3>12. caller'[c].capacity = caller[c].capacity /\ Pending(c)' <= 0
      BY <2>1, <3>4, <3>9 DEF Pays
    <3>13. caller[c].want <= caller[c].capacity - Charged(c)
      BY <3>3 DEF HasRoom
    <3>14. Charged(c)' = Held(buffer', rest) + caller[c].want
      BY <1>0, <3>4, <3>8, <3>9, <3>10, <3>12, ChargedIs
    <3>15. QED
      BY <1>0, <3>4, <3>8, <3>9, <3>11, <3>12, <3>13, <3>14
  <2>4. QED
    BY <2>2, <2>3
<1>7. QED
  BY <1>1, <1>2, <1>3, <1>4, <1>5, <1>6 DEF Effect

(* Fewer envelopes, unchanged, hold no more. *)
LEMMA CapacitiesShrink ==
  ASSUME NEW E, IsFiniteSet(E), NEW f, \A c \in E : f[c] \in Nat,
         NEW D, D \subseteq E, NEW g, \A c \in D : g[c] = f[c]
  PROVE  /\ SumOver(g, D) \in Nat /\ SumOver(f, E) \in Nat /\ SumOver(g, D) <= SumOver(f, E)
BY SumMono

(* A domain that opens no envelope, and whose outlived tickets only go, commits less. *)
LEMMA CommitShrinks ==
  ASSUME Types, NEW d, Envelopes(d)' \subseteq Envelopes(d),
         \A c \in Envelopes(d)' : caller'[c].capacity = caller[c].capacity,
         Outlived(d)' \subseteq Outlived(d),
         \A p \in Outlived(d)' : buffer'[p].bytes = buffer[p].bytes
  PROVE  Committed(d)' \in Nat /\ Committed(d) \in Nat /\ Committed(d)' <= Committed(d)
<1> DEFINE f == [c \in Envelopes(d) |-> caller[c].capacity]
           D == Envelopes(d)'
           g == [c \in D |-> caller'[c].capacity]
<1>1. /\ \A c \in Envelopes(d) : f[c] \in Nat
      /\ \A c \in D : g[c] = f[c]
      /\ D \subseteq Envelopes(d) /\ IsFiniteSet(Envelopes(d))
  BY CommittedIs
<1>2. Capacities(d) = SumOver(f, Envelopes(d)) /\ Capacities(d)' = SumOver(g, D)
  BY DEF Capacities
<1> HIDE DEF f, g, D
<1>3. Capacities(d)' \in Nat /\ Capacities(d) \in Nat /\ Capacities(d)' <= Capacities(d)
  BY <1>1, <1>2, CapacitiesShrink
<1>4. Outlived(d) \subseteq Pointer /\ \A p \in Outlived(d) : buffer[p].bytes \in Nat
  BY CommittedIs
<1>5. /\ Held(buffer', Outlived(d)') \in Nat /\ Held(buffer, Outlived(d)) \in Nat
      /\ Held(buffer', Outlived(d)') <= Held(buffer, Outlived(d))
  BY <1>4, HeldShrinks
<1>6. QED
  BY <1>3, <1>5, CommittedIs

(* A step that reserves nothing and closes no ticket commits no more. *)
LEMMA CommitKept ==
  ASSUME Types, NEW d, \A p \in Pointer : Remains(p), \A x \in Caller : Pays(x),
         \A p \in Outlived(d)' : buffer[p].owner = "closed"
  PROVE  Committed(d)' \in Nat /\ Committed(d) \in Nat /\ Committed(d)' <= Committed(d)
<1>1. Envelopes(d)' \subseteq Envelopes(d)
  BY DEF Envelopes, Pays, Admitted
<1>2. \A c \in Envelopes(d)' : caller'[c].capacity = caller[c].capacity
  BY DEF Envelopes, Pays, Admitted
<1>3. Outlived(d)' \subseteq Outlived(d)
  BY DEF Outlived, Existing, Remains
<1>4. \A p \in Outlived(d)' : buffer'[p].bytes = buffer[p].bytes
  BY DEF Outlived, Existing, Remains
<1>5. QED
  BY <1>1, <1>2, <1>3, <1>4, CommitShrinks

(* The envelopes, and the tickets that outlived theirs, stay within the limit. *)
LEMMA LimitsHoldStep ==
  ASSUME Types, OwnersAdmitted, EnvelopesCover, LimitsHold, Effect
  PROVE  LimitsHold'
<1> SUFFICES ASSUME NEW d \in Domain PROVE Committed(d)' <= LimitBytes
  BY DEF LimitsHold
<1>0. LimitBytes \in Nat /\ Committed(d) <= LimitBytes /\ Committed(d) \in Nat
  BY BoundsAssumption, CommittedIs DEF LimitsHold
<1>a. "closed" \notin Caller
  BY ActorsAssumption
<1>b. ASSUME Envelopes(d)' = Envelopes(d), buffer' = buffer,
             \A c \in Envelopes(d) : caller'[c].capacity = caller[c].capacity
      PROVE  Committed(d)' <= LimitBytes
  <2>1. Outlived(d)' = Outlived(d) /\ \A p \in Outlived(d)' : buffer'[p].bytes = buffer[p].bytes
    BY <1>b DEF Outlived, Existing
  <2>2. Committed(d)' \in Nat /\ Committed(d)' <= Committed(d)
    BY <1>b, <2>1, CommitShrinks
  <2>3. QED
    BY <1>0, <2>2
<1>1. CASE Releases
  <2>1. \A p \in Outlived(d)' : buffer[p].owner = "closed"
    BY <1>1 DEF Releases, Outlived, Existing, TicketKept
  <2>2. QED
    BY <1>0, <1>1, <2>1, CommitKept DEF Releases
<1>2. ASSUME NEW c \in Caller, Opens(c) PROVE Committed(d)' <= LimitBytes
  <2>1. \A x \in Caller \ {c} : caller'[x] = caller[x]
    BY <1>2 DEF Opens, OthersStay
  <2>2. CASE d # caller'[c].domain
    <3>1. Envelopes(d)' = Envelopes(d)
      BY <1>2, <2>1, <2>2 DEF Envelopes, Admitted, Opens
    <3>2. c \notin Envelopes(d)
      BY <1>2 DEF Envelopes, Opens
    <3>3. \A x \in Envelopes(d) : caller'[x].capacity = caller[x].capacity
      BY <2>1, <3>2, CommittedIs
    <3>4. QED
      BY <1>2, <1>b, <3>1, <3>3 DEF Opens
  <2>3. CASE d = caller'[c].domain
    <3> DEFINE E == Envelopes(d)
               f == [x \in E |-> caller[x].capacity]
               g == [x \in E \cup {c} |-> caller'[x].capacity]
    <3>1. E' = E \cup {c} /\ c \notin E
      BY <1>2, <2>1, <2>3 DEF Envelopes, Admitted, Opens
    <3>2. IsFiniteSet(E) /\ \A x \in E : x \in Caller /\ caller[x].capacity \in Nat
      BY CommittedIs
    <3>3. caller'[c].capacity \in Nat /\ Committed(d) + caller'[c].capacity <= LimitBytes
      BY <1>2, <2>3, SizesAssumption DEF Opens
    <3>4. /\ \A x \in E : f[x] \in Nat /\ g[x] = f[x]
          /\ g[c] = caller'[c].capacity
      BY <2>1, <3>1, <3>2
    <3>5. Capacities(d) = SumOver(f, E)
      BY DEF Capacities
    <3>6. Capacities(d)' = SumOver(g, E \cup {c})
      <4>1. Capacities(d)' = SumOver([x \in E' |-> caller'[x].capacity], E')
        BY DEF Capacities
      <4>2. QED
        BY <3>1, <4>1
    <3>7. Outlived(d)' = Outlived(d) /\ buffer' = buffer
      BY <1>2 DEF Outlived, Existing, Opens
    <3> HIDE DEF f, g, E
    <3>8. SumOver(g, E \cup {c}) = SumOver(g, E) + g[c]
      BY <3>1, <3>2, <3>3, <3>4, SumAdd
    <3>9. SumOver(g, E) = SumOver(f, E)
      BY <3>2, <3>4, SumSame
    <3>10. Committed(d)' = Capacities(d) + caller'[c].capacity + Held(buffer, Outlived(d))
      BY <3>4, <3>5, <3>6, <3>7, <3>8, <3>9, CommittedIs
    <3>11. Committed(d) = Capacities(d) + Held(buffer, Outlived(d))
             /\ Capacities(d) \in Nat /\ Held(buffer, Outlived(d)) \in Nat
      BY CommittedIs
    <3>12. QED
      BY <3>3, <3>10, <3>11
  <2>4. QED
    BY <2>2, <2>3
<1>3. ASSUME NEW c \in Caller, Close(c) PROVE Committed(d)' <= LimitBytes
  <2>1. /\ \A x \in Caller \ {c} : caller'[x] = caller[x]
        /\ caller[c].at = "ready" /\ caller'[c].at = "outside"
        /\ caller[c].capacity \in Nat
    <3>1. /\ OthersStay(c) /\ caller[c].at = "ready" /\ caller'[c] = Outside
          /\ caller[c].capacity \in Sizes
      BY <1>3, CloseMoves
    <3>2. Outside.at = "outside"
      BY DEF Outside
    <3>3. QED
      BY <3>1, <3>2, SizesAssumption DEF OthersStay
  <2>2. \A p \in Pointer : Remains(p)
    BY <1>3, CloseMoves DEF Remains, Existing
  <2>3. CASE d # caller[c].domain
    <3>1. \A p \in Outlived(d)' : buffer[p].owner = "closed"
      <4> SUFFICES ASSUME NEW p \in Outlived(d)', buffer[p].owner # "closed" PROVE FALSE
        OBVIOUS
      <4>1. p \in Pointer /\ p \in Existing /\ buffer[p].domain = d /\ buffer'[p].owner = "closed"
        BY <2>2 DEF Outlived, Existing, Remains
      <4>2. buffer[p].owner = c
        BY <1>3, <4>1, CloseMoves
      <4>3. QED
        BY <1>a, <2>3, <4>1, <4>2 DEF OwnersAdmitted
    <3>2. \A x \in Caller : Pays(x)
      BY <2>1, StaysPays DEF Pays, Admitted
    <3>3. QED
      BY <1>0, <2>2, <3>1, <3>2, CommitKept
  <2>4. CASE d = caller[c].domain
    <3> DEFINE E == Envelopes(d)
               f == [x \in E |-> caller[x].capacity]
               g == [x \in E \ {c} |-> caller'[x].capacity]
               mine == OwnedBy(c)
               old == Outlived(d)
    <3>1. c \in E /\ E' = E \ {c}
      BY <2>1, <2>4 DEF Envelopes, Admitted
    <3>2. IsFiniteSet(E) /\ \A x \in E : x \in Caller /\ caller[x].capacity \in Nat
      BY CommittedIs
    <3>3. /\ \A x \in E : f[x] \in Nat
          /\ \A x \in E \ {c} : g[x] = f[x]
          /\ f[c] = caller[c].capacity
      BY <2>1, <3>1, <3>2
    <3>4. Capacities(d) = SumOver(f, E) /\ Capacities(d)' = SumOver(g, E \ {c})
      <4>1. Capacities(d)' = SumOver([x \in E' |-> caller'[x].capacity], E')
        BY DEF Capacities
      <4>2. QED
        BY <3>1, <4>1 DEF Capacities
    <3>5. /\ old' \subseteq old \cup mine
          /\ \A p \in old' : buffer'[p].bytes = buffer[p].bytes
      BY <1>3, CloseMoves DEF Outlived, OwnedBy, Existing
    <3>6. old \cap mine = {}
      BY <1>a DEF Outlived, OwnedBy
    <3>7. /\ old \subseteq Pointer /\ mine \subseteq Pointer
          /\ \A p \in old \cup mine : buffer[p].bytes \in Nat
      BY CommittedIs, ChargedIs
    <3>8. /\ Committed(d) = Capacities(d) + Held(buffer, old)
          /\ Committed(d)' = Capacities(d)' + Held(buffer', old')
      BY CommittedIs
    <3>9. Held(buffer, mine) <= caller[c].capacity /\ Held(buffer, mine) \in Nat
      <4>1. Charged(c) <= caller[c].capacity
        BY <2>1 DEF EnvelopesCover, Admitted
      <4>2. Charged(c) = 0 + Held(buffer, mine) /\ Held(buffer, mine) \in Nat
        BY <2>1, ChargedIs, PendingType
      <4>3. QED
        BY <4>1, <4>2
    <3>10. Held(buffer', old') \in Nat /\ Held(buffer', old') <= Held(buffer, old \cup mine)
      BY <3>5, <3>7, HeldShrinks
    <3> HIDE DEF f, g, E, mine, old
    <3>11. /\ SumOver(f, E) = f[c] + SumOver(f, E \ {c}) /\ IsFiniteSet(E \ {c})
           /\ SumOver(f, E \ {c}) \in Nat
      BY <3>1, <3>2, <3>3, SumRemove
    <3>12. SumOver(g, E \ {c}) = SumOver(f, E \ {c})
      BY <3>3, <3>11, SumSame
    <3>13. /\ Held(buffer, old \cup mine) = Held(buffer, old) + Held(buffer, mine)
           /\ Held(buffer, old) \in Nat
      <4>1. Held(buffer, old) \in Nat
        BY <3>7, HeldType
      <4>2. \A p \in old : buffer[p].bytes \in Nat
        BY <3>7
      <4>3. \A p \in mine : buffer[p].bytes \in Nat
        BY <3>7
      <4>4. QED
        BY <3>6, <3>7, <4>1, <4>2, <4>3, HeldSplits
    <3>14. Committed(d)' <= Committed(d) /\ Committed(d)' \in Nat
      BY <2>1, <3>3, <3>4, <3>8, <3>9, <3>10, <3>11, <3>12, <3>13
    <3>15. QED
      BY <1>0, <3>14
  <2>5. QED
    BY <2>3, <2>4
<1>4. ASSUME NEW c \in Caller, Charges(c) PROVE Committed(d)' <= LimitBytes
  <2>1. Envelopes(d)' = Envelopes(d)
    BY <1>4 DEF Charges, Envelopes, Admitted, OthersStay
  <2>2. \A x \in Envelopes(d) : caller'[x].capacity = caller[x].capacity
    BY <1>4, CommittedIs DEF Charges, OthersStay
  <2>3. QED
    BY <1>4, <1>b, <2>1, <2>2 DEF Charges
<1>5. ASSUME NEW c \in Caller, NEW p \in Pointer, Owns(c, p) PROVE Committed(d)' <= LimitBytes
  <2>1. Envelopes(d)' = Envelopes(d)
    BY <1>5 DEF Owns, Envelopes, Admitted, OthersStay
  <2>2. \A x \in Envelopes(d)' : caller'[x].capacity = caller[x].capacity
    BY <1>5, <2>1, CommittedIs DEF Owns, OthersStay
  <2>3. \A q \in Outlived(d)' : q # p /\ buffer'[q] = buffer[q]
    BY <1>5, <1>a DEF Owns, NewBuffer, Outlived, Existing
  <2>4. Outlived(d)' \subseteq Outlived(d) /\ \A q \in Outlived(d)' : buffer'[q].bytes = buffer[q].bytes
    BY <2>3 DEF Outlived, Existing
  <2>5. QED
    BY <1>0, <2>1, <2>2, <2>4, CommitShrinks
<1>6. ASSUME NEW c \in Caller, Reuses(c) PROVE Committed(d)' <= LimitBytes
  <2>1. \A q \in Outlived(d)' : buffer[q].owner = "closed"
    BY <1>6, <1>a DEF Reuses, Outlived, Existing, TicketKept
  <2>2. QED
    BY <1>0, <1>6, <2>1, CommitKept DEF Reuses
<1>7. QED
  BY <1>1, <1>2, <1>3, <1>4, <1>5, <1>6 DEF Effect

(* The bytes of the backed buffers, before and after a step. *)
LEMMA BackedIs ==
  ASSUME Types
  PROVE  /\ BytesOf(Backed) = Held(buffer, Backed) /\ BytesOf(Backed)' = Held(buffer', Backed')
         /\ Backed \subseteq Pointer /\ \A p \in Backed : p \in Existing /\ buffer[p].bytes \in Nat
         /\ Held(buffer, Backed) \in Nat
<1>1. Backed \subseteq Pointer /\ \A p \in Backed : p \in Existing /\ buffer[p].bytes \in Nat
  BY BytesAreNat DEF Backed, Existing
<1>2. Held(buffer, Backed) \in Nat
  BY <1>1, HeldType
<1>3. BytesOf(Backed)' = Held(buffer', Backed')
  BY DEF BytesOf, Held, SumOver, SumFunction
<1>4. QED
  BY <1>1, <1>2, <1>3, BytesAreHeld

(* What is backed fits the device. *)
LEMMA DeviceFitsStep ==
  ASSUME Types, DeviceFits, Effect, Leaks
  PROVE  DeviceFits'
<1>0. /\ DeviceBytes \in Nat /\ leaked \in Nat /\ Held(buffer, Backed) \in Nat
      /\ Held(buffer, Backed) + leaked <= DeviceBytes
  BY BoundsAssumption, BackedIs DEF DeviceFits
<1>1. ASSUME \A p \in Pointer : Remains(p) PROVE DeviceFits'
  <2> DEFINE B == Backed'
  <2>1. B \subseteq Backed /\ \A p \in B : buffer'[p].bytes = buffer[p].bytes
    BY <1>1 DEF Backed, Existing, Remains
  <2>2. Held(buffer', B) \in Nat /\ Held(buffer', B) <= Held(buffer, Backed)
    BY <2>1, BackedIs, HeldShrinks
  <2>3. CASE leaked' = leaked
    BY <1>0, <2>2, <2>3, BackedIs DEF DeviceFits
  <2>4. CASE leaked' # leaked
    <3>1. PICK unfreed \in SUBSET Backed : /\ leaked' = leaked + BytesOf(unfreed)
                                           /\ \A p \in unfreed : buffer'[p].at = "none"
      BY <2>4 DEF Leaks, Backed
    <3>2. unfreed \cap B = {}
      BY <3>1 DEF Backed, Existing
    <3>3. \A p \in Backed : p \in Pointer /\ p \in Existing /\ buffer[p].bytes \in Nat
      BY BackedIs
    <3> HIDE DEF B
    <3>4. BytesOf(unfreed) = Held(buffer, unfreed) /\ Held(buffer, unfreed) \in Nat
      BY <3>1, <3>3, BytesAreHeld, HeldType
    <3>5. Held(buffer, B \cup unfreed) = Held(buffer, B) + Held(buffer, unfreed)
      BY <2>1, <3>1, <3>2, <3>3, HeldSplits
    <3>6. Held(buffer, B \cup unfreed) <= Held(buffer, Backed)
      BY <2>1, <3>1, <3>3, HeldShrinks
    <3>7. Held(buffer', B) <= Held(buffer, B) /\ Held(buffer, B) \in Nat
      BY <2>1, <3>3, HeldShrinks, HeldType
    <3>8. Held(buffer', B) + leaked' <= DeviceBytes /\ leaked' \in Nat
      BY <1>0, <2>2, <3>1, <3>4, <3>5, <3>6, <3>7
    <3>9. QED
      BY <3>8, BackedIs DEF DeviceFits, B
  <2>5. QED
    BY <2>3, <2>4
<1>2. CASE Releases
  BY <1>1, <1>2 DEF Releases
<1>3. ASSUME NEW c \in Caller, Opens(c) \/ Close(c) \/ Charges(c) \/ Reuses(c) PROVE DeviceFits'
  <2>1. Close(c) => \A p \in Pointer : Remains(p)
    BY CloseMoves DEF Remains, Existing
  <2>2. QED
    BY <1>1, <1>3, <2>1, SameRemains DEF Opens, Charges, Reuses
<1>4. ASSUME NEW c \in Caller, NEW p \in Pointer, Owns(c, p) PROVE DeviceFits'
  <2> DEFINE B == Backed
  <2>1. p \notin B /\ B' = B \cup {p} /\ \A q \in B : buffer'[q].bytes = buffer[q].bytes
    BY <1>4 DEF Owns, NewBuffer, Backed, Existing
  <2>0. leaked' = leaked
    BY <1>4 DEF Leaks, Owns, NewBuffer, Remains
  <2>2. /\ buffer'[p].bytes = caller[c].want /\ caller[c].want \in Nat
        /\ caller[c].want <= DeviceBytes - leaked - Held(buffer, B)
    <3>1. caller[c].want <= DeviceBytes - leaked - BytesOf(B)
      BY <1>4 DEF Owns, FreeBytes, Backed
    <3>2. QED
      BY <1>4, <3>1, SizesAssumption, BackedIs DEF Owns, NewBuffer
  <2>3. B \subseteq Pointer /\ \A q \in B : buffer[q].bytes \in Nat /\ buffer'[q].bytes \in Nat
    BY <2>1, BackedIs
  <2>4. BytesOf(Backed)' = Held(buffer', B \cup {p})
    BY <2>1, BackedIs
  <2> HIDE DEF B
  <2>5. Held(buffer', B) = Held(buffer, B) /\ Held(buffer, B) \in Nat
    BY <2>1, <2>3, HeldShrinks
  <2>6. Held(buffer', B \cup {p}) = Held(buffer', B) + buffer'[p].bytes
    BY <2>1, <2>2, <2>3, HeldGrows
  <2>7. BytesOf(Backed)' + leaked <= DeviceBytes
    BY <1>0, <2>2, <2>4, <2>5, <2>6
  <2>8. QED
    BY <1>0, <2>0, <2>7 DEF DeviceFits
<1>5. QED
  BY <1>2, <1>3, <1>4 DEF Effect

(* The bytes of the cached buffers, before and after a step. *)
LEMMA CachedIs ==
  ASSUME Types
  PROVE  /\ BytesOf(Cached) = Held(buffer, Cached) /\ BytesOf(Cached)' = Held(buffer', Cached')
         /\ Cached \subseteq Pointer /\ \A p \in Cached : p \in Existing /\ buffer[p].bytes \in Nat
         /\ Held(buffer, Cached) \in Nat
<1>1. Cached \subseteq Pointer /\ \A p \in Cached : p \in Existing /\ buffer[p].bytes \in Nat
  BY BytesAreNat DEF Cached, Existing
<1>2. Held(buffer, Cached) \in Nat
  BY <1>1, HeldType
<1>3. BytesOf(Cached)' = Held(buffer', Cached')
  BY DEF BytesOf, Held, SumOver, SumFunction
<1>4. QED
  BY <1>1, <1>2, <1>3, BytesAreHeld

(* A step that moves nothing in or out of the cache. *)
LEMMA CacheSame ==
  ASSUME Types, CacheCounted, cached_bytes' = cached_bytes,
         \A p \in Pointer : /\ buffer'[p].at = "cached" <=> buffer[p].at = "cached"
                            /\ buffer[p].at = "cached" => buffer'[p].bytes = buffer[p].bytes
  PROVE  CacheCounted'
<1>1. Cached' = Cached /\ \A p \in Cached' : buffer'[p].bytes = buffer[p].bytes
  BY DEF Cached, Existing
<1>2. Held(buffer', Cached') = Held(buffer, Cached)
  BY <1>1, CachedIs, HeldShrinks
<1>3. QED
  BY <1>2, CachedIs DEF CacheCounted

(* A trim counts out what it takes. *)
LEMMA CacheReleases ==
  ASSUME Types, CacheCounted, NEW gone, gone \subseteq Cached,
         cached_bytes' = cached_bytes - BytesOf(gone),
         \A p \in gone : buffer'[p].at # "cached",
         \A p \in Pointer \ gone : buffer'[p] = buffer[p]
  PROVE  CacheCounted'
<1>1. Cached' = Cached \ gone /\ \A p \in Cached' : buffer'[p].bytes = buffer[p].bytes
  BY DEF Cached, Existing
<1> DEFINE C == Cached
           rest == C \ gone
<1>2. C \subseteq Pointer /\ \A p \in C : buffer[p].bytes \in Nat
  BY CachedIs
<1>3. \A p \in rest : buffer'[p].bytes = buffer[p].bytes
  BY <1>1
<1>4. BytesOf(gone) = Held(buffer, gone)
  BY BytesAreHeld
<1>5. BytesOf(Cached)' = Held(buffer', rest)
  BY <1>1, CachedIs
<1>6. cached_bytes = Held(buffer, C) /\ cached_bytes <= ThresholdBytes
  BY CachedIs DEF CacheCounted
<1>7. ThresholdBytes \in Nat
  BY BoundsAssumption
<1> HIDE DEF C
<1>8. /\ Held(buffer, gone) \in Nat /\ Held(buffer, rest) \in Nat
      /\ Held(buffer, C) = Held(buffer, gone) + Held(buffer, rest)
  <2>1. gone \subseteq Pointer /\ rest \subseteq Pointer /\ gone \cap rest = {}
    BY <1>2 DEF C
  <2>2. \A p \in gone : buffer[p].bytes \in Nat
    BY <1>2 DEF C
  <2>3. \A p \in rest : buffer[p].bytes \in Nat
    BY <1>2
  <2>4. C = gone \cup rest
    BY DEF C
  <2> HIDE DEF rest
  <2>5. Held(buffer, gone \cup rest) = Held(buffer, gone) + Held(buffer, rest)
    BY <2>1, <2>2, <2>3, HeldSplits
  <2>6. Held(buffer, gone) \in Nat /\ Held(buffer, rest) \in Nat
    BY <2>1, <2>2, <2>3, HeldType
  <2>7. QED
    BY <2>4, <2>5, <2>6
<1>9. Held(buffer', rest) = Held(buffer, rest)
  <2>1. rest \subseteq Pointer /\ \A p \in rest : buffer[p].bytes \in Nat
    BY <1>2
  <2> HIDE DEF rest
  <2>2. QED
    BY <1>3, <2>1, HeldShrinks
<1> HIDE DEF rest
<1>10. cached_bytes' = BytesOf(Cached)' /\ cached_bytes' <= ThresholdBytes
  BY <1>4, <1>5, <1>6, <1>7, <1>8, <1>9
<1>11. QED
  BY <1>10 DEF CacheCounted

(* The counter of the cache is the bytes of its entries, within the threshold. *)
LEMMA CacheCountedStep ==
  ASSUME Types, WaitersQueued, TrimIsHeld, DropsLeased, CacheCounted, [Next]_vars
  PROVE  CacheCounted'
<1> DEFINE Same == /\ cached_bytes' = cached_bytes
                   /\ \A p \in Pointer :
                        /\ buffer'[p].at = "cached" <=> buffer[p].at = "cached"
                        /\ buffer[p].at = "cached" => buffer'[p].bytes = buffer[p].bytes
<1>1. Same => CacheCounted'
  BY CacheSame
<1>2. ASSUME NEW c \in Caller, NEW d \in Domain, NEW n \in Sizes, Reserve(c, d, n)
      PROVE  Same
  BY <1>2, ReserveMoves
<1>3. ASSUME NEW c \in Caller, Admit(c) PROVE Same
  BY <1>3, AdmitMoves
<1>4. CASE TrimStarts
  BY <1>1, <1>4, TrimStartsMoves
<1>5. CASE TrimFails
  <2>1. cached_bytes' = cached_bytes
    BY <1>5, TrimFailsMoves
  <2>2. ASSUME NEW p \in Pointer
        PROVE  buffer'[p].at = buffer[p].at
                 /\ (buffer[p].at = "cached" => buffer'[p].bytes = buffer[p].bytes)
    BY <1>5, TrimFailsMoves
  <2>3. QED
    BY <1>1, <2>1, <2>2
<1>6. CASE TrimCompletes
  <2>1. /\ cached_bytes' = cached_bytes - BytesOf(trim.released)
        /\ \A p \in Pointer : buffer'[p] = IF p \in trim.released THEN NoBuffer ELSE buffer[p]
        /\ trim # NoTrim
    BY <1>6, TrimCompletesMoves
  <2>2. trim.released \subseteq Pointer
    BY <2>1 DEF Types, Trims
  <2>3. trim.released \subseteq Cached
    BY <2>1, <2>2 DEF TrimIsHeld, Cached, Existing
  <2>4. \A p \in trim.released : buffer'[p].at # "cached"
    BY <2>1, <2>2 DEF NoBuffer
  <2>5. \A p \in Pointer \ trim.released : buffer'[p] = buffer[p]
    BY <2>1
  <2>6. QED
    BY <2>1, <2>3, <2>4, <2>5, CacheReleases
<1>7. ASSUME NEW c \in Caller, OwnStep(c) PROVE CacheCounted'
  <2>1. Close(c) => Same
    BY CloseMoves DEF Existing
  <2>2. (\E n \in Sizes : ReadGeneration(c, n)) \/ PrepareAllocation(c) => Same
    BY ReadGenerationMoves, PrepareAllocationMoves
  <2>3. ASSUME AcquireCachedBuffer(c) PROVE CacheCounted'
    <3>1. PICK taken \in SUBSET Fitting(c), dropped \in SUBSET Fitting(c) :
            Acquired(c, taken, dropped)
      BY <2>3, AcquireMoves
    <3> DEFINE gone == taken \cup dropped
    <3>2. gone \subseteq Cached /\ gone \subseteq Pointer
      BY DEF Fitting, Cached, Existing
    <3>3. cached_bytes' = cached_bytes - BytesOf(gone)
      BY <3>1 DEF Acquired
    <3>4. \A p \in gone : buffer'[p].at # "cached"
      BY <3>1, <3>2 DEF Acquired, NoBuffer
    <3>5. \A p \in Pointer \ gone : buffer'[p] = buffer[p]
      BY <3>1 DEF Acquired
    <3> HIDE DEF gone
    <3>6. QED
      BY <3>2, <3>3, <3>4, <3>5, CacheReleases
  <2>4. AllocateDeviceMemory(c) => Same
    BY AllocateMoves DEF NewBuffer, Existing
  <2>5. (\E x \in Pointer : Submit(c, x) \/ Synchronize(c, x)) \/ StreamCompletes(c) => Same
    BY SubmitMoves, SynchronizeMoves, StreamCompletesMoves DEF BufferStays, Existing
  <2>6. ASSUME CacheCompletedBuffer(c) PROVE CacheCounted'
    <3> DEFINE C == Cached
    <3>1. CASE buffer' = buffer /\ cached_bytes' = cached_bytes
      BY <1>1, <3>1
    <3>2. ASSUME NEW p \in Pointer, p = caller[c].pointer, MayCache(p), buffer[p].at = "leased",
                 buffer'[p].at = "cached", buffer'[p].bytes = buffer[p].bytes,
                 \A x \in Pointer \ {p} : buffer'[x] = buffer[x],
                 cached_bytes' = cached_bytes + buffer[p].bytes
          PROVE  CacheCounted'
      <4>1. p \notin C /\ C' = C \cup {p} /\ \A x \in C : buffer'[x].bytes = buffer[x].bytes
        BY <3>2 DEF Cached, Existing
      <4>2. buffer'[p].bytes \in Nat /\ buffer[p].bytes <= ThresholdBytes - cached_bytes
        BY <3>2, BytesAreNat DEF MayCache, Existing
      <4>3. C \subseteq Pointer /\ \A x \in C : buffer[x].bytes \in Nat /\ buffer'[x].bytes \in Nat
        BY <4>1, CachedIs
      <4>4. BytesOf(Cached)' = Held(buffer', C \cup {p})
        BY <4>1, CachedIs
      <4>5. cached_bytes = Held(buffer, C) /\ ThresholdBytes \in Nat
        BY CachedIs, BoundsAssumption DEF CacheCounted
      <4> HIDE DEF C
      <4>6. Held(buffer', C) = Held(buffer, C) /\ Held(buffer, C) \in Nat
        BY <4>1, <4>3, HeldShrinks
      <4>7. Held(buffer', C \cup {p}) = Held(buffer', C) + buffer'[p].bytes
        BY <4>1, <4>2, <4>3, HeldGrows
      <4>8. cached_bytes' = BytesOf(Cached)' /\ cached_bytes' <= ThresholdBytes
        BY <3>2, <4>2, <4>4, <4>5, <4>6, <4>7
      <4>9. QED
        BY <4>8 DEF CacheCounted
    <3>3. caller[c].pointer \in Pointer /\ buffer[caller[c].pointer].at = "leased"
      BY <2>6, CacheMoves DEF DropsLeased, Drops, Existing
    <3>4. QED
      BY <2>6, <3>1, <3>2, <3>3, CacheMoves
  <2>7. FreeDeviceMemory(c) => Same
    BY FreeMoves DEF Existing
  <2>8. ResetTicket(c) => Same
    BY ResetMoves DEF NoBuffer, DropsLeased, Drops
  <2>9. QED
    BY <1>1, <1>7, <2>1, <2>2, <2>3, <2>4, <2>5, <2>6, <2>7, <2>8, Zenon DEF OwnStep
<1>8. CASE UNCHANGED vars
  BY <1>1, <1>8 DEF vars
<1> HIDE DEF Same
<1>9. QED
  BY <1>1, <1>2, <1>3, <1>4, <1>5, <1>6, <1>7, <1>8, NextCases

(* Every backed byte of a domain is charged to one of its open envelopes or    *)
(* to a ticket that outlived its envelope: summed over the owners, the        *)
(* charges stay within what the domain committed.                          *)
LEMMA BackingIsCommitted ==
  ASSUME Types, OwnersAdmitted, EnvelopesCover, NEW d \in Domain
  PROVE  BytesOf({p \in Existing : buffer[p].backed /\ buffer[p].domain = d}) <= Committed(d)
<1> DEFINE live == {p \in Existing : buffer[p].backed /\ buffer[p].domain = d}
           old == Outlived(d)
           T == {p \in Existing : buffer[p].domain = d /\ buffer[p].owner # "closed"}
           E == Envelopes(d)
           f == [p \in T |-> buffer[p].bytes]
           owner == [p \in T |-> buffer[p].owner]
           owned == [c \in E |-> {p \in T : buffer[p].owner = c}]
           part == [c \in E |-> Held(buffer, owned[c])]
           cap == [c \in E |-> caller[c].capacity]
<1>1. /\ T \subseteq Pointer /\ live \subseteq Pointer /\ old \subseteq Pointer
      /\ live \subseteq old \cup T /\ old \cap T = {}
  BY DEF Existing, Outlived
<1>2. \A p \in old \cup T : buffer[p].bytes \in Nat
  BY BytesAreNat DEF Outlived
<1>3. IsFiniteSet(E) /\ \A c \in E : c \in Caller /\ c \in Admitted /\ caller[c].capacity \in Nat
  BY CommittedIs DEF Envelopes
<1>4. \A p \in T : owner[p] \in E
  BY DEF OwnersAdmitted, Envelopes
<1>5. ASSUME NEW c \in E PROVE part[c] \in Nat /\ part[c] <= cap[c]
  <2> DEFINE mine == owned[c]
  <2>1. mine \subseteq OwnedBy(c)
    BY DEF OwnedBy
  <2>2. OwnedBy(c) \subseteq Pointer /\ \A p \in OwnedBy(c) : buffer[p].bytes \in Nat
    BY <1>3, ChargedIs
  <2>3. part[c] = Held(buffer, mine)
    OBVIOUS
  <2> HIDE DEF mine, part
  <2>4. Held(buffer, mine) \in Nat /\ Held(buffer, mine) <= Held(buffer, OwnedBy(c))
    BY <2>1, <2>2, HeldShrinks
  <2>5. /\ Charged(c) = Pending(c) + Held(buffer, OwnedBy(c)) /\ Pending(c) \in Nat
        /\ Held(buffer, OwnedBy(c)) \in Nat /\ Charged(c) <= caller[c].capacity
    BY <1>3, ChargedIs, PendingType DEF EnvelopesCover
  <2>6. QED
    BY <1>3, <2>3, <2>4, <2>5
<1>6. ASSUME NEW c \in E PROVE part[c] = SumOver(f, owned[c])
  <2> DEFINE mine == owned[c]
             g == [p \in mine |-> buffer[p].bytes]
  <2>1. mine \subseteq Pointer /\ \A p \in mine : buffer[p].bytes \in Nat /\ g[p] = f[p]
    BY <1>1, <1>2
  <2>2. IsFiniteSet(mine)
    BY <2>1, HeldType
  <2>3. part[c] = SumOver(g, mine)
    BY DEF Held
  <2> HIDE DEF g, f, mine
  <2>4. SumOver(g, mine) = SumOver(f, mine)
    BY <2>1, <2>2, SumSame
  <2>5. QED
    BY <2>3, <2>4 DEF mine
<1>7. IsFiniteSet(T) /\ \A p \in T : f[p] \in Nat
  BY <1>1, <1>2, HeldType
<1>8. \A c \in E : part[c] \in Nat /\ part[c] <= cap[c] /\ cap[c] \in Nat
  BY <1>3, <1>5
<1>9. Held(buffer, T) = SumOver(f, T)
  BY DEF Held
<1>10. Committed(d) = SumOver(cap, E) + Held(buffer, old)
  BY CommittedIs DEF Capacities
<1>11. BytesOf(live) = Held(buffer, live)
  BY BytesAreHeld
<1>a. \A c \in E : owned[c] \subseteq T /\ \A p \in T : p \in owned[c] <=> owner[p] = c
  OBVIOUS
<1> HIDE DEF f, owner, owned, part, cap, E, T, old, live
<1>12. SumOver(f, T) = SumOver(part, E)
  BY <1>3, <1>4, <1>6, <1>7, <1>a, SumPartition
<1>13. SumOver(part, E) \in Nat /\ SumOver(cap, E) \in Nat /\ SumOver(part, E) <= SumOver(cap, E)
  <2>1. E \in SUBSET E
    OBVIOUS
  <2>2. QED
    BY <1>3, <1>8, <2>1, SumMono
<1> DEFINE all == old \cup T
<1>14. Held(buffer, all) = Held(buffer, old) + Held(buffer, T)
  <2>1. \A p \in old : buffer[p].bytes \in Nat
    BY <1>2
  <2>2. \A p \in T : buffer[p].bytes \in Nat
    BY <1>2
  <2>3. QED
    BY <1>1, <2>1, <2>2, HeldSplits
<1>15. Held(buffer, live) <= Held(buffer, all) /\ Held(buffer, live) \in Nat
  <2>1. all \subseteq Pointer /\ live \subseteq all /\ \A p \in all : buffer[p].bytes \in Nat
    BY <1>1, <1>2
  <2> HIDE DEF all
  <2>2. QED
    BY <2>1, HeldShrinks
<1>16. Held(buffer, old) \in Nat
  BY <1>1, <1>2, HeldType
<1>17. BytesOf(live) <= Committed(d)
  BY <1>9, <1>10, <1>11, <1>12, <1>13, <1>14, <1>15, <1>16
<1>18. QED
  BY <1>17 DEF live

(* The inductive invariant *)
IInv ==
  /\ Types /\ WaitersQueued /\ TrimIsHeld /\ DropsLeased
  /\ CachedAreClean /\ BackedUntilFreed /\ OwnersAdmitted
  /\ EnvelopesCover /\ LimitsHold /\ DeviceFits /\ CacheCounted
  /\ WaiterNotBehindIdle

(* At first nothing is held. *)
LEMMA NothingHeld ==
  ASSUME NEW S, S = {}
  PROVE  BytesOf(S) = 0
BY SumEmpty, BytesAreHeld DEF Held

(* The inductive invariant holds at first, *)
LEMMA InitIInv ==
  ASSUME Init
  PROVE  IInv
<1>1. /\ queue = [d \in Domain |-> <<>>] /\ caller = [c \in Caller |-> Outside]
      /\ buffer = [p \in Pointer |-> NoBuffer]
      /\ cached_bytes = 0 /\ trim = NoTrim /\ lost = FALSE /\ leaked = 0
  BY DEF Init
<1>2. \A c \in Caller : caller[c].at = "outside"
  BY <1>1 DEF Outside
<1>3. Existing = {} /\ Cached = {} /\ Admitted = {}
  BY <1>1, <1>2 DEF Existing, Cached, Admitted, NoBuffer
<1>4. Types
  <2>1. queue \in [Domain -> Seq(Caller)]
    BY <1>1
  <2>2. caller \in [Caller -> CallerStates] /\ buffer \in [Pointer -> BufferStates]
    BY <1>1 DEF CallerStates, BufferStates
  <2>3. QED
    BY <1>1, <2>1, <2>2 DEF Types, Trims
<1>5. WaitersQueued
  BY <1>1, <1>2 DEF WaitersQueued, Waits, Distinct, Members
<1>6. TrimIsHeld /\ DropsLeased
  BY <1>1, <1>2 DEF TrimIsHeld, DropsLeased, Drops
<1>7. CachedAreClean /\ BackedUntilFreed /\ OwnersAdmitted /\ EnvelopesCover /\ WaiterNotBehindIdle
  BY <1>2, <1>3 DEF CachedAreClean, BackedUntilFreed, OwnersAdmitted, EnvelopesCover,
    WaiterNotBehindIdle
<1>9. LimitBytes \in Nat /\ DeviceBytes \in Nat /\ ThresholdBytes \in Nat
  BY BoundsAssumption
<1>10. CacheCounted
  BY <1>1, <1>3, <1>9, NothingHeld DEF CacheCounted
<1>11. DeviceFits
  <2>1. Backed = {}
    BY <1>3 DEF Backed
  <2>2. QED
    BY <1>1, <1>9, <2>1, NothingHeld DEF DeviceFits
<1>12. LimitsHold
  <2> SUFFICES ASSUME NEW d \in Domain PROVE Committed(d) <= LimitBytes
    BY DEF LimitsHold
  <2>1. Envelopes(d) = {} /\ Outlived(d) = {}
    BY <1>3 DEF Envelopes, Outlived
  <2>2. Capacities(d) = 0
    BY <2>1, SumEmpty DEF Capacities
  <2>3. Held(buffer, Outlived(d)) = 0
    BY <2>1, SumEmpty DEF Held
  <2>4. QED
    BY <1>4, <1>9, <2>2, <2>3, CommittedIs
<1>13. QED
  BY <1>4, <1>5, <1>6, <1>7, <1>10, <1>11, <1>12 DEF IInv

(* and every step keeps it. *)
LEMMA StepIInv ==
  ASSUME IInv, [Next]_vars
  PROVE  IInv'
<1> USE DEF IInv
<1>1. Types' /\ WaitersQueued' /\ TrimIsHeld' /\ DropsLeased'
  BY TypesStep, WaitersQueuedStep, TrimIsHeldStep, DropsLeasedStep
<1>2. CachedAreClean' /\ BackedUntilFreed' /\ OwnersAdmitted' /\ WaiterNotBehindIdle'
  BY CachedAreCleanStep, BackedUntilFreedStep, OwnersAdmittedStep, WaiterNotBehindIdleStep
<1>3. Effect /\ Leaks
  BY StepEffect, StepLeaks
<1>4. EnvelopesCover' /\ LimitsHold' /\ DeviceFits'
  BY <1>1, <1>3, EnvelopesCoverStep, LimitsHoldStep, DeviceFitsStep
<1>5. CacheCounted'
  BY CacheCountedStep
<1>6. QED
  BY <1>1, <1>2, <1>4, <1>5

(* The inductive invariant holds in every state: types, who waits and who       *)
(* holds what, and the four parts of the charges.                          *)
THEOREM Invariance == Spec => []IInv
<1>1. Init => IInv
  BY InitIInv
<1>2. IInv /\ [Next]_vars => IInv'
  BY StepIInv
<1>3. QED
  BY <1>1, <1>2, PTL DEF Spec

(* No admission sleeps in Reserve while its domain has a buffer in the cache it  *)
(* could be waiting for (MakeIdle and the eviction of the workflow admission).   *)
THEOREM NoWaiterBehindIdle == Spec => []WaiterNotBehindIdle
<1>1. IInv => WaiterNotBehindIdle
  BY DEF IInv
<1>2. QED
  BY <1>1, Invariance, PTL

(* What AcquireCachedBuffer lends has no work left on it, comes from a lease no  *)
(* trim of its domain overtook, and has its backing unless the device is lost.  *)
THEOREM CachedReusable == Spec => []CachedIsReusable
<1>1. IInv => CachedIsReusable
  <2> SUFFICES ASSUME IInv, NEW p \in Cached
               PROVE  ~buffer[p].busy /\ ~buffer[p].trimmed /\ (buffer[p].backed \/ lost)
    BY DEF CachedIsReusable
  <2>1. p \in Existing /\ buffer[p].at = "cached"
    BY DEF Cached
  <2>2. \A c \in Caller : ~ (caller[c].at = "freed" /\ caller[c].pointer = p)
    BY <2>1 DEF IInv, DropsLeased, Drops
  <2>3. QED
    BY <2>1, <2>2 DEF IInv, CachedAreClean, BackedUntilFreed
<1>2. QED
  BY <1>1, Invariance, PTL

(* Every byte a buffer backs is charged to its domain and within the domain's   *)
(* limit, every envelope covers its tickets, and the device, together with what  *)
(* failed frees have leaked, and the cache's threshold are never exceeded,       *)
(* whatever fails or is retried.  What is leaked is charged to nobody.       *)
THEOREM BackingCharged == Spec => []ChargeCoversBacking
<1>1. IInv => ChargeCoversBacking
  <2> SUFFICES ASSUME IInv PROVE ChargeCoversBacking
    OBVIOUS
  <2>1. /\ Types /\ OwnersAdmitted /\ EnvelopesCover /\ LimitsHold /\ DeviceFits /\ CacheCounted
    BY DEF IInv
  <2>2. \A d \in Domain :
          /\ BytesOf({p \in Existing : buffer[p].backed /\ buffer[p].domain = d}) <= Committed(d)
          /\ Committed(d) <= LimitBytes
    BY <2>1, BackingIsCommitted DEF LimitsHold
  <2>3. \A c \in Admitted : Charged(c) <= caller[c].capacity
    BY <2>1 DEF EnvelopesCover
  <2>4. FreeBytes >= 0
    <3>1. BytesOf(Backed) \in Nat /\ leaked \in Nat /\ BytesOf(Backed) + leaked <= DeviceBytes
      BY <2>1, BackedIs DEF DeviceFits
    <3>2. FreeBytes = DeviceBytes - leaked - BytesOf(Backed) /\ DeviceBytes \in Nat
      BY BoundsAssumption DEF FreeBytes, Backed
    <3>3. QED
      BY <3>1, <3>2
  <2>5. cached_bytes = BytesOf(Cached) /\ cached_bytes <= ThresholdBytes
    BY <2>1 DEF CacheCounted
  <2>6. QED
    BY <2>2, <2>3, <2>4, <2>5 DEF ChargeCoversBacking
<1>2. QED
  BY <1>1, Invariance, PTL

===============================================================================
