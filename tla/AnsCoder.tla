------------------------------ MODULE AnsCoder ------------------------------
(* The ANS entropy coder of ans.cpp: from the counts of one cluster to a    *)
(* normalized histogram, from that to the alias and reverse tables, and     *)
(* from tokens to a stream of bit chunks.  The code's table has 4096 slots  *)
(* and its state 32 bits; both are parameters here.  Symbols, positions and *)
(* slots count from 0 as in the code, populations in a list from 1.         *)
EXTENDS Integers, FiniteSets, FiniteSetsExt, Functions, SequencesExt

CONSTANTS LogTable,       \* kAnsLogTableSize, 12 in the code
          LogAlphas,      \* the alphabet widths searched, 5..8 in the code
          Histograms,     \* the counts enumerated: functions on 0..n
          Log2Of,         \* PopulationLog2Table: log2 of 1..Table, fixed point
          Behind,         \* what is read as populations behind all the lists
          Infinite,       \* the largest int64_t; above every finite score
          ChunkBits,      \* bits moved by a renormalization, 16 in the code
          Signature,      \* kAnsSignature, the decoder's final state
          ExtraWidth,     \* the extra bits that follow each symbol
          MaxTokens       \* bound: tokens of one stream

Pow2[n \in Nat] == IF n = 0 THEN 1 ELSE 2 * Pow2[n - 1]
Table == Pow2[LogTable]
StateBits == 2 * ChunkBits

(* 12 <= 16 and 5..8 in the code, whose signature is 0x13.                  *)
ASSUME SizesAssumption ==
  /\ LogTable \in Nat \ {0} /\ ChunkBits \in Nat /\ LogTable <= ChunkBits
  /\ LogAlphas \subseteq 0..LogTable
  /\ Signature \in 1..(Pow2[ChunkBits] - 1)

(* An alphabet has no more symbols than the table has slots.                *)
ASSUME HistogramsAssumption ==
  \A h \in Histograms :
    /\ IsFiniteSet(DOMAIN h) /\ Cardinality(DOMAIN h) <= Table
    /\ h \in [0..(Cardinality(DOMAIN h) - 1) -> Nat]
    /\ \A s \in DOMAIN h : ExtraWidth[s] \in Nat

(* A logarithm is not negative and does not fall.                           *)
ASSUME Log2OfAssumption ==
  /\ Infinite \in Nat
  /\ Log2Of \in [1..Table -> Nat]
  /\ \A a, b \in 1..Table : a <= b => Log2Of[a] <= Log2Of[b]

(* Whatever lies there: nothing in the code keeps an index off it.          *)
ASSUME BehindAssumption ==
  \A i \in 1..Table :
    Behind[i].count \in Int /\ Behind[i].step \in Nat /\ Behind[i].delta \in Int

VARIABLES phase,    \* where the coder is
          raw,      \* the counts of the cluster
          best,     \* the best candidate: frequencies and the omitted symbol
          shift,    \* the precision RebalanceHistogram works at
          counts,   \* its populations
          bins,     \* symbol -> index of its population among the allowed
          rest,     \* what is left for the omitted symbol
          omit,     \* the omitted (most frequent) symbol
          level,    \* the alias table while its slots are levelled
          tables,   \* alias table, reverse map and offsets
          tokens,   \* what was encoded, first token first
          state,    \* the ANS state
          chunks    \* the chunks emitted, in order; in the end the stream

histogram == <<raw, best, shift, counts, bins, rest, omit>>
coding == <<level, tables, tokens, state, chunks>>
vars == <<phase, histogram, coding>>

Total(f) == SumFunction(f)
Populated(f) == {s \in DOMAIN f : f[s] # 0}
Trimmed(f) == [s \in 0..(IF Populated(f) = {} THEN -1 ELSE Max(Populated(f))) |-> f[s]]
FirstLargest(score) ==
  CHOOSE s \in DOMAIN score : \A t \in DOMAIN score :
    score[s] > score[t] \/ (score[s] = score[t] /\ s <= t)
Ascending(S) ==
  [i \in 1..Cardinality(S) |-> CHOOSE x \in S : Cardinality({y \in S : y < x}) = i - 1]
FloorLog2(n) == CHOOSE k \in 0..LogTable : Pow2[k] <= n /\ n < Pow2[k + 1]

-----------------------------------------------------------------------------
(* NormalizeHistogram, which the code uses for at most two symbols.         *)

(* Takes the excess from the largest frequencies and leaves one of each.    *)
(* Every turn either ends it or leaves one of another symbol.               *)
Reduce(f, excess) ==
  LET taking[n \in Nat] ==
        IF n = 0 THEN [left |-> f, excess |-> excess]
        ELSE LET t == taking[n - 1]
                 s == FirstLargest(t.left)
                 taken == Min({t.excess, t.left[s] - 1})
             IN [left |-> [t.left EXCEPT ![s] = @ - taken], excess |-> t.excess - taken]
  IN taking[Cardinality(DOMAIN f)].left

AtLeastOne(quotient) == Max({quotient, 1})

Normalize(counted) ==
  LET seen == Populated(counted)
      total == Total(counted)
      quotient(s) == (counted[s] * Table) \div total
      remainder(s) == (counted[s] * Table) % total
      scaled == [s \in DOMAIN counted |->
                   IF s \in seen THEN AtLeastOne(quotient(s)) ELSE 0]
      missing == Table - Total(scaled)
      ahead(s) == {t \in seen \ {s} :
                     \/ remainder(t) > remainder(s)
                     \/ (remainder(t) = remainder(s) /\ t < s)}
  IN IF Cardinality(seen) = 1
       THEN [s \in DOMAIN counted |-> IF s \in seen THEN Table ELSE 0]
     ELSE IF missing >= 0
       THEN [s \in DOMAIN counted |->
               scaled[s] + IF s \in seen /\ Cardinality(ahead(s)) < missing THEN 1 ELSE 0]
     ELSE Reduce(scaled, -missing)

-----------------------------------------------------------------------------
(* The populations a histogram can express at a precision.                  *)

PopulationCountPrecision(log, sh) ==
  Max({0, Min({log, sh - ((LogTable - log) \div 2)})})
RoundedDown(count, sh) ==
  IF count = 0 THEN 0
  ELSE LET log == FloorLog2(count)
           step == Pow2[log - PopulationCountPrecision(log, sh)]
       IN count - (count % step)

(* Largest first, ending in 0.                                              *)
AllowedPopulations ==
  [sh \in 0..(LogTable - 1) |->
     Reverse(Ascending({RoundedDown(c, sh) : c \in 0..(Table - 1)}))]

(* The entry of a list at an index: the population, the log of the step     *)
(* from the one before it, and the entropy the step costs.  A list is an    *)
(* array of Table entries, which are zeros behind its last.                 *)
Listed(sh, index) ==
  LET list == AllowedPopulations[sh]
  IN IF index > Len(list) THEN [count |-> 0, step |-> 0, delta |-> 0]
     ELSE IF list[index] = 0 THEN [count |-> 0, step |-> 0, delta |-> Log2Of[Table]]
     ELSE IF index = 1 THEN [count |-> list[1], step |-> 0, delta |-> 0]
     ELSE [count |-> list[index],
           step |-> FloorLog2(list[index - 1] - list[index]),
           delta |-> Log2Of[list[index - 1]] - Log2Of[list[index]]]

(* What an index reads that nothing checks: past its own array it is in the *)
(* array of the next precision, past the last in other memory.              *)
Entry(sh, index) ==
  LET row == sh + (index - 1) \div Table
      column == ((index - 1) % Table) + 1
  IN IF row < LogTable THEN Listed(row, column) ELSE Behind[column]

-----------------------------------------------------------------------------
(* RebalanceHistogram: greedy moves between allowed populations.            *)

Largest == Max(Range(raw))

(* What moving the omitted symbol's population by 2^log costs; nothing may  *)
(* be taken from it when only one is left.  The first step of a list is its *)
(* largest: for a larger one nothing is computed.                           *)
BalanceIncrease(log) ==
  IF log > Entry(shift, 2).step \/ rest >= Table THEN 0
  ELSE IF rest > 1 /\ rest > Pow2[log]
    THEN Largest * (Log2Of[rest] - Log2Of[rest - Pow2[log]])
  ELSE Infinite
BalanceDecrease(log) ==
  IF log > Entry(shift, 2).step \/ rest >= Table THEN 0
  ELSE IF rest > 1
    THEN IF rest + Pow2[log] < Table
           THEN Largest * (Log2Of[rest + Pow2[log]] - Log2Of[rest]) ELSE 0
  ELSE Infinite

IncreaseDelta(s) ==
  LET e == Entry(shift, bins[s]) IN raw[s] * e.delta - BalanceIncrease(e.step)
DecreaseDelta(s) ==
  LET e == Entry(shift, bins[s] + 1) IN raw[s] * e.delta - BalanceDecrease(e.step)

(* The first bin with the largest gain, and with the smallest loss, both    *)
(* scores shifted right by the size of the step.                            *)
BestIncrease ==
  FirstLargest([s \in DOMAIN bins |->
                  IncreaseDelta(s) \div Pow2[Entry(shift, bins[s]).step]])
BestDecrease ==
  FirstLargest([s \in DOMAIN bins |->
                  -(DecreaseDelta(s) \div Pow2[Entry(shift, bins[s] + 1).step])])

(* A larger population that pays for itself, else a smaller one, else none. *)
Gains == bins # <<>> /\ IncreaseDelta(BestIncrease) > 0
Saves == bins # <<>> /\ DecreaseDelta(BestDecrease) < 0

(* A candidate counts only if it leaves out no symbol that occurs; which    *)
(* one has the smallest estimated size is left open.                        *)
Accepts(frequencies) == \A s \in Populated(raw) : frequencies[s] # 0
Consider(candidate) ==
  IF ~Accepts(candidate.frequencies) THEN phase' = "failed" /\ best' = best
  ELSE /\ phase' = "search"
       /\ best' \in {best, candidate}

(* At most two symbols: no search.                                          *)
NormalizeFew ==
  /\ phase = "counted"
  /\ Cardinality(Populated(raw)) <= 2
  /\ best' = [frequencies |-> Normalize(raw), omit |-> 0]
  /\ phase' = "chosen"
  /\ UNCHANGED <<raw, shift, counts, bins, rest, omit, coding>>

ConsiderFlat ==
  /\ phase = "counted"
  /\ Cardinality(Populated(raw)) > 2
  /\ LET n == Cardinality(DOMAIN raw)
     IN best' = [frequencies |-> [s \in DOMAIN raw |->
                                    Table \div n + IF s < Table % n THEN 1 ELSE 0],
                 omit |-> 0]
  /\ phase' = "search"
  /\ UNCHANGED <<raw, shift, counts, bins, rest, omit, coding>>

(* The first approximation: the nearest allowed populations below.          *)
Rounding(s, total) ==
  Min({Table - 1,
       Max({(2 * raw[s] * Table + total) \div (2 * total), IF raw[s] > 0 THEN 1 ELSE 0})})

StartRebalance ==
  /\ phase = "search"
  /\ shift < LogTable - 1
  /\ LET total == Total(raw)
         largest == FirstLargest(raw)
         first == [s \in DOMAIN raw |-> RoundedDown(Rounding(s, total), shift + 1)]
         free == {s \in DOMAIN raw \ {largest} : raw[s] * Table > total}
         list == AllowedPopulations[shift + 1]
     IN /\ counts' = first
        /\ omit' = largest
        /\ rest' = Table - Total(first) + first[largest]
        /\ bins' = [s \in free |-> CHOOSE i \in DOMAIN list : list[i] = first[s]]
  /\ shift' = shift + 1
  /\ phase' = "rebalance"
  /\ UNCHANGED <<raw, best, coding>>

Increase ==
  /\ phase = "rebalance"
  /\ Gains
  /\ LET s == BestIncrease
     IN /\ rest' = rest - Pow2[Entry(shift, bins[s]).step]
        /\ bins' = [bins EXCEPT ![s] = @ - 1]
  /\ UNCHANGED <<phase, raw, best, shift, counts, omit, coding>>

Decrease ==
  /\ phase = "rebalance"
  /\ ~Gains
  /\ Saves
  /\ LET s == BestDecrease
     IN /\ rest' = rest + Pow2[Entry(shift, bins[s] + 1).step]
        /\ bins' = [bins EXCEPT ![s] = @ + 1]
  /\ UNCHANGED <<phase, raw, best, shift, counts, omit, coding>>

(* The omitted symbol takes the rest; an earlier symbol that fills half of  *)
(* the table changes places with it, because a decoder looks for the first  *)
(* largest.  Nothing left for it is a failure, and so is a population that  *)
(* is none; that they fill the table is not checked.                        *)
Settle ==
  LET settled == [s \in DOMAIN raw |->
                    IF s \in DOMAIN bins THEN Entry(shift, bins[s]).count ELSE counts[s]]
      halves == {s \in 0..(omit - 1) : settled[s] >= Table \div 2}
      last == IF bins # <<>> /\ halves # {} THEN Min(halves) ELSE omit
  IN [omit |-> last,
      frequencies |-> [settled EXCEPT ![omit] = settled[last], ![last] = rest]]

EndRebalance ==
  /\ phase = "rebalance"
  /\ ~Gains
  /\ ~Saves
  /\ IF rest <= 0 \/ \E s \in DOMAIN raw : Settle.frequencies[s] \notin 0..Table
       THEN phase' = "failed" /\ best' = best
       ELSE Consider(Settle)
  /\ UNCHANGED <<raw, shift, counts, bins, rest, omit, coding>>

EndSearch ==
  /\ phase = "search"
  /\ shift = LogTable - 1
  /\ phase' = "chosen"
  /\ UNCHANGED <<histogram, coding>>

-----------------------------------------------------------------------------
(* InitializeAliasTable: every slot of 2^logAlpha equal ones holds its own  *)
(* symbol up to a cutoff, and one overfull symbol from there on.            *)

EntrySize(logAlpha) == Pow2[LogTable - logAlpha]
Slots(logAlpha) == 0..(Pow2[logAlpha] - 1)
Filling(frequencies) == {s \in DOMAIN frequencies : frequencies[s] = Table}
Full(frequencies, i) == IF i \in DOMAIN frequencies THEN frequencies[i] ELSE 0

(* A mutant: a slot that is just full still gives.                          *)
OverfullWhenFull(frequency, size) == frequency >= size

Overfull(frequency, size) == frequency > size

(* A symbol that fills the table alone needs no levelling.                  *)
Unlevelled(frequencies, logAlpha) ==
  LET slots == Slots(logAlpha)
      size == EntrySize(logAlpha)
      listed == IF Filling(frequencies) = {} THEN slots ELSE {}
  IN [cutoff |-> [i \in slots |-> Full(frequencies, i)],
      right |-> [i \in slots |-> 0],
      offset |-> [i \in slots |-> 0],
      under |-> Ascending({i \in listed : Full(frequencies, i) < size}),
      over |-> Ascending({i \in listed : Overfull(Full(frequencies, i), size)})]

(* The frequencies must fill the table.                                     *)
StartTables ==
  /\ phase = "chosen"
  /\ \E logAlpha \in LogAlphas :
       /\ Cardinality(DOMAIN best.frequencies) <= Pow2[logAlpha]
       /\ IF best.frequencies = <<>>
            THEN phase' = "coding" /\ UNCHANGED <<level, tables>>
          ELSE IF Total(best.frequencies) # Table
            THEN phase' = "failed" /\ UNCHANGED <<level, tables>>
          ELSE /\ phase' = "level"
               /\ level' = Unlevelled(best.frequencies, logAlpha)
               /\ tables' = [seen |-> Populated(raw), frequencies |-> best.frequencies,
                             logAlpha |-> logAlpha,
                             alias |-> <<>>, offsets |-> <<>>, reverse |-> <<>>]
  /\ raw' = <<>> /\ best' = <<>> /\ shift' = -1 /\ rest' = 0 /\ omit' = 0
  /\ counts' = <<>> /\ bins' = <<>>
  /\ UNCHANGED <<tokens, state, chunks>>

(* Both stacks work from their end.  An overfull symbol gives what the      *)
(* underfull slot misses and goes back on the stack it now belongs to.      *)
Levelled(t, size) ==
  LET o == Last(t.over)
      u == Last(t.under)
      left == t.cutoff[o] - (size - t.cutoff[u])
  IN [cutoff |-> [t.cutoff EXCEPT ![o] = left],
      right |-> [t.right EXCEPT ![u] = o],
      offset |-> [t.offset EXCEPT ![u] = left],
      under |-> Front(t.under) \o (IF left < size THEN <<o>> ELSE <<>>),
      over |-> Front(t.over) \o (IF Overfull(left, size) THEN <<o>> ELSE <<>>)]

Level ==
  /\ phase = "level"
  /\ level.over # <<>>
  /\ IF level.under = <<>>
       THEN phase' = "failed" /\ UNCHANGED level
       ELSE phase' = phase /\ level' = Levelled(level, EntrySize(tables.logAlpha))
  /\ UNCHANGED <<histogram, tables, tokens, state, chunks>>

(* A slot's cutoff, its right symbol and that symbol's offset.              *)
AliasTable(t, frequencies, logAlpha) ==
  LET size == EntrySize(logAlpha)
      slots == Slots(logAlpha)
  IN IF Filling(frequencies) # {}
       THEN [i \in slots |-> [cutoff |-> 0, right |-> Max(Filling(frequencies)),
                              offset |-> size * i]]
       ELSE [i \in slots |->
               IF t.cutoff[i] = size THEN [cutoff |-> 0, right |-> i, offset |-> 0]
               ELSE [cutoff |-> t.cutoff[i], right |-> t.right[i],
                     offset |-> t.offset[i] - t.cutoff[i]]]

(* The symbol and the offset in it that a state's low bits stand for.       *)
Lookup(alias, logAlpha, value) ==
  LET size == EntrySize(logAlpha)
      i == value \div size
      position == value % size
  IN IF position >= alias[i].cutoff
       THEN <<alias[i].right, alias[i].offset + position>>
       ELSE <<i, position>>

(* Every position of the table must stand for a symbol that occurs.         *)
TableFits(alias, frequencies, logAlpha) ==
  \A v \in 0..(Table - 1) :
    LET at == Lookup(alias, logAlpha, v)
    IN at[1] \in DOMAIN frequencies /\ at[2] < frequencies[at[1]]

(* BuildAnsEncoderTables: for each symbol the table positions that stand    *)
(* for it, in the order of their offsets.                                   *)
Start(frequencies, s) == Total([t \in 0..(s - 1) |-> frequencies[t]])
Place(alias, frequencies, logAlpha, v) ==
  LET at == Lookup(alias, logAlpha, v) IN Start(frequencies, at[1]) + at[2]
ReverseMap(alias, frequencies, logAlpha) ==
  [i \in {Place(alias, frequencies, logAlpha, v) : v \in 0..(Table - 1)} |->
     CHOOSE v \in 0..(Table - 1) :
       /\ Place(alias, frequencies, logAlpha, v) = i
       /\ \A w \in (v + 1)..(Table - 1) : Place(alias, frequencies, logAlpha, w) # i]

BuildTables ==
  /\ phase = "level"
  /\ level.over = <<>>
  /\ LET alias == AliasTable(level, tables.frequencies, tables.logAlpha)
     IN IF TableFits(alias, tables.frequencies, tables.logAlpha)
          THEN /\ phase' = "coding"
               /\ tables' = [tables EXCEPT
                    !.alias = alias,
                    !.offsets = [s \in DOMAIN tables.frequencies |->
                                   Start(tables.frequencies, s)],
                    !.reverse = ReverseMap(alias, tables.frequencies, tables.logAlpha)]
          ELSE phase' = "failed" /\ UNCHANGED tables
  /\ level' = <<>>
  /\ UNCHANGED <<histogram, tokens, state, chunks>>

-----------------------------------------------------------------------------
(* ProcessAnsTokenStream: tokens are encoded from the last to the first.    *)

Chunk(bits, value) == [bits |-> bits, value |-> value]

(* AdvanceAnsState divides by a precomputed reciprocal, rounded up, with    *)
(* just the precision that keeps the quotient exact (44 in the code).       *)
ReciprocalUnit == Pow2[StateBits + LogTable]
Reciprocal(frequency) == (ReciprocalUnit + frequency - 1) \div frequency
Quotient(x, frequency) == (x * Reciprocal(frequency)) \div ReciprocalUnit

(* A mutant: the state may reach its limit before bits leave it.            *)
RenormalizeLate(x, frequency) == x \div Pow2[StateBits - LogTable] > frequency

(* Low bits leave the state while the next step would overflow it.          *)
MustRenormalize(x, frequency) == x \div Pow2[StateBits - LogTable] >= frequency

EncodeSymbol(s, extra) ==
  LET frequency == tables.frequencies[s]
      spill == MustRenormalize(state, frequency)
      x == IF spill THEN state \div Pow2[ChunkBits] ELSE state
      q == Quotient(x, frequency)
      slot == tables.reverse[tables.offsets[s] + x - q * frequency]
  IN /\ chunks' = chunks
          \o (IF ExtraWidth[s] # 0 THEN <<Chunk(ExtraWidth[s], extra)>> ELSE <<>>)
          \o (IF spill THEN <<Chunk(ChunkBits, state % Pow2[ChunkBits])>> ELSE <<>>)
     /\ state' = q * Table + slot
     /\ tokens' = <<[symbol |-> s, extra |-> extra]>> \o tokens
     /\ phase' = phase

(* A token of any symbol that was counted; one the histogram left out is an *)
(* error.                                                                   *)
EncodeToken ==
  /\ phase = "coding"
  /\ tables # <<>>
  /\ Len(tokens) < MaxTokens
  /\ \E s \in tables.seen : \E extra \in 0..(Pow2[ExtraWidth[s]] - 1) :
       IF tables.frequencies[s] = 0
         THEN phase' = "failed" /\ UNCHANGED <<tokens, state, chunks>>
         ELSE EncodeSymbol(s, extra)
  /\ UNCHANGED <<histogram, level, tables>>

(* AnsReverseBits::Append: the state, then the chunks from last to first.   *)
Write ==
  /\ phase = "coding"
  /\ chunks' = <<Chunk(StateBits, state)>> \o Reverse(chunks)
  /\ phase' = "written"
  /\ UNCHANGED <<histogram, level, tables, tokens, state>>

Init ==
  /\ phase = "counted"
  /\ raw \in {Trimmed(h) : h \in Histograms}
  /\ best = <<>> /\ shift = -1 /\ rest = 0 /\ omit = 0
  /\ counts = <<>> /\ bins = <<>>
  /\ level = <<>> /\ tables = <<>> /\ tokens = <<>> /\ chunks = <<>>
  /\ state = Signature * Pow2[ChunkBits]

Next ==
  \/ NormalizeFew \/ ConsiderFlat
  \/ StartRebalance \/ Increase \/ Decrease \/ EndRebalance \/ EndSearch
  \/ StartTables \/ Level \/ BuildTables \/ EncodeToken \/ Write

Spec == Init /\ [][Next]_vars

-----------------------------------------------------------------------------
(* A decoder, written from the definition of the coding and not from the    *)
(* encoder: it looks the low bits of the state up, puts the offset back,    *)
(* refills the state, and then reads the bits that follow the symbol.       *)
Take(d, bits) ==
  IF d.left # <<>> /\ Head(d.left).bits = bits
    THEN [d EXCEPT !.left = Tail(@), !.value = Head(d.left).value]
    ELSE [d EXCEPT !.ok = FALSE]

DecodeToken(d) ==
  LET at == Lookup(tables.alias, tables.logAlpha, d.state % Table)
      x == tables.frequencies[at[1]] * (d.state \div Table) + at[2]
      refill == Take(d, ChunkBits)
      e == IF x < Pow2[ChunkBits]
             THEN [refill EXCEPT !.state = x * Pow2[ChunkBits] + refill.value]
             ELSE [d EXCEPT !.state = x]
      f == IF ExtraWidth[at[1]] = 0 THEN [e EXCEPT !.value = 0]
           ELSE Take(e, ExtraWidth[at[1]])
  IN IF ~d.ok THEN d
     ELSE [f EXCEPT !.token = [symbol |-> at[1], extra |-> f.value]]

(* The decoder after each token.                                            *)
Decoder(value, left) ==
  [state |-> value, left |-> left, token |-> <<>>, value |-> 0, ok |-> TRUE]
Decoded[i \in 0..Len(tokens)] ==
  IF i = 0 THEN Decoder(chunks[1].value, Tail(chunks)) ELSE DecodeToken(Decoded[i - 1])

(* What was written is read back: a decoder with the same histogram finds   *)
(* the tokens in their order, every refill where a renormalization moved    *)
(* bits out, nothing behind the last, and the signature as its last state.  *)
(* It ties the normalized frequencies, the alias slots, the reverse map,    *)
(* the inexact division and the two reversals of order to one another.      *)
StreamDecodes ==
  phase = "written" =>
    /\ \A i \in DOMAIN tokens : Decoded[i].token = tokens[i]
    /\ Decoded[Len(tokens)].ok
    /\ Decoded[Len(tokens)].left = <<>>
    /\ Decoded[Len(tokens)].state = Signature * Pow2[ChunkBits]

(* "Greedily choose representable populations while one omitted (largest)   *)
(* population balances the total" (ans.cpp:464-466): a move never takes a   *)
(* population off the list of the precision.                                *)
PopulationsRepresentable ==
  phase = "rebalance" =>
    \A s \in DOMAIN bins : bins[s] \in 1..Len(AllowedPopulations[shift])

(* Frequencies that fill the table, which StartTables checks, can always be *)
(* coded: the levelling never runs out of underfull slots, every position   *)
(* of the alias table stands for a symbol, and none of the symbols counted  *)
(* was left out, so that the image fails, if at all, before its first       *)
(* table.                                                                   *)
TablesAlwaysFit == [][phase' = "failed" => phase \in {"rebalance", "chosen"}]_vars
===============================================================================
