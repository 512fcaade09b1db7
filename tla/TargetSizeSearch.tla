--------------------------- MODULE TargetSizeSearch ---------------------------
(***************************************************************************)
(* SearchTargetSize (src/codestream/rate_control.cpp): complete encodes at  *)
(* both ends of an interval of Butteraugli targets, then at midpoints of    *)
(* the widest interval left, until an encode meets the byte target or the   *)
(* attempts are spent.  Targets are points of a grid: two neighbours have   *)
(* no target between them, as two neighbouring floats have none.            *)
(***************************************************************************)
EXTENDS Integers, Sequences, SequencesExt

CONSTANTS Lower, Upper,      \* the ends of the interval of targets
          TargetBytes,       \* options.target_bytes
          Tolerances,        \* the values of options.tolerance_bytes
          Sizes,             \* sizes of an encoded candidate
          Scores,            \* its FinalScore
          MaxAttempts        \* kMaximumTargetSizeEncodeAttempts

ASSUME GridAssumption == Lower \in Nat /\ Upper \in Nat /\ Lower < Upper
ASSUME AttemptsAssumption == MaxAttempts \in Nat \ {0}
ASSUME SizesAssumption ==
  TargetBytes \in Nat \ {0} /\ Sizes \subseteq Nat \ {0} /\ Tolerances \subseteq Nat
ASSUME ScoresAssumption == Scores \subseteq Int

Target == Lower .. Upper
Interval == [lower : Target, upper : Target]
Policies == {"largest_at_or_below", "closest_absolute"}
Candidate == [target : Target, bytes : Sizes, score : Scores]

(* What the evaluator may answer: a candidate, a failure of this candidate  *)
(* alone, and two errors that end the search.                              *)
Answers == [kind : {"encoded"}, bytes : Sizes, score : Scores]
             \cup [kind : {"failed", "plan_exceeded", "invalid"}]

None == [target |-> Lower, bytes |-> 0, score |-> 0]

VARIABLES options,         \* selection, tolerance_bytes, maximum_attempts
          step,            \* "lower", "upper", "bisect", or how it returned
          attempt_count, failed_attempt_count,
          best,            \* the retained candidate, None before the first
          intervals,       \* the Storage<SearchInterval>
          evaluated        \* history: what was evaluated, in order

searchVars ==
  <<options, step, attempt_count, failed_attempt_count, best, intervals, evaluated>>

-------------------------------------------------------------------------------
AbsoluteByteError(bytes) ==
  IF bytes < TargetBytes THEN TargetBytes - bytes ELSE bytes - TargetBytes

IsWithinTolerance(bytes) ==
  /\ AbsoluteByteError(bytes) <= options.tolerance_bytes
  /\ options.selection = "closest_absolute" \/ bytes <= TargetBytes

(* Equal scores left to the order of evaluation *)
TieByScore(new, old) == new.score < old.score

(* The comparison a candidate of equal size is left with. *)
BetterTie(new, old) ==
  \/ new.score < old.score
  \/ new.score = old.score /\ new.target < old.target

BetterLargest(new, old) ==
  LET under == new.bytes <= TargetBytes
  IN \/ under /\ old.bytes > TargetBytes
     \/ /\ under = (old.bytes <= TargetBytes)
        /\ \/ under /\ new.bytes > old.bytes
           \/ ~under /\ new.bytes < old.bytes
           \/ new.bytes = old.bytes /\ BetterTie(new, old)

BetterClosest(new, old) ==
  LET newError == AbsoluteByteError(new.bytes)
      oldError == AbsoluteByteError(old.bytes)
  IN \/ newError < oldError
     \/ /\ newError = oldError
        /\ \/ new.bytes <= TargetBytes /\ old.bytes > TargetBytes
           \/ new.bytes = old.bytes /\ BetterTie(new, old)

BetterCandidate(new, old) ==
  \/ old = None
  \/ options.selection = "largest_at_or_below" /\ BetterLargest(new, old)
  \/ options.selection = "closest_absolute" /\ BetterClosest(new, old)

Width(i) == i.upper - i.lower

(* Index of the widest interval; of equally wide ones the lowest. *)
WidestInterval(open) ==
  CHOOSE i \in DOMAIN open : \A j \in DOMAIN open :
    \/ Width(open[i]) > Width(open[j])
    \/ /\ Width(open[i]) = Width(open[j])
       /\ \/ open[i].lower < open[j].lower
          \/ open[i].lower = open[j].lower /\ i <= j

Midpoint(i) == (i.lower + i.upper) \div 2

Halves(i) == <<[lower |-> i.lower, upper |-> Midpoint(i)],
               [lower |-> Midpoint(i), upper |-> i.upper]>>

Whole == <<[lower |-> Lower, upper |-> Upper]>>

(* The bound that forgets the upper end costs an attempt as well *)
PredictWithoutUpper(n, matching) ==
  Lower \in matching \/ (n > 2 /\ Midpoint(Whole[1]) \in matching)

(* Whether a search of n attempts that never succeeds early reaches a target *)
(* in the set; the planner asks before anything is encoded.                 *)
TargetSizeSearchMayEvaluate(n, matching) ==
  LET Reaches[walk \in (2 .. n) \X Seq(Interval)] ==
        LET attempts == walk[1]
            open     == walk[2]
            i        == WidestInterval(open)
            mid      == Midpoint(open[i])
            rest     == RemoveAt(open, i)
        IN /\ attempts < n /\ open # <<>>
           /\ IF mid \in {open[i].lower, open[i].upper}
                THEN Reaches[<<attempts, rest>>]
                ELSE mid \in matching \/ Reaches[<<attempts + 1, rest \o Halves(open[i])>>]
  IN \/ Lower \in matching
     \/ n > 1 /\ (Upper \in matching \/ Reaches[<<2, Whole>>])

(* SearchInterval entries ComputeTargetSizeControlStorageBound admits. *)
IntervalBound(n) == IF n - 1 < 1 THEN 1 ELSE n - 1

-------------------------------------------------------------------------------
SearchInit ==
  /\ options \in [selection : Policies, tolerance_bytes : Tolerances,
                  maximum_attempts : 1 .. MaxAttempts]
  /\ step = "lower"
  /\ attempt_count = 0 /\ failed_attempt_count = 0
  /\ best = None
  /\ intervals = <<>>
  /\ evaluated = <<>>

(* The loop goes on: attempts are left and nothing retained is good enough. *)
Unsatisfied(count, kept) ==
  count < options.maximum_attempts /\ (kept = None \/ ~IsWithinTolerance(kept.bytes))

(* EvaluateCandidate without its place in the search: one attempt at a      *)
(* target; next is the step after an attempt that does not end the search. *)
EvaluateCandidate(target, answer, next) ==
  /\ attempt_count' = attempt_count + 1
  /\ evaluated' = Append(evaluated, [target |-> target, answer |-> answer])
  /\ IF answer.kind = "encoded"
       THEN LET new == [target |-> target, bytes |-> answer.bytes, score |-> answer.score]
            IN best' = IF BetterCandidate(new, best) THEN new ELSE best
       ELSE UNCHANGED best
  /\ failed_attempt_count' = failed_attempt_count + IF answer.kind = "failed" THEN 1 ELSE 0
  /\ step' = IF answer.kind \in {"plan_exceeded", "invalid"} THEN "error" ELSE next
  /\ UNCHANGED options

EvaluateLower(answer) ==
  /\ step = "lower"
  /\ EvaluateCandidate(Lower, answer, "upper")
  /\ UNCHANGED intervals

EvaluateUpper(answer) ==
  /\ step = "upper" /\ Unsatisfied(attempt_count, best)
  /\ EvaluateCandidate(Upper, answer, "bisect")
  /\ intervals' = IF step' = "error" THEN intervals ELSE Whole

SkipUpper ==
  /\ step = "upper" /\ ~Unsatisfied(attempt_count, best)
  /\ step' = "bisect"
  /\ intervals' = Whole
  /\ UNCHANGED <<options, attempt_count, failed_attempt_count, best, evaluated>>

Open == step = "bisect" /\ Unsatisfied(attempt_count, best) /\ intervals # <<>>
Widest == intervals[WidestInterval(intervals)]
Proper == Midpoint(Widest) \notin {Widest.lower, Widest.upper}
Closed == RemoveAt(intervals, WidestInterval(intervals))

(* The halves are pushed and the whole stays *)
EvaluateKeepingWhole(answer) ==
  /\ Open /\ Proper
  /\ EvaluateCandidate(Midpoint(Widest), answer, "bisect")
  /\ intervals' = intervals \o Halves(Widest)

(* Encode at the middle of the widest interval and split it. *)
EvaluateMidpoint(answer) ==
  /\ Open /\ Proper
  /\ EvaluateCandidate(Midpoint(Widest), answer, "bisect")
  /\ intervals' = IF step' = "error" THEN Closed ELSE Closed \o Halves(Widest)

(* The unsplittable interval is found again and again *)
DropNothing ==
  /\ Open /\ ~Proper
  /\ UNCHANGED searchVars

(* Nothing lies between the ends: the interval is dropped, no attempt spent. *)
DropInterval ==
  /\ Open /\ ~Proper
  /\ intervals' = Closed
  /\ UNCHANGED <<options, step, attempt_count, failed_attempt_count, best, evaluated>>

Met == best # None /\ IsWithinTolerance(best.bytes)

(* The loop ends: the best candidate is returned, or the first failure. *)
Return ==
  /\ step = "bisect" /\ ~Open
  /\ step' = IF best = None THEN "failed" ELSE "found"
  /\ UNCHANGED <<options, attempt_count, failed_attempt_count, best, intervals, evaluated>>

(* The search calls its evaluator, and with which target. *)
WantsCandidate ==
  \/ step = "lower"
  \/ step = "upper" /\ Unsatisfied(attempt_count, best)
  \/ Open /\ Proper

NextTarget ==
  CASE step = "lower" -> Lower [] step = "upper" -> Upper [] OTHER -> Midpoint(Widest)

Evaluate(answer) == EvaluateLower(answer) \/ EvaluateUpper(answer) \/ EvaluateMidpoint(answer)
Advance == SkipUpper \/ DropInterval \/ Return

SearchNext == (\E answer \in Answers : Evaluate(answer)) \/ Advance

SearchSpec == SearchInit /\ [][SearchNext]_searchVars /\ WF_searchVars(SearchNext)

-------------------------------------------------------------------------------
Steps == {"lower", "upper", "bisect", "found", "failed", "error"}

SearchTypeOK ==
  /\ options \in [selection : Policies, tolerance_bytes : Tolerances,
                  maximum_attempts : 1 .. MaxAttempts]
  /\ step \in Steps
  /\ attempt_count \in 0 .. options.maximum_attempts
  /\ failed_attempt_count \in 0 .. attempt_count
  /\ best \in Candidate \cup {None}
  /\ intervals \in Seq(Interval)
  /\ evaluated \in Seq([target : Target, answer : Answers])

(* The vector of intervals never outgrows what the storage plan admitted    *)
(* for it before the search began (rate_control.cpp:222-239).              *)
IntervalsWithinBound == Len(intervals) <= IntervalBound(options.maximum_attempts)

(* The planner's walk over the targets covers the search's: whatever is      *)
(* encoded was predicted, and a search that spends all its attempts encodes  *)
(* exactly what was predicted.  workflow.cpp plans a CPU-only envelope on    *)
(* this answer.                                                             *)
PredictionCovers ==
  LET seen == {evaluated[i].target : i \in DOMAIN evaluated}
      Predicted(t) == TargetSizeSearchMayEvaluate(options.maximum_attempts, {t})
  IN /\ \A t \in seen : Predicted(t)
     /\ step \in {"found", "failed"} /\ ~Met => \A t \in Target \ seen : ~Predicted(t)

Preference(c) ==
  LET over == IF c.bytes > TargetBytes THEN 1 ELSE 0
  IN IF options.selection = "closest_absolute"
       THEN <<AbsoluteByteError(c.bytes), over, c.score, c.target>>
       ELSE <<over, AbsoluteByteError(c.bytes), c.score, c.target>>

Precedes(p, q) ==
  \E i \in DOMAIN p : p[i] < q[i] /\ \A j \in 1 .. i - 1 : p[j] = q[j]

(* The indices of the evaluations that encoded something, and what.          *)
Encoded == {k \in DOMAIN evaluated : evaluated[k].answer.kind = "encoded"}
Made(k) == [target |-> evaluated[k].target, bytes |-> evaluated[k].answer.bytes,
            score |-> evaluated[k].answer.score]

(* The answer of the search is the best of everything it encoded, by the     *)
(* definition of the policy and whatever the order of evaluation: under the  *)
(* target the larger, over it the smaller, or the closer; then the better    *)
(* score, then the lower target.  No target is encoded twice.              *)
FindsBestCandidate ==
  /\ \A i, j \in DOMAIN evaluated : evaluated[i].target = evaluated[j].target => i = j
  /\ step = "found" => \E k \in Encoded : best = Made(k)
  /\ \A k \in Encoded : Made(k) # best => Precedes(Preference(best), Preference(Made(k)))

===============================================================================
