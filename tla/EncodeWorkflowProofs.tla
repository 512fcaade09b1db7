------------------------ MODULE EncodeWorkflowProofs ------------------------
(***************************************************************************)
(* Theorems on one image through the encoder.  The first part is about the  *)
(* target-size search alone, for every grid of targets, target size, set of *)
(* sizes and scores, and number of attempts: the storage of its open        *)
(* intervals, what it returns, and that the planner predicts its targets.   *)
(* The second is about the encode that drives it, for every request: what   *)
(* it owns was planned, and what an attempt needs outlives the others.      *)
(***************************************************************************)
EXTENDS EncodeWorkflow, TLAPS, WellFoundedInduction

-----------------------------------------------------------------------------
(* A non-empty set of naturals has a least element.                         *)
LEMMA LeastNat ==
  ASSUME NEW S \in SUBSET Nat, S # {}
  PROVE  \E m \in S : \A k \in S : m <= k
<1> DEFINE Less == {ss \in Nat \X Nat : ss[1] < ss[2]}
<1>1. IsWellFoundedOn(Less, Nat)
  BY NatLessThanWellFounded, Zenon DEF OpToRel
<1>2. PICK m \in S : \A k \in S : <<k, m>> \notin Less
  <2> HIDE DEF Less
  <2> QED  BY <1>1, WFMin
<1>3. ASSUME NEW k \in S
      PROVE  m <= k
  <2>1. <<k, m>> \in Nat \X Nat /\ <<k, m>>[1] = k /\ <<k, m>>[2] = m
    OBVIOUS
  <2>2. ~(k < m)
    BY <1>2, <2>1
  <2>3. QED  BY <2>2
<1>4. QED
  BY <1>3

(* The widest interval is one of the open ones.                             *)
LEMMA WidestIsOpen ==
  ASSUME NEW open \in Seq(Interval), open # <<>>
  PROVE  WidestInterval(open) \in DOMAIN open
<1> DEFINE Slack(i) == Upper - Width(open[i])
<1>1. \A i \in DOMAIN open : /\ open[i].lower \in Nat /\ open[i].upper \in Nat
                             /\ Width(open[i]) \in Int /\ Slack(i) \in Nat
  <2> SUFFICES ASSUME NEW i \in DOMAIN open
               PROVE  /\ open[i].lower \in Nat /\ open[i].upper \in Nat
                      /\ Width(open[i]) \in Int /\ Slack(i) \in Nat
    OBVIOUS
  <2>1. open[i] \in Interval
    OBVIOUS
  <2>2. /\ open[i].lower \in Nat /\ open[i].upper \in Nat
        /\ Lower <= open[i].lower /\ open[i].upper <= Upper
    BY <2>1, GridAssumption DEF Interval, Target
  <2>3. QED
    BY <2>2, GridAssumption DEF Width
<1>2. DOMAIN open # {} /\ DOMAIN open \subseteq Nat
  <2>1. Len(open) \in Nat /\ DOMAIN open = 1 .. Len(open) /\ Len(open) # 0
    OBVIOUS
  <2>2. 1 \in DOMAIN open
    BY <2>1
  <2>3. QED  BY <2>1, <2>2
<1>3. PICK a \in DOMAIN open : \A i \in DOMAIN open : Slack(a) <= Slack(i)
  <2>1. PICK m \in {Slack(i) : i \in DOMAIN open} :
          \A k \in {Slack(i) : i \in DOMAIN open} : m <= k
    BY <1>1, <1>2, LeastNat
  <2>2. QED  BY <2>1
<1> DEFINE W == {i \in DOMAIN open : Slack(i) = Slack(a)}
<1>4. PICK b \in W : \A i \in W : open[b].lower <= open[i].lower
  <2>1. {open[i].lower : i \in W} \in SUBSET Nat /\ {open[i].lower : i \in W} # {}
    BY <1>1
  <2>2. PICK m \in {open[i].lower : i \in W} :
          \A k \in {open[i].lower : i \in W} : m <= k
    BY <2>1, LeastNat
  <2>3. QED  BY <2>2
<1> DEFINE L == {i \in W : open[i].lower = open[b].lower}
<1>5. PICK c \in L : \A i \in L : c <= i
  BY <1>2, LeastNat
<1>6. \A j \in DOMAIN open :
        \/ Width(open[c]) > Width(open[j])
        \/ /\ Width(open[c]) = Width(open[j])
           /\ \/ open[c].lower < open[j].lower
              \/ open[c].lower = open[j].lower /\ c <= j
  <2> SUFFICES ASSUME NEW j \in DOMAIN open
               PROVE  \/ Width(open[c]) > Width(open[j])
                      \/ /\ Width(open[c]) = Width(open[j])
                         /\ \/ open[c].lower < open[j].lower
                            \/ open[c].lower = open[j].lower /\ c <= j
    OBVIOUS
  <2>1. Slack(c) <= Slack(j) /\ Slack(c) = Slack(a)
    BY <1>3
  <2>2. CASE j \in W
    <3>1. Width(open[c]) = Width(open[j])
      BY <1>1, <2>1, <2>2, GridAssumption
    <3>2. open[c].lower <= open[j].lower
      BY <1>4, <2>2
    <3>3. open[c].lower = open[j].lower => c <= j
      BY <1>5, <2>2
    <3> QED  BY <1>1, <3>1, <3>2, <3>3
  <2>3. CASE j \notin W
    BY <1>1, <2>1, <2>3, GridAssumption
  <2> QED  BY <2>2, <2>3
<1> QED
  BY <1>6 DEF WidestInterval

(* Removing one element of a sequence keeps the others in their order.      *)
LEMMA RemovedElements ==
  ASSUME NEW S, NEW s \in Seq(S), NEW w \in DOMAIN s
  PROVE  /\ RemoveAt(s, w) \in Seq(S)
         /\ Len(RemoveAt(s, w)) = Len(s) - 1
         /\ \A i \in 1 .. Len(s) - 1 :
              RemoveAt(s, w)[i] = s[IF i < w THEN i ELSE i + 1]
<1> DEFINE p == SubSeq(s, 1, w - 1)
           q == SubSeq(s, w + 1, Len(s))
<1>1. Len(s) \in Nat /\ w \in 1 .. Len(s)
  OBVIOUS
<1>2. /\ p \in Seq(S) /\ Len(p) = w - 1
      /\ \A i \in 1 .. w - 1 : p[i] = s[i]
  BY <1>1
<1>3. /\ q \in Seq(S) /\ Len(q) = Len(s) - w
      /\ \A i \in 1 .. Len(s) - w : q[i] = s[w + i]
  BY <1>1
<1>4. /\ p \o q \in Seq(S) /\ Len(p \o q) = Len(s) - 1
      /\ \A i \in 1 .. Len(s) - 1 :
           (p \o q)[i] = IF i <= Len(p) THEN p[i] ELSE q[i - Len(p)]
  <2> HIDE DEF p, q
  <2> QED  BY <1>1, <1>2, <1>3, SMTT(30)
<1>5. \A i \in 1 .. Len(s) - 1 : (p \o q)[i] = s[IF i < w THEN i ELSE i + 1]
  <2> HIDE DEF p, q
  <2> SUFFICES ASSUME NEW i \in 1 .. Len(s) - 1
               PROVE  (p \o q)[i] = s[IF i < w THEN i ELSE i + 1]
    OBVIOUS
  <2>1. CASE i < w
    <3>1. (p \o q)[i] = p[i] /\ i \in 1 .. w - 1
      BY <1>1, <1>2, <1>4, <2>1
    <3>2. QED  BY <1>2, <2>1, <3>1
  <2>2. CASE ~(i < w)
    <3>1. (p \o q)[i] = q[i - (w - 1)] /\ i - (w - 1) \in 1 .. Len(s) - w
      BY <1>1, <1>2, <1>4, <2>2
    <3>2. q[i - (w - 1)] = s[w + (i - (w - 1))]
      BY <1>3, <3>1
    <3>3. w + (i - (w - 1)) = i + 1
      BY <1>1
    <3>4. QED  BY <2>2, <3>1, <3>2, <3>3
  <2> QED  BY <2>1, <2>2
<1> QED
  BY <1>4, <1>5 DEF RemoveAt

LEMMA ElementType ==
  ASSUME NEW S, NEW s \in Seq(S), NEW i \in DOMAIN s
  PROVE  s[i] \in S
<1> QED  OBVIOUS

LEMMA Concatenation ==
  ASSUME NEW S, NEW s \in Seq(S), NEW t \in Seq(S)
  PROVE  /\ s \o t \in Seq(S)
         /\ Len(s \o t) = Len(s) + Len(t)
         /\ \A i \in 1 .. Len(s) : (s \o t)[i] = s[i]
         /\ \A i \in 1 .. Len(t) : (s \o t)[Len(s) + i] = t[i]
<1> QED  OBVIOUS

-----------------------------------------------------------------------------
(* The comparison of candidates.                                            *)

(* Precedes on four numbers is the lexicographic order.                     *)
LEMMA PrecedesIsLexicographic ==
  ASSUME NEW p \in Int \X Int \X Int \X Int, NEW q \in Int \X Int \X Int \X Int
  PROVE  Precedes(p, q) <=>
           \/ p[1] < q[1]
           \/ p[1] = q[1] /\ p[2] < q[2]
           \/ p[1] = q[1] /\ p[2] = q[2] /\ p[3] < q[3]
           \/ p[1] = q[1] /\ p[2] = q[2] /\ p[3] = q[3] /\ p[4] < q[4]
<1> DEFINE Less(i) == p[i] < q[i] /\ \A j \in 1 .. i - 1 : p[j] = q[j]
<1>1. DOMAIN p = {1, 2, 3, 4}
  OBVIOUS
<1>2. 1 .. 1 - 1 = {} /\ 1 .. 2 - 1 = {1} /\ 1 .. 3 - 1 = {1, 2} /\ 1 .. 4 - 1 = {1, 2, 3}
  OBVIOUS
<1>3. Precedes(p, q) <=> Less(1) \/ Less(2) \/ Less(3) \/ Less(4)
  BY <1>1 DEF Precedes
<1>4. /\ Less(1) <=> p[1] < q[1]
      /\ Less(2) <=> p[1] = q[1] /\ p[2] < q[2]
      /\ Less(3) <=> p[1] = q[1] /\ p[2] = q[2] /\ p[3] < q[3]
      /\ Less(4) <=> p[1] = q[1] /\ p[2] = q[2] /\ p[3] = q[3] /\ p[4] < q[4]
  BY <1>2
<1> QED
  BY <1>3, <1>4

(* The comparison the code makes between two candidates.                    *)
Wins(new, old) ==
  \/ options.selection = "largest_at_or_below" /\ BetterLargest(new, old)
  \/ options.selection = "closest_absolute" /\ BetterClosest(new, old)

Over(c) == IF c.bytes > TargetBytes THEN 1 ELSE 0

LEMMA CandidateTypes ==
  ASSUME NEW c \in Candidate
  PROVE  /\ c.target \in Nat /\ c.bytes \in Nat /\ c.bytes > 0 /\ c.score \in Int
         /\ TargetBytes \in Nat
         /\ AbsoluteByteError(c.bytes) \in Nat
         /\ Over(c) \in {0, 1}
<1>1. c.target \in Target /\ c.bytes \in Sizes /\ c.score \in Scores
  BY DEF Candidate
<1>2. c.target \in Nat
  BY <1>1, GridAssumption DEF Target
<1>3. c.bytes \in Nat \ {0} /\ TargetBytes \in Nat
  BY <1>1, SizesAssumption
<1>4. c.score \in Int
  BY <1>1, ScoresAssumption
<1>5. QED
  BY <1>2, <1>3, <1>4 DEF AbsoluteByteError, Over

(* Candidates are compared by their preference and nothing else.            *)
LEMMA WinsIsPrecedes ==
  ASSUME NEW a \in Candidate, NEW b \in Candidate, options.selection \in Policies
  PROVE  Wins(a, b) <=> Precedes(Preference(a), Preference(b))
<1>1. /\ a.target \in Nat /\ a.bytes \in Nat /\ a.bytes > 0 /\ a.score \in Int
      /\ b.target \in Nat /\ b.bytes \in Nat /\ b.bytes > 0 /\ b.score \in Int
      /\ TargetBytes \in Nat
      /\ AbsoluteByteError(a.bytes) \in Nat /\ AbsoluteByteError(b.bytes) \in Nat
      /\ Over(a) \in {0, 1} /\ Over(b) \in {0, 1}
  BY CandidateTypes
<1>2. /\ AbsoluteByteError(a.bytes) \in Int /\ AbsoluteByteError(b.bytes) \in Int
      /\ Over(a) \in Int /\ Over(b) \in Int /\ a.score \in Int /\ b.score \in Int
      /\ a.target \in Int /\ b.target \in Int
  BY <1>1
<1>3. CASE options.selection = "closest_absolute"
  <2> DEFINE p == <<AbsoluteByteError(a.bytes), Over(a), a.score, a.target>>
             q == <<AbsoluteByteError(b.bytes), Over(b), b.score, b.target>>
  <2>1. p \in Int \X Int \X Int \X Int /\ q \in Int \X Int \X Int \X Int
    BY <1>2
  <2>2. /\ p[1] = AbsoluteByteError(a.bytes) /\ p[2] = Over(a) /\ p[3] = a.score /\ p[4] = a.target
        /\ q[1] = AbsoluteByteError(b.bytes) /\ q[2] = Over(b) /\ q[3] = b.score /\ q[4] = b.target
    OBVIOUS
  <2>3. Preference(a) = p /\ Preference(b) = q
    BY <1>3 DEF Preference, Over
  <2>4. Precedes(p, q) <=> Wins(a, b)
    <3> HIDE DEF p, q
    <3>1. Precedes(p, q) <=>
            \/ p[1] < q[1]
            \/ p[1] = q[1] /\ p[2] < q[2]
            \/ p[1] = q[1] /\ p[2] = q[2] /\ p[3] < q[3]
            \/ p[1] = q[1] /\ p[2] = q[2] /\ p[3] = q[3] /\ p[4] < q[4]
      BY <2>1, PrecedesIsLexicographic
    <3>2. QED
      BY <1>1, <1>3, <2>2, <3>1
      DEF Wins, BetterClosest, BetterTie, AbsoluteByteError, Over
  <2>5. QED
    BY <2>3, <2>4
<1>4. CASE options.selection = "largest_at_or_below"
  <2> DEFINE p == <<Over(a), AbsoluteByteError(a.bytes), a.score, a.target>>
             q == <<Over(b), AbsoluteByteError(b.bytes), b.score, b.target>>
  <2>1. p \in Int \X Int \X Int \X Int /\ q \in Int \X Int \X Int \X Int
    BY <1>2
  <2>2. /\ p[1] = Over(a) /\ p[2] = AbsoluteByteError(a.bytes) /\ p[3] = a.score /\ p[4] = a.target
        /\ q[1] = Over(b) /\ q[2] = AbsoluteByteError(b.bytes) /\ q[3] = b.score /\ q[4] = b.target
    OBVIOUS
  <2>3. Preference(a) = p /\ Preference(b) = q
    BY <1>4 DEF Preference, Over
  <2>4. Precedes(p, q) <=> Wins(a, b)
    <3> HIDE DEF p, q
    <3>1. Precedes(p, q) <=>
            \/ p[1] < q[1]
            \/ p[1] = q[1] /\ p[2] < q[2]
            \/ p[1] = q[1] /\ p[2] = q[2] /\ p[3] < q[3]
            \/ p[1] = q[1] /\ p[2] = q[2] /\ p[3] = q[3] /\ p[4] < q[4]
      BY <2>1, PrecedesIsLexicographic
    <3>2. QED
      BY <1>1, <1>4, <2>2, <3>1
      DEF Wins, BetterLargest, BetterTie, AbsoluteByteError, Over
  <2>5. QED
    BY <2>3, <2>4
<1> QED
  BY <1>3, <1>4 DEF Policies

(* Of two different candidates one wins.                                    *)
LEMMA WinsIsTotal ==
  ASSUME NEW a \in Candidate, NEW b \in Candidate, options.selection \in Policies, a # b
  PROVE  Wins(a, b) \/ Wins(b, a)
<1>1. /\ a.target \in Nat /\ a.bytes \in Nat /\ a.score \in Int
      /\ b.target \in Nat /\ b.bytes \in Nat /\ b.score \in Int
      /\ TargetBytes \in Nat
  BY CandidateTypes
<1>2. a.target # b.target \/ a.bytes # b.bytes \/ a.score # b.score
  BY DEF Candidate
<1> QED
  BY <1>1, <1>2
  DEF Wins, Policies, BetterLargest, BetterClosest, BetterTie, AbsoluteByteError

LEMMA WinsIsTransitive ==
  ASSUME NEW a \in Candidate, NEW b \in Candidate, NEW c \in Candidate,
         options.selection \in Policies, Wins(a, b), Wins(b, c)
  PROVE  Wins(a, c)
<1>1. /\ a.target \in Nat /\ a.bytes \in Nat /\ a.score \in Int
      /\ b.target \in Nat /\ b.bytes \in Nat /\ b.score \in Int
      /\ c.target \in Nat /\ c.bytes \in Nat /\ c.score \in Int
      /\ TargetBytes \in Nat
  BY CandidateTypes
<1> QED
  BY <1>1
  DEF Wins, Policies, BetterLargest, BetterClosest, BetterTie, AbsoluteByteError

-----------------------------------------------------------------------------
(* Types, and the storage of the open intervals.                            *)

(* What each step of the search starts from.                                *)
Progress ==
  /\ step = "lower" => attempt_count = 0 /\ intervals = <<>> /\ evaluated = <<>> /\ best = None
  /\ step = "upper" => /\ attempt_count = 1 /\ intervals = <<>>
                       /\ \A k \in DOMAIN evaluated : evaluated[k].target = Lower
  /\ step = "bisect" => attempt_count >= 2 \/ ~Unsatisfied(attempt_count, best)
  /\ step = "found" => best # None

(* A bisection adds one interval and spends one attempt; the first interval *)
(* comes with the second attempt, or when none is left to be made.          *)
OneIntervalPerAttempt == Len(intervals) <= 1 \/ Len(intervals) <= attempt_count - 1

TInv == SearchTypeOK /\ Progress /\ OneIntervalPerAttempt

LEMMA WholeType == Whole \in Seq(Interval) /\ Len(Whole) = 1 /\ Whole[1] = [lower |-> Lower, upper |-> Upper]
<1>1. [lower |-> Lower, upper |-> Upper] \in Interval
  BY GridAssumption DEF Interval, Target
<1> QED
  BY <1>1 DEF Whole

LEMMA MidpointBetween ==
  ASSUME NEW i \in Interval
  PROVE  /\ i.lower \in Nat /\ i.upper \in Nat /\ Lower <= i.lower /\ i.upper <= Upper
         /\ Midpoint(i) \in Int
         /\ i.lower <= i.upper => i.lower <= Midpoint(i) /\ Midpoint(i) <= i.upper
         /\ Midpoint(i) \in Target
<1>1. /\ i.lower \in Nat /\ i.upper \in Nat /\ Lower <= i.lower /\ i.upper <= Upper
      /\ i.lower <= Upper /\ Lower <= i.upper /\ Lower \in Nat /\ Upper \in Nat
  BY GridAssumption DEF Interval, Target
<1>2. QED
  BY <1>1 DEF Midpoint, Target

LEMMA HalvesType ==
  ASSUME NEW i \in Interval
  PROVE  /\ Halves(i) \in Seq(Interval) /\ Len(Halves(i)) = 2
         /\ Halves(i)[1] = [lower |-> i.lower, upper |-> Midpoint(i)]
         /\ Halves(i)[2] = [lower |-> Midpoint(i), upper |-> i.upper]
<1>1. Midpoint(i) \in Target /\ i.lower \in Target /\ i.upper \in Target
  BY MidpointBetween DEF Interval
<1>2. /\ [lower |-> i.lower, upper |-> Midpoint(i)] \in Interval
      /\ [lower |-> Midpoint(i), upper |-> i.upper] \in Interval
  BY <1>1 DEF Interval
<1> QED
  BY <1>2 DEF Halves

(* The widest interval, and the intervals after it was taken or split.       *)
LEMMA Splitting ==
  ASSUME intervals \in Seq(Interval), intervals # <<>>
  PROVE  /\ WidestInterval(intervals) \in DOMAIN intervals
         /\ Widest \in Interval
         /\ Closed \in Seq(Interval) /\ Len(Closed) = Len(intervals) - 1
         /\ Closed \o Halves(Widest) \in Seq(Interval)
         /\ Len(Closed \o Halves(Widest)) = Len(intervals) + 1
<1>1. WidestInterval(intervals) \in DOMAIN intervals
  BY WidestIsOpen
<1>2. Widest \in Interval
  BY <1>1 DEF Widest
<1>3. Closed \in Seq(Interval) /\ Len(Closed) = Len(intervals) - 1
  BY <1>1, RemovedElements DEF Closed
<1>4. Halves(Widest) \in Seq(Interval) /\ Len(Halves(Widest)) = 2
  BY <1>2, HalvesType
<1>5. /\ Closed \o Halves(Widest) \in Seq(Interval)
      /\ Len(Closed \o Halves(Widest)) = Len(Closed) + Len(Halves(Widest))
  BY <1>3, <1>4, Concatenation
<1>6. Len(intervals) \in Nat
  OBVIOUS
<1> QED
  BY <1>1, <1>2, <1>3, <1>4, <1>5, <1>6

(* What one evaluation does to everything but the intervals.                *)
LEMMA EvaluationTypes ==
  ASSUME SearchTypeOK, NEW target \in Target, NEW answer \in Answers,
         NEW next \in {"upper", "bisect"}, attempt_count < options.maximum_attempts,
         EvaluateCandidate(target, answer, next)
  PROVE  /\ options' = options
         /\ options' \in [selection : Policies, tolerance_bytes : Tolerances,
                          maximum_attempts : 1 .. MaxAttempts]
         /\ attempt_count' = attempt_count + 1 /\ attempt_count \in Nat
         /\ attempt_count' \in 0 .. options'.maximum_attempts
         /\ failed_attempt_count' \in 0 .. attempt_count'
         /\ step' \in {"error", next}
         /\ best' \in Candidate \cup {None}
         /\ evaluated' \in Seq([target : Target, answer : Answers])
<1> USE DEF EvaluateCandidate
<1>1. options.maximum_attempts \in Nat /\ attempt_count \in Nat /\ failed_attempt_count \in Nat
      /\ failed_attempt_count <= attempt_count
  BY AttemptsAssumption DEF SearchTypeOK
<1>2. failed_attempt_count' \in 0 .. attempt_count'
  BY <1>1
<1>3. best' \in Candidate \cup {None}
  <2>1. CASE answer.kind = "encoded"
    <3>1. answer.bytes \in Sizes /\ answer.score \in Scores
      BY <2>1 DEF Answers
    <3>2. [target |-> target, bytes |-> answer.bytes, score |-> answer.score] \in Candidate
      BY <3>1 DEF Candidate
    <3>3. QED  BY <2>1, <3>2 DEF SearchTypeOK
  <2>2. CASE answer.kind # "encoded"
    BY <2>2 DEF SearchTypeOK
  <2> QED  BY <2>1, <2>2
<1>4. evaluated' \in Seq([target : Target, answer : Answers])
  BY DEF SearchTypeOK
<1> QED
  BY <1>1, <1>2, <1>3, <1>4 DEF SearchTypeOK

LEMMA TInvInit == SearchInit => TInv
<1> SUFFICES ASSUME SearchInit PROVE TInv
  OBVIOUS
<1>1. options.maximum_attempts \in Nat /\ options.maximum_attempts >= 1
  BY AttemptsAssumption DEF SearchInit
<1> QED
  BY <1>1 DEF SearchInit, TInv, SearchTypeOK, Progress, OneIntervalPerAttempt, Steps

LEMMA TInvStep == TInv /\ [SearchNext]_searchVars => TInv'
<1> SUFFICES ASSUME TInv, [SearchNext]_searchVars PROVE TInv'
  OBVIOUS
<1> USE DEF TInv
<1>1. /\ attempt_count \in Nat /\ options.maximum_attempts \in Nat
      /\ options.maximum_attempts >= 1 /\ attempt_count <= options.maximum_attempts
      /\ intervals \in Seq(Interval) /\ Len(intervals) \in Nat
  BY AttemptsAssumption DEF SearchTypeOK
<1>2. ASSUME NEW answer \in Answers, EvaluateLower(answer)
      PROVE  TInv'
  <2>1. attempt_count = 0 /\ evaluated = <<>> /\ intervals = <<>> /\ intervals' = intervals
    BY <1>2 DEF EvaluateLower, Progress
  <2>2. Lower \in Target /\ EvaluateCandidate(Lower, answer, "upper")
    BY <1>2, GridAssumption DEF EvaluateLower, Target
  <2>3. attempt_count < options.maximum_attempts
    BY <1>1, <2>1
  <2>4. SearchTypeOK'
    BY <1>1, <2>1, <2>2, <2>3, EvaluationTypes DEF SearchTypeOK, Steps
  <2>5. Progress'
    <3>1. step' \in {"error", "upper"} /\ attempt_count' = 1
      BY <2>1, <2>2, <2>3, EvaluationTypes
    <3>2. evaluated' = <<[target |-> Lower, answer |-> answer]>>
      BY <2>1, <2>2 DEF EvaluateCandidate
    <3>3. \A k \in DOMAIN evaluated' : evaluated'[k].target = Lower
      BY <3>2
    <3> QED  BY <2>1, <3>1, <3>3 DEF Progress
  <2>6. OneIntervalPerAttempt'
    BY <2>1 DEF OneIntervalPerAttempt
  <2> QED  BY <2>4, <2>5, <2>6
<1>3. ASSUME NEW answer \in Answers, EvaluateUpper(answer)
      PROVE  TInv'
  <2>1. attempt_count = 1 /\ intervals = <<>> /\ intervals' \in {intervals, Whole}
    BY <1>3 DEF EvaluateUpper, Progress
  <2>2. /\ Upper \in Target /\ EvaluateCandidate(Upper, answer, "bisect")
        /\ attempt_count < options.maximum_attempts
    BY <1>3, GridAssumption DEF EvaluateUpper, Target, Unsatisfied
  <2>3. SearchTypeOK'
    BY <1>1, <2>1, <2>2, EvaluationTypes, WholeType DEF SearchTypeOK, Steps
  <2>4. Progress'
    BY <2>1, <2>2, EvaluationTypes DEF Progress
  <2>5. OneIntervalPerAttempt'
    <3>1. Len(intervals') <= 1
      <4>1. intervals' = <<>> \/ intervals' = Whole
        BY <2>1
      <4>2. CASE intervals' = <<>>
        BY <4>2
      <4>3. CASE intervals' = Whole
        <5>1. Len(Whole) = 1
          BY WholeType
        <5> QED  BY <4>3, <5>1
      <4> QED  BY <4>1, <4>2, <4>3
    <3> QED  BY <3>1 DEF OneIntervalPerAttempt
  <2> QED  BY <2>3, <2>4, <2>5
<1>4. ASSUME NEW answer \in Answers, EvaluateMidpoint(answer)
      PROVE  TInv'
  <2>1. /\ intervals # <<>> /\ attempt_count >= 2
        /\ attempt_count < options.maximum_attempts
        /\ intervals' \in {Closed, Closed \o Halves(Widest)}
    BY <1>4 DEF EvaluateMidpoint, Open, Progress, Unsatisfied
  <2>2. Midpoint(Widest) \in Target /\ EvaluateCandidate(Midpoint(Widest), answer, "bisect")
    BY <1>1, <1>4, <2>1, Splitting, MidpointBetween DEF EvaluateMidpoint
  <2>3. intervals' \in Seq(Interval) /\ Len(intervals') <= Len(intervals) + 1 /\ Len(intervals') \in Nat
    <3>1. CASE intervals' = Closed
      BY <1>1, <2>1, <3>1, Splitting
    <3>2. CASE intervals' = Closed \o Halves(Widest)
      BY <1>1, <2>1, <3>2, Splitting
    <3> QED  BY <2>1, <3>1, <3>2
  <2>4. SearchTypeOK'
    BY <2>1, <2>2, <2>3, EvaluationTypes DEF SearchTypeOK, Steps
  <2>5. attempt_count' = attempt_count + 1 /\ step' \in {"error", "bisect"}
    BY <2>1, <2>2, EvaluationTypes
  <2>6. Progress'
    BY <1>1, <2>1, <2>5 DEF Progress
  <2>7. OneIntervalPerAttempt'
    BY <1>1, <2>1, <2>3, <2>5 DEF OneIntervalPerAttempt
  <2> QED  BY <2>4, <2>6, <2>7
<1>5. CASE SkipUpper
  <2>1. intervals' = Whole /\ step' = "bisect" /\ ~Unsatisfied(attempt_count, best)
        /\ UNCHANGED <<options, attempt_count, failed_attempt_count, best, evaluated>>
    BY <1>5 DEF SkipUpper
  <2>2. SearchTypeOK'
    BY <2>1, WholeType DEF SearchTypeOK, Steps
  <2>3. Progress'
    BY <2>1 DEF Progress, Unsatisfied, IsWithinTolerance
  <2>4. OneIntervalPerAttempt'
    BY <2>1, WholeType DEF OneIntervalPerAttempt
  <2> QED  BY <2>2, <2>3, <2>4
<1>6. CASE DropInterval
  <2>1. /\ intervals' = Closed /\ intervals # <<>> /\ step' = step /\ step = "bisect"
        /\ UNCHANGED <<options, attempt_count, failed_attempt_count, best, evaluated>>
    BY <1>6 DEF DropInterval, Open
  <2>2. SearchTypeOK'
    BY <1>1, <2>1, Splitting DEF SearchTypeOK
  <2>3. Progress'
    BY <2>1 DEF Progress, Unsatisfied, IsWithinTolerance
  <2>4. OneIntervalPerAttempt'
    BY <1>1, <2>1, Splitting DEF OneIntervalPerAttempt
  <2> QED  BY <2>2, <2>3, <2>4
<1>7. CASE Return
  <2>1. /\ step' \in {"found", "failed"} /\ (step' = "found" => best # None)
        /\ UNCHANGED <<options, attempt_count, failed_attempt_count, best, intervals, evaluated>>
    BY <1>7 DEF Return
  <2>2. SearchTypeOK'
    BY <2>1 DEF SearchTypeOK, Steps
  <2>3. Progress'
    BY <2>1 DEF Progress
  <2>4. OneIntervalPerAttempt'
    BY <2>1 DEF OneIntervalPerAttempt
  <2> QED  BY <2>2, <2>3, <2>4
<1>8. CASE UNCHANGED searchVars
  BY <1>8 DEF searchVars, SearchTypeOK, Progress, Unsatisfied, IsWithinTolerance, OneIntervalPerAttempt
<1> QED
  BY <1>2, <1>3, <1>4, <1>5, <1>6, <1>7, <1>8 DEF SearchNext, Evaluate, Advance

LEMMA TInvAlways == SearchSpec => []TInv
<1> QED  BY TInvInit, TInvStep, PTL DEF SearchSpec

(* No counter of the search leaves its range, and every interval lies within *)
(* the ends of the search.                                                  *)
THEOREM SearchTypeInvariant == SearchSpec => []SearchTypeOK
<1>1. TInv => SearchTypeOK
  BY DEF TInv
<1> QED  BY <1>1, TInvAlways, PTL

LEMMA BoundHolds == TInv => IntervalsWithinBound
<1> SUFFICES ASSUME TInv PROVE IntervalsWithinBound
  OBVIOUS
<1>1. /\ attempt_count \in Nat /\ options.maximum_attempts \in Nat
      /\ attempt_count <= options.maximum_attempts /\ Len(intervals) \in Nat
  BY AttemptsAssumption DEF TInv, SearchTypeOK
<1> QED
  BY <1>1 DEF TInv, OneIntervalPerAttempt, IntervalsWithinBound, IntervalBound

(* The vector of open intervals stays within the storage admitted for it:    *)
(* SearchTargetSize never needs more entries than the plan counts.          *)
THEOREM BoundInvariant == SearchSpec => []IntervalsWithinBound
<1> QED  BY BoundHolds, TInvAlways, PTL

-----------------------------------------------------------------------------
(* No target is encoded twice: the open intervals lie apart, and no target  *)
(* encoded so far is inside one.                                            *)
Apart(a, b) == a.upper <= b.lower \/ b.upper <= a.lower
Outside(t, a) == t <= a.lower \/ t >= a.upper

Ascending(open) == \A i \in DOMAIN open : open[i].lower < open[i].upper
AllApart(open) == \A i, j \in DOMAIN open : i # j => Apart(open[i], open[j])
Clear(open, t) == \A i \in DOMAIN open : Outside(t, open[i])

DistinctTargets ==
  \A i, j \in DOMAIN evaluated : evaluated[i].target = evaluated[j].target => i = j

GInv == /\ Ascending(intervals) /\ AllApart(intervals)
        /\ \A k \in DOMAIN evaluated : Clear(intervals, evaluated[k].target)
        /\ DistinctTargets

(* What is left after the widest interval was taken are other intervals,    *)
(* each once.                                                               *)
LEMMA ClosedElements ==
  ASSUME intervals \in Seq(Interval), intervals # <<>>
  PROVE  LET w == WidestInterval(intervals) IN
         /\ \A t \in DOMAIN Closed : \E i \in DOMAIN intervals : i # w /\ Closed[t] = intervals[i]
         /\ \A t, u \in DOMAIN Closed : t # u =>
              \E i, j \in DOMAIN intervals :
                 i # j /\ Closed[t] = intervals[i] /\ Closed[u] = intervals[j]
<1> DEFINE w == WidestInterval(intervals)
           From(t) == IF t < w THEN t ELSE t + 1
<1>1. w \in DOMAIN intervals /\ Len(intervals) \in Nat
  BY WidestIsOpen
<1>2. /\ DOMAIN Closed = 1 .. Len(intervals) - 1
      /\ \A t \in 1 .. Len(intervals) - 1 : Closed[t] = intervals[From(t)]
  <2>1. /\ Closed \in Seq(Interval) /\ Len(Closed) = Len(intervals) - 1
        /\ \A t \in 1 .. Len(intervals) - 1 : Closed[t] = intervals[From(t)]
    BY <1>1, RemovedElements DEF Closed
  <2> QED  BY <2>1
<1>3. DOMAIN intervals = 1 .. Len(intervals)
  OBVIOUS
<1> HIDE DEF w
<1>4. \A t \in DOMAIN Closed : From(t) \in DOMAIN intervals /\ From(t) # w
  BY <1>1, <1>2, <1>3
<1>5. \A t, u \in DOMAIN Closed : t # u => From(t) # From(u)
  BY <1>1, <1>2, <1>3
<1>6. \A t \in DOMAIN Closed : \E i \in DOMAIN intervals : i # w /\ Closed[t] = intervals[i]
  BY <1>2, <1>4
<1>7. \A t, u \in DOMAIN Closed : t # u =>
        \E i, j \in DOMAIN intervals :
           i # j /\ Closed[t] = intervals[i] /\ Closed[u] = intervals[j]
  <2> SUFFICES ASSUME NEW t \in DOMAIN Closed, NEW u \in DOMAIN Closed, t # u
               PROVE  \E i, j \in DOMAIN intervals :
                        i # j /\ Closed[t] = intervals[i] /\ Closed[u] = intervals[j]
    OBVIOUS
  <2>1. From(t) \in DOMAIN intervals /\ From(u) \in DOMAIN intervals /\ From(t) # From(u)
    BY <1>4, <1>5
  <2>2. Closed[t] = intervals[From(t)] /\ Closed[u] = intervals[From(u)]
    BY <1>2
  <2> HIDE DEF From
  <2> QED  BY <2>1, <2>2
<1> QED
  BY <1>6, <1>7 DEF w

LEMMA ClosedGeometry ==
  ASSUME intervals \in Seq(Interval), intervals # <<>>,
         Ascending(intervals), AllApart(intervals)
  PROVE  /\ Ascending(Closed) /\ AllApart(Closed)
         /\ \A t : Clear(intervals, t) => Clear(Closed, t)
         /\ \A u \in DOMAIN Closed : Apart(Widest, Closed[u])
         /\ Widest.lower < Widest.upper
<1> DEFINE w == WidestInterval(intervals)
<1>1. w \in DOMAIN intervals /\ Widest = intervals[w]
  BY WidestIsOpen DEF Widest
<1>2. \A t \in DOMAIN Closed : \E i \in DOMAIN intervals : i # w /\ Closed[t] = intervals[i]
  BY ClosedElements
<1>3. \A t, u \in DOMAIN Closed : t # u =>
        \E i, j \in DOMAIN intervals :
           i # j /\ Closed[t] = intervals[i] /\ Closed[u] = intervals[j]
  BY ClosedElements
<1> HIDE DEF w
<1>4. Ascending(Closed)
  BY <1>2 DEF Ascending
<1>5. AllApart(Closed)
  BY <1>3 DEF AllApart
<1>6. \A t : Clear(intervals, t) => Clear(Closed, t)
  BY <1>2 DEF Clear
<1>7. \A u \in DOMAIN Closed : Apart(Widest, Closed[u])
  BY <1>1, <1>2 DEF AllApart
<1>8. Widest.lower < Widest.upper
  BY <1>1 DEF Ascending
<1> QED
  BY <1>4, <1>5, <1>6, <1>7, <1>8

(* Splitting the widest interval at a midpoint that is inside it.           *)
LEMMA SplitGeometry ==
  ASSUME intervals \in Seq(Interval), intervals # <<>>,
         Ascending(intervals), AllApart(intervals), Proper
  PROVE  LET split == Closed \o Halves(Widest)
             mid == Midpoint(Widest) IN
         /\ Ascending(split) /\ AllApart(split)
         /\ \A t \in Target : Clear(intervals, t) => Clear(split, t) /\ t # mid
         /\ Clear(Closed, mid) /\ Clear(split, mid)
<1> DEFINE split == Closed \o Halves(Widest)
           mid == Midpoint(Widest)
           n == Len(Closed)
<1>1. /\ WidestInterval(intervals) \in DOMAIN intervals /\ Widest \in Interval
      /\ Closed \in Seq(Interval) /\ split \in Seq(Interval) /\ n \in Nat
  BY Splitting
<1>2. /\ Widest.lower \in Nat /\ Widest.upper \in Nat /\ mid \in Nat
      /\ Widest.lower < mid /\ mid < Widest.upper
  <2>1. /\ Widest.lower \in Nat /\ Widest.upper \in Nat /\ mid \in Target
        /\ Widest.lower <= Widest.upper => Widest.lower <= mid /\ mid <= Widest.upper
    BY <1>1, MidpointBetween
  <2>2. mid \in Nat
    BY <2>1, GridAssumption DEF Target
  <2>3. Widest.lower < Widest.upper
    BY ClosedGeometry
  <2> QED  BY <2>1, <2>2, <2>3 DEF Proper
<1>3. /\ DOMAIN Closed = 1 .. n
      /\ DOMAIN split = 1 .. n + 2
      /\ \A t \in 1 .. n : split[t] = Closed[t]
      /\ split[n + 1] = [lower |-> Widest.lower, upper |-> mid]
      /\ split[n + 2] = [lower |-> mid, upper |-> Widest.upper]
  <2>1. /\ Halves(Widest) \in Seq(Interval) /\ Len(Halves(Widest)) = 2
        /\ Halves(Widest)[1] = [lower |-> Widest.lower, upper |-> mid]
        /\ Halves(Widest)[2] = [lower |-> mid, upper |-> Widest.upper]
    BY <1>1, HalvesType
  <2>2. /\ Len(split) = n + 2
        /\ \A t \in 1 .. n : split[t] = Closed[t]
        /\ \A t \in 1 .. 2 : split[n + t] = Halves(Widest)[t]
    <3>1. Closed \in Seq(Interval) /\ Halves(Widest) \in Seq(Interval)
      BY <1>1, <2>1
    <3>2. /\ Len(split) = Len(Closed) + Len(Halves(Widest))
          /\ \A t \in 1 .. Len(Closed) : split[t] = Closed[t]
          /\ \A t \in 1 .. Len(Halves(Widest)) : split[Len(Closed) + t] = Halves(Widest)[t]
      BY <3>1, Concatenation
    <3> QED  BY <2>1, <3>2
  <2>3. 1 \in 1 .. 2 /\ 2 \in 1 .. 2
    OBVIOUS
  <2> QED  BY <1>1, <2>1, <2>2, <2>3
<1>4. \A t \in 1 .. n : /\ Closed[t].lower \in Nat /\ Closed[t].upper \in Nat
                        /\ Closed[t].lower < Closed[t].upper
                        /\ Apart(Widest, Closed[t])
  <2>1. \A t \in 1 .. n : Closed[t] \in Interval
    BY <1>1, <1>3
  <2>2. \A t \in 1 .. n : Closed[t].lower < Closed[t].upper /\ Apart(Widest, Closed[t])
    BY <1>3, ClosedGeometry DEF Ascending
  <2> QED  BY <2>1, <2>2, MidpointBetween
<1> HIDE DEF split, mid, n
<1>5. \A t \in DOMAIN split : t \in 1 .. n \/ t = n + 1 \/ t = n + 2
  BY <1>1, <1>3
<1>6. Ascending(split)
  BY <1>2, <1>3, <1>4, <1>5 DEF Ascending
<1>7. AllApart(split)
  <2> SUFFICES ASSUME NEW t \in DOMAIN split, NEW u \in DOMAIN split, t # u
               PROVE  Apart(split[t], split[u])
    BY DEF AllApart
  <2>1. CASE t \in 1 .. n /\ u \in 1 .. n
    <3>1. Apart(Closed[t], Closed[u])
      BY <1>3, <2>1, ClosedGeometry DEF AllApart
    <3> QED  BY <1>3, <2>1, <3>1
  <2>2. CASE t \in 1 .. n /\ u \notin 1 .. n
    <3>1. split[t] = Closed[t] /\ Apart(Widest, Closed[t])
      BY <1>3, <1>4, <2>2
    <3> QED  BY <1>2, <1>3, <1>4, <1>5, <2>2, <3>1 DEF Apart
  <2>3. CASE t \notin 1 .. n /\ u \in 1 .. n
    <3>1. split[u] = Closed[u] /\ Apart(Widest, Closed[u])
      BY <1>3, <1>4, <2>3
    <3> QED  BY <1>2, <1>3, <1>4, <1>5, <2>3, <3>1 DEF Apart
  <2>4. CASE t \notin 1 .. n /\ u \notin 1 .. n
    BY <1>2, <1>3, <1>5, <2>4 DEF Apart
  <2> QED  BY <2>1, <2>2, <2>3, <2>4
<1>8. \A t \in Target : Clear(intervals, t) => Clear(split, t) /\ t # mid
  <2> SUFFICES ASSUME NEW t \in Target, Clear(intervals, t)
               PROVE  Clear(split, t) /\ t # mid
    OBVIOUS
  <2>1. t \in Nat
    BY GridAssumption DEF Target
  <2>2. Outside(t, Widest)
    BY <1>1 DEF Clear, Widest
  <2>3. \A u \in 1 .. n : Outside(t, Closed[u])
    BY <1>3, ClosedGeometry DEF Clear
  <2> QED  BY <1>2, <1>3, <1>5, <2>1, <2>2, <2>3 DEF Clear, Outside
<1>9. Clear(Closed, mid) /\ Clear(split, mid)
  BY <1>2, <1>3, <1>4, <1>5, SMTT(30) DEF Clear, Outside, Apart
<1> QED
  BY <1>6, <1>7, <1>8, <1>9 DEF split, mid

(* What one evaluation adds to the history.                                 *)
LEMMA EvaluationHistory ==
  ASSUME SearchTypeOK, NEW target \in Target, NEW answer \in Answers, NEW next,
         EvaluateCandidate(target, answer, next)
  PROVE  LET n == Len(evaluated) + 1 IN
         /\ DOMAIN evaluated' = DOMAIN evaluated \cup {n} /\ n \notin DOMAIN evaluated
         /\ \A k \in DOMAIN evaluated : evaluated'[k] = evaluated[k]
         /\ evaluated'[n] = [target |-> target, answer |-> answer]
<1>1. evaluated \in Seq([target : Target, answer : Answers])
  BY DEF SearchTypeOK
<1>2. evaluated' = Append(evaluated, [target |-> target, answer |-> answer])
  BY DEF EvaluateCandidate
<1> QED
  BY <1>1, <1>2

(* An evaluation of a target that is new, and that no interval left holds.   *)
LEMMA NewTarget ==
  ASSUME SearchTypeOK, GInv, NEW target \in Target, NEW answer \in Answers, NEW next,
         EvaluateCandidate(target, answer, next),
         \A k \in DOMAIN evaluated : /\ evaluated[k].target # target
                                     /\ Clear(intervals', evaluated[k].target),
         Clear(intervals', target), Ascending(intervals'), AllApart(intervals')
  PROVE  GInv'
<1> DEFINE n == Len(evaluated) + 1
<1>1. /\ DOMAIN evaluated' = DOMAIN evaluated \cup {n} /\ n \notin DOMAIN evaluated
      /\ \A k \in DOMAIN evaluated : evaluated'[k].target = evaluated[k].target
      /\ evaluated'[n].target = target
  <2>1. /\ DOMAIN evaluated' = DOMAIN evaluated \cup {n} /\ n \notin DOMAIN evaluated
        /\ \A k \in DOMAIN evaluated : evaluated'[k] = evaluated[k]
        /\ evaluated'[n] = [target |-> target, answer |-> answer]
    BY EvaluationHistory
  <2> HIDE DEF n
  <2> QED  BY <2>1
<1> HIDE DEF n
<1>2. \A k \in DOMAIN evaluated' : Clear(intervals', evaluated'[k].target)
  BY <1>1
<1>3. DistinctTargets'
  BY <1>1 DEF DistinctTargets, GInv
<1>4. Ascending(intervals)' /\ AllApart(intervals)'
  BY DEF Ascending, AllApart
<1>5. (\A k \in DOMAIN evaluated : Clear(intervals, evaluated[k].target))'
  BY <1>2 DEF Clear
<1> QED
  BY <1>3, <1>4, <1>5 DEF GInv

(* The intervals change beside an unchanged history.                        *)
LEMMA SameTargets ==
  ASSUME GInv, evaluated' = evaluated,
         \A k \in DOMAIN evaluated : Clear(intervals', evaluated[k].target),
         Ascending(intervals'), AllApart(intervals')
  PROVE  GInv'
<1>1. DistinctTargets'
  BY DEF GInv, DistinctTargets
<1>2. Ascending(intervals)' /\ AllApart(intervals)'
  BY DEF Ascending, AllApart
<1>3. (\A k \in DOMAIN evaluated : Clear(intervals, evaluated[k].target))'
  BY DEF Clear
<1> QED
  BY <1>1, <1>2, <1>3 DEF GInv

LEMMA EmptyGeometry == Ascending(<<>>) /\ AllApart(<<>>) /\ \A t : Clear(<<>>, t)
<1> QED  BY DEF Ascending, AllApart, Clear

LEMMA WholeGeometry ==
  Ascending(Whole) /\ AllApart(Whole) /\ \A t \in {Lower, Upper} : Clear(Whole, t)
<1>1. DOMAIN Whole = {1} /\ Whole[1].lower = Lower /\ Whole[1].upper = Upper
  BY DEF Whole
<1> QED
  BY <1>1, GridAssumption DEF Ascending, AllApart, Clear, Outside

LEMMA GInvInit == SearchInit => GInv
<1> QED  BY EmptyGeometry DEF SearchInit, GInv, DistinctTargets

LEMMA GInvStep == TInv /\ GInv /\ [SearchNext]_searchVars => GInv'
<1> SUFFICES ASSUME TInv, GInv, [SearchNext]_searchVars PROVE GInv'
  OBVIOUS
<1>1. /\ SearchTypeOK /\ Progress
      /\ evaluated \in Seq([target : Target, answer : Answers])
      /\ intervals \in Seq(Interval)
      /\ Lower \in Target /\ Upper \in Target /\ Lower # Upper
  BY GridAssumption DEF TInv, SearchTypeOK, Target
<1>2. ASSUME NEW answer \in Answers, EvaluateLower(answer)
      PROVE  GInv'
  <2>1. evaluated = <<>> /\ intervals' = <<>> /\ EvaluateCandidate(Lower, answer, "upper")
    BY <1>1, <1>2 DEF EvaluateLower, Progress
  <2>2. DOMAIN evaluated = {}
    BY <2>1
  <2> QED  BY <1>1, <2>1, <2>2, EmptyGeometry, NewTarget
<1>3. ASSUME NEW answer \in Answers, EvaluateUpper(answer)
      PROVE  GInv'
  <2>1. /\ intervals' \in {<<>>, Whole} /\ EvaluateCandidate(Upper, answer, "bisect")
        /\ \A k \in DOMAIN evaluated : evaluated[k].target = Lower
    BY <1>1, <1>3 DEF EvaluateUpper, Progress
  <2>2. /\ Ascending(intervals') /\ AllApart(intervals')
        /\ Clear(intervals', Lower) /\ Clear(intervals', Upper)
    BY <2>1, EmptyGeometry, WholeGeometry
  <2> QED  BY <1>1, <2>1, <2>2, NewTarget
<1>4. ASSUME NEW answer \in Answers, EvaluateMidpoint(answer)
      PROVE  GInv'
  <2> DEFINE mid == Midpoint(Widest)
             split == Closed \o Halves(Widest)
  <2>1. /\ intervals # <<>> /\ Proper /\ EvaluateCandidate(mid, answer, "bisect")
        /\ intervals' \in {Closed, split}
    BY <1>4 DEF EvaluateMidpoint, Open
  <2>2. mid \in Target
    BY <1>1, <2>1, Splitting, MidpointBetween
  <2>3. /\ Ascending(Closed) /\ AllApart(Closed)
        /\ \A t : Clear(intervals, t) => Clear(Closed, t)
    BY <1>1, <2>1, ClosedGeometry DEF GInv
  <2>4. /\ Ascending(split) /\ AllApart(split)
        /\ \A t \in Target : Clear(intervals, t) => Clear(split, t) /\ t # mid
        /\ Clear(Closed, mid) /\ Clear(split, mid)
    BY <1>1, <2>1, SplitGeometry DEF GInv
  <2>5. \A k \in DOMAIN evaluated : evaluated[k].target \in Target /\ Clear(intervals, evaluated[k].target)
    <3>1. \A k \in DOMAIN evaluated : evaluated[k] \in [target : Target, answer : Answers]
      BY <1>1, ElementType
    <3>2. \A k \in DOMAIN evaluated : evaluated[k].target \in Target
      BY <3>1
    <3> QED  BY <3>2 DEF GInv
  <2> HIDE DEF mid, split
  <2>6. \A k \in DOMAIN evaluated : evaluated[k].target # mid /\ Clear(intervals', evaluated[k].target)
    BY <2>1, <2>3, <2>4, <2>5
  <2>7. Clear(intervals', mid) /\ Ascending(intervals') /\ AllApart(intervals')
    BY <2>1, <2>3, <2>4
  <2> QED  BY <1>1, <2>1, <2>2, <2>6, <2>7, NewTarget
<1>5. CASE SkipUpper
  <2>1. /\ evaluated' = evaluated /\ intervals' = Whole
        /\ \A k \in DOMAIN evaluated : evaluated[k].target = Lower
    BY <1>1, <1>5 DEF SkipUpper, Progress
  <2> QED  BY <2>1, WholeGeometry, SameTargets
<1>6. CASE DropInterval
  <2>1. evaluated' = evaluated /\ intervals' = Closed /\ intervals # <<>>
    BY <1>6 DEF DropInterval, Open
  <2>2. /\ Ascending(Closed) /\ AllApart(Closed)
        /\ \A t : Clear(intervals, t) => Clear(Closed, t)
    BY <1>1, <2>1, ClosedGeometry DEF GInv
  <2>3. \A k \in DOMAIN evaluated : Clear(Closed, evaluated[k].target)
    BY <2>2 DEF GInv
  <2> QED  BY <2>1, <2>2, <2>3, SameTargets
<1>7. CASE Return \/ UNCHANGED searchVars
  <2>1. evaluated' = evaluated /\ intervals' = intervals
    BY <1>7 DEF Return, searchVars
  <2> QED  BY <2>1, SameTargets DEF GInv
<1> QED
  BY <1>2, <1>3, <1>4, <1>5, <1>6, <1>7 DEF SearchNext, Evaluate, Advance

-----------------------------------------------------------------------------
(* The retained candidate beats everything encoded so far.                  *)
BestInv ==
  /\ best # None => \E k \in Encoded : best = Made(k)
  /\ \A k \in Encoded : best # None /\ (Made(k) = best \/ Wins(best, Made(k)))

LEMMA MadeTypes ==
  ASSUME SearchTypeOK, NEW k \in Encoded
  PROVE  Made(k) \in Candidate
<1>1. evaluated[k] \in [target : Target, answer : Answers]
  <2>1. k \in DOMAIN evaluated /\ evaluated \in Seq([target : Target, answer : Answers])
    BY DEF SearchTypeOK, Encoded
  <2> QED  BY <2>1, ElementType
<1>2. evaluated[k].answer.bytes \in Sizes /\ evaluated[k].answer.score \in Scores
  BY <1>1 DEF Encoded, Answers
<1> QED
  BY <1>1, <1>2 DEF Made, Candidate

LEMMA NoneIsNoCandidate == None \notin Candidate
<1> QED  BY SizesAssumption DEF None, Candidate

LEMMA BestKept ==
  ASSUME SearchTypeOK, BestInv, NEW target \in Target, NEW answer \in Answers, NEW next,
         EvaluateCandidate(target, answer, next)
  PROVE  BestInv'
<1> DEFINE new == [target |-> target, bytes |-> answer.bytes, score |-> answer.score]
<1>1. PICK n :
        /\ DOMAIN evaluated' = DOMAIN evaluated \cup {n} /\ n \notin DOMAIN evaluated
        /\ \A k \in DOMAIN evaluated : evaluated'[k] = evaluated[k]
        /\ evaluated'[n] = [target |-> target, answer |-> answer]
  BY EvaluationHistory
<1>2. \A k \in Encoded : k \in Encoded' /\ Made(k)' = Made(k)
  BY <1>1 DEF Encoded, Made
<1>3. \A k \in Encoded' : k \in Encoded \/ k = n
  BY <1>1 DEF Encoded
<1>4. options' = options
  BY DEF EvaluateCandidate
<1>5. \A k : Wins(best, Made(k))' <=> Wins(best', Made(k)')
  BY <1>4 DEF Wins
<1>6. options.selection \in Policies /\ best \in Candidate \cup {None}
  BY DEF SearchTypeOK
<1>7. CASE answer.kind # "encoded"
  <2>1. best' = best
    BY <1>7 DEF EvaluateCandidate
  <2>2. n \notin Encoded'
    BY <1>1, <1>7 DEF Encoded
  <2>3. \A k \in Encoded' : k \in Encoded /\ Made(k)' = Made(k)
    BY <1>2, <1>3, <2>2
  <2> QED  BY <1>2, <1>5, <2>1, <2>3 DEF BestInv
<1>8. CASE answer.kind = "encoded"
  <2>1. best' = IF BetterCandidate(new, best) THEN new ELSE best
    BY <1>8 DEF EvaluateCandidate
  <2>2. n \in Encoded' /\ Made(n)' = new
    <3>1. evaluated'[n].target = target /\ evaluated'[n].answer = answer
      BY <1>1
    <3>2. n \in Encoded'
      BY <1>1, <1>8, <3>1 DEF Encoded
    <3>3. Made(n)' = [target |-> evaluated'[n].target, bytes |-> evaluated'[n].answer.bytes,
                      score |-> evaluated'[n].answer.score]
      BY DEF Made
    <3> QED  BY <3>1, <3>2, <3>3
  <2>3. new \in Candidate
    BY <1>8 DEF Candidate, Answers
  <2>4. new # None
    BY <2>3, NoneIsNoCandidate
  <2> HIDE DEF new
  <2>5. BetterCandidate(new, best) <=> best = None \/ Wins(new, best)
    BY DEF BetterCandidate, Wins
  <2>6. \A k \in Encoded : Made(k) \in Candidate
    BY MadeTypes
  <2>7. CASE BetterCandidate(new, best)
    <3>1. best' = new
      BY <2>1, <2>7
    <3>2. \A k \in Encoded : Made(k) = new \/ Wins(new, Made(k))
      <4> SUFFICES ASSUME NEW k \in Encoded PROVE Made(k) = new \/ Wins(new, Made(k))
        OBVIOUS
      <4>1. best # None /\ (Made(k) = best \/ Wins(best, Made(k)))
        BY DEF BestInv
      <4>2. Wins(new, best) /\ best \in Candidate
        BY <1>6, <2>5, <2>7, <4>1
      <4>3. Wins(best, Made(k)) => Wins(new, Made(k))
        BY <1>6, <2>3, <2>6, <4>2, WinsIsTransitive
      <4> QED  BY <4>1, <4>2, <4>3
    <3> QED
      <4>1. \A k \in Encoded' : Made(k)' = new \/ Wins(new, Made(k)')
        BY <1>2, <1>3, <2>2, <3>2
      <4>2. \A k \in Encoded' : best' # None /\ (Made(k)' = best' \/ Wins(best', Made(k)'))
        BY <2>4, <3>1, <4>1
      <4>3. best' # None => \E k \in Encoded' : best' = Made(k)'
        BY <2>2, <3>1
      <4> QED  BY <1>5, <4>2, <4>3 DEF BestInv
  <2>8. CASE ~BetterCandidate(new, best)
    <3>1. best' = best /\ best # None /\ ~Wins(new, best) /\ best \in Candidate
      BY <1>6, <2>1, <2>5, <2>8
    <3>2. new = best \/ Wins(best, new)
      BY <1>6, <2>3, <3>1, WinsIsTotal
    <3> QED
      <4>1. \A k \in Encoded' : Made(k)' = best \/ Wins(best, Made(k)')
        BY <1>2, <1>3, <2>2, <3>2 DEF BestInv
      <4>2. \A k \in Encoded' : best' # None /\ (Made(k)' = best' \/ Wins(best', Made(k)'))
        BY <3>1, <4>1
      <4>3. best' # None => \E k \in Encoded' : best' = Made(k)'
        BY <1>2, <3>1 DEF BestInv
      <4> QED  BY <1>5, <4>2, <4>3 DEF BestInv
  <2> QED  BY <2>7, <2>8
<1> QED
  BY <1>7, <1>8

LEMMA BestInvInit == SearchInit => BestInv
<1> QED  BY DEF SearchInit, BestInv, Encoded

LEMMA BestInvStep == TInv /\ BestInv /\ [SearchNext]_searchVars => BestInv'
<1> SUFFICES ASSUME TInv, BestInv, [SearchNext]_searchVars PROVE BestInv'
  OBVIOUS
<1>1. /\ SearchTypeOK /\ intervals \in Seq(Interval)
      /\ Lower \in Target /\ Upper \in Target
  BY GridAssumption DEF TInv, SearchTypeOK, Target
<1>2. ASSUME NEW answer \in Answers, Evaluate(answer)
      PROVE  BestInv'
  <2>1. CASE EvaluateLower(answer)
    BY <1>1, <2>1, BestKept DEF EvaluateLower
  <2>2. CASE EvaluateUpper(answer)
    BY <1>1, <2>2, BestKept DEF EvaluateUpper
  <2>3. CASE EvaluateMidpoint(answer)
    <3>1. Midpoint(Widest) \in Target
      BY <1>1, <2>3, Splitting, MidpointBetween DEF EvaluateMidpoint, Open
    <3> QED  BY <1>1, <2>3, <3>1, BestKept DEF EvaluateMidpoint
  <2> QED  BY <1>2, <2>1, <2>2, <2>3 DEF Evaluate
<1>3. CASE Advance \/ UNCHANGED searchVars
  <2>1. evaluated' = evaluated /\ best' = best /\ options' = options
    BY <1>3 DEF Advance, SkipUpper, DropInterval, Return, searchVars
  <2>2. Encoded' = Encoded /\ \A k : Made(k)' = Made(k)
    BY <2>1 DEF Encoded, Made
  <2>3. \A a, b : Wins(a, b)' <=> Wins(a, b)
    BY <2>1 DEF Wins
  <2> QED  BY <2>1, <2>2, <2>3 DEF BestInv
<1> QED
  BY <1>2, <1>3 DEF SearchNext

LEMMA BestHolds == TInv /\ GInv /\ BestInv => FindsBestCandidate
<1> SUFFICES ASSUME TInv, GInv, BestInv PROVE FindsBestCandidate
  OBVIOUS
<1>1. SearchTypeOK /\ options.selection \in Policies /\ best \in Candidate \cup {None}
  BY DEF TInv, SearchTypeOK
<1>2. step = "found" => \E k \in Encoded : best = Made(k)
  BY DEF TInv, Progress, BestInv
<1>3. ASSUME NEW k \in Encoded, Made(k) # best
      PROVE  Precedes(Preference(best), Preference(Made(k)))
  <2>1. best \in Candidate /\ Wins(best, Made(k))
    BY <1>1, <1>3 DEF BestInv
  <2> QED  BY <1>1, <2>1, MadeTypes, WinsIsPrecedes
<1> QED  BY <1>2, <1>3 DEF FindsBestCandidate, GInv, DistinctTargets

(* What the search returns is the best of all it encoded, whatever the order *)
(* of the targets it tried, and no target is encoded twice: SearchTargetSize *)
(* keeps one candidate, and the pairwise comparison with it is enough.      *)
THEOREM BestInvariant == SearchSpec => []FindsBestCandidate
<1>1. SearchInit => GInv /\ BestInv
  BY GInvInit, BestInvInit
<1>2. TInv /\ GInv /\ BestInv /\ [SearchNext]_searchVars => (GInv /\ BestInv)'
  BY GInvStep, BestInvStep
<1> QED
  BY <1>1, <1>2, BestHolds, TInvAlways, PTL DEF SearchSpec

-----------------------------------------------------------------------------
(* The planner's prediction of the search                                    *)

(* The predictor's loop: attempts made and the intervals open. *)
Walks(n) == (2 .. n) \X Seq(Interval)
Goes(n, w) == w[1] < n /\ w[2] # <<>>
Taken(open) == open[WidestInterval(open)]
Left(open) == RemoveAt(open, WidestInterval(open))
Tight(i) == Midpoint(i) \in {i.lower, i.upper}

(* The equation of Reaches *)
IsReach(r, n, matching) ==
  r = [walk \in Walks(n) |->
        /\ Goes(n, walk)
        /\ IF Tight(Taken(walk[2]))
             THEN r[<<walk[1], Left(walk[2])>>]
             ELSE \/ Midpoint(Taken(walk[2])) \in matching
                  \/ r[<<walk[1] + 1, Left(walk[2]) \o Halves(Taken(walk[2]))>>]]

Reach(n, matching) == CHOOSE r : IsReach(r, n, matching)

LEMMA Unroll ==
  ASSUME NEW n, NEW matching
  PROVE  TargetSizeSearchMayEvaluate(n, matching) <=>
           \/ Lower \in matching
           \/ n > 1 /\ (Upper \in matching \/ Reach(n, matching)[<<2, Whole>>])
BY Zenon DEF TargetSizeSearchMayEvaluate, Reach, IsReach, Walks, Goes, Taken, Left, Tight

(* Where the loop goes from there *)
Onward(w) == IF Tight(Taken(w[2])) THEN <<w[1], Left(w[2])>>
             ELSE <<w[1] + 1, Left(w[2]) \o Halves(Taken(w[2]))>>
Hits(w, matching) == ~Tight(Taken(w[2])) /\ Midpoint(Taken(w[2])) \in matching
Round(n, w, matching, from) == Goes(n, w) /\ (Hits(w, matching) \/ Onward(w) \in from)

LEMMA OnwardIsWalk ==
  ASSUME NEW n \in Nat, NEW w \in Walks(n), Goes(n, w)
  PROVE  Onward(w) \in Walks(n)
<1> DEFINE open == w[2]
<1>1. w[1] \in 2 .. n /\ open \in Seq(Interval) /\ open # <<>> /\ w[1] < n
  BY DEF Walks, Goes
<1>2. WidestInterval(open) \in DOMAIN open
  BY <1>1, WidestIsOpen
<1>3. Taken(open) \in Interval
  BY <1>1, <1>2, ElementType DEF Taken
<1>4. Left(open) \in Seq(Interval)
  BY <1>1, <1>2, RemovedElements DEF Left
<1>5. Left(open) \o Halves(Taken(open)) \in Seq(Interval)
  BY <1>3, <1>4, HalvesType, Concatenation
<1>6. w[1] + 1 \in 2 .. n
  BY <1>1
<1> HIDE DEF open
<1>7. QED
  BY <1>1, <1>4, <1>5, <1>6 DEF Onward, Walks, open

(* The equation has a solution: the least set closed under the loop's round. *)
LEMMA ReachExists ==
  ASSUME NEW n \in Nat, NEW matching
  PROVE  \E r : IsReach(r, n, matching)
<1> DEFINE Closure(x) == \A w \in Walks(n) : Round(n, w, matching, x) => w \in x
           T == {w \in Walks(n) : \A x \in SUBSET Walks(n) : Closure(x) => w \in x}
<1>1. \A x, y : x \subseteq y => \A w : Round(n, w, matching, x) => Round(n, w, matching, y)
  BY DEF Round
<1>2. \A w \in Walks(n) : Round(n, w, matching, T) => w \in T
  <2> SUFFICES ASSUME NEW w \in Walks(n), Round(n, w, matching, T),
                      NEW x \in SUBSET Walks(n), Closure(x)
               PROVE  w \in x
    OBVIOUS
  <2>1. T \subseteq x
    OBVIOUS
  <2>2. Round(n, w, matching, x)
    <3> HIDE DEF T
    <3> QED  BY <1>1, <2>1
  <2> QED  BY <2>2
<1>3. \A w \in T : Round(n, w, matching, T)
  <2> DEFINE x == {w \in T : Round(n, w, matching, T)}
  <2>1. x \subseteq T /\ x \in SUBSET Walks(n)
    OBVIOUS
  <2>2. Closure(x)
    <3> SUFFICES ASSUME NEW w \in Walks(n), Round(n, w, matching, x)
                 PROVE  w \in T /\ Round(n, w, matching, T)
      OBVIOUS
    <3>1. Round(n, w, matching, T)
      <4> HIDE DEF T, x
      <4> QED  BY <1>1, <2>1
    <3> QED  BY <1>2, <3>1
  <2>3. \A w \in T : w \in x
    <3> HIDE DEF x
    <3> QED  BY <2>1, <2>2
  <2> QED  BY <2>3
<1> DEFINE r == [w \in Walks(n) |-> w \in T]
<1>4. ASSUME NEW w \in Walks(n)
      PROVE  r[w] <=> /\ Goes(n, w)
                      /\ IF Tight(Taken(w[2]))
                           THEN r[<<w[1], Left(w[2])>>]
                           ELSE \/ Midpoint(Taken(w[2])) \in matching
                                \/ r[<<w[1] + 1, Left(w[2]) \o Halves(Taken(w[2]))>>]
  <2>1. r[w] <=> Round(n, w, matching, T)
    <3>1. r[w] <=> w \in T
      OBVIOUS
    <3> HIDE DEF T, r
    <3> QED  BY <1>2, <1>3, <3>1
  <2>2. CASE Goes(n, w)
    <3>1. Onward(w) \in Walks(n)
      BY <2>2, OnwardIsWalk
    <3>2. r[Onward(w)] <=> Onward(w) \in T
      BY <3>1
    <3> HIDE DEF T, r
    <3>3. CASE Tight(Taken(w[2]))
      <4>1. Onward(w) = <<w[1], Left(w[2])>>
        BY <3>3 DEF Onward
      <4> QED  BY <2>1, <2>2, <3>2, <3>3, <4>1 DEF Round, Hits
    <3>4. CASE ~Tight(Taken(w[2]))
      <4>1. Onward(w) = <<w[1] + 1, Left(w[2]) \o Halves(Taken(w[2]))>>
        BY <3>4 DEF Onward
      <4> QED  BY <2>1, <2>2, <3>2, <3>4, <4>1 DEF Round, Hits
    <3> QED  BY <3>3, <3>4
  <2>3. CASE ~Goes(n, w)
    <3> HIDE DEF T, r
    <3> QED  BY <2>1, <2>3 DEF Round
  <2> QED  BY <2>2, <2>3
<1>5. IsReach(r, n, matching)
  <2>1. \A w \in Walks(n) : r[w] \in BOOLEAN
    OBVIOUS
  <2>2. r = [w \in Walks(n) |-> r[w]]
    OBVIOUS
  <2> DEFINE body(w) == /\ Goes(n, w)
                        /\ IF Tight(Taken(w[2]))
                             THEN r[<<w[1], Left(w[2])>>]
                             ELSE \/ Midpoint(Taken(w[2])) \in matching
                                  \/ r[<<w[1] + 1, Left(w[2]) \o Halves(Taken(w[2]))>>]
  <2> HIDE DEF r
  <2>3. \A w : body(w) \in BOOLEAN
    BY Zenon
  <2>4. \A w \in Walks(n) : r[w] <=> body(w)
    BY <1>4, Zenon
  <2> SUFFICES r = [w \in Walks(n) |-> body(w)]
    BY Zenon DEF IsReach
  <2> HIDE DEF body
  <2>5. \A w \in Walks(n) : r[w] = body(w)
    BY <2>1, <2>3, <2>4, Zenon
  <2> QED  BY <2>2, <2>5, Zenon
<1> QED
  BY <1>5

(* One round of the loop. *)
LEMMA ReachRound ==
  ASSUME NEW n \in Nat, NEW matching, NEW w \in Walks(n)
  PROVE  Reach(n, matching)[w] <=>
           Goes(n, w) /\ (Hits(w, matching) \/ Reach(n, matching)[Onward(w)])
<1> DEFINE r == Reach(n, matching)
<1>1. IsReach(r, n, matching)
  BY ReachExists, Zenon DEF Reach
<1> HIDE DEF r
<1>2. r[w] = (/\ Goes(n, w)
              /\ IF Tight(Taken(w[2]))
                   THEN r[<<w[1], Left(w[2])>>]
                   ELSE \/ Midpoint(Taken(w[2])) \in matching
                        \/ r[<<w[1] + 1, Left(w[2]) \o Halves(Taken(w[2]))>>])
  BY <1>1, Zenon DEF IsReach
<1>3. CASE Tight(Taken(w[2]))
  <2>1. Onward(w) = <<w[1], Left(w[2])>>
    BY <1>3, Zenon DEF Onward
  <2> QED  BY <1>2, <1>3, <2>1, Zenon DEF Hits, r
<1>4. CASE ~Tight(Taken(w[2]))
  <2>1. Onward(w) = <<w[1] + 1, Left(w[2]) \o Halves(Taken(w[2]))>>
    BY <1>4, Zenon DEF Onward
  <2> QED  BY <1>2, <1>4, <2>1, Zenon DEF Hits, r
<1> QED  BY <1>3, <1>4, Zenon

(* The targets encoded so far; what the planner predicted; and what the     *)
(* predictor's loop still reaches from where the search is.                 *)
Seen == {evaluated[k].target : k \in DOMAIN evaluated}
Foreseen(matching) == TargetSizeSearchMayEvaluate(options.maximum_attempts, matching)
Ahead(matching) ==
  attempt_count >= 2 /\ Reach(options.maximum_attempts, matching)[<<attempt_count, intervals>>]

PInv ==
  /\ \A matching : Seen \cap matching # {} => Foreseen(matching)
  /\ step = "bisect" => \A matching : Ahead(matching) => Foreseen(matching)
  /\ \A t \in Target \ Seen : Foreseen({t}) =>
       /\ step = "bisect" => Met \/ Ahead({t})
       /\ step \in {"found", "failed"} => Met
  /\ step # "lower" => Lower \in Seen

(* The predictor takes the step the search takes. *)
LEMMA SearchRound ==
  ASSUME TInv, attempt_count >= 2, NEW matching
  PROVE  LET n == options.maximum_attempts
             mid == Midpoint(Widest) IN
         /\ Ahead(matching) => attempt_count < n /\ intervals # <<>>
         /\ (attempt_count < n /\ intervals # <<>> /\ Proper) =>
              (Ahead(matching) <=>
                 mid \in matching \/ Reach(n, matching)[<<attempt_count + 1, Closed \o Halves(Widest)>>])
         /\ (attempt_count < n /\ intervals # <<>> /\ ~Proper) =>
              (Ahead(matching) <=> Reach(n, matching)[<<attempt_count, Closed>>])
<1> DEFINE n == options.maximum_attempts
           w == <<attempt_count, intervals>>
<1>1. /\ n \in Nat /\ attempt_count \in 2 .. n /\ intervals \in Seq(Interval)
  BY AttemptsAssumption DEF TInv, SearchTypeOK
<1>2. w \in Walks(n) /\ w[1] = attempt_count /\ w[2] = intervals
  BY <1>1 DEF Walks
<1>3. Taken(intervals) = Widest /\ Left(intervals) = Closed /\ (Tight(Widest) <=> ~Proper)
  BY DEF Taken, Widest, Left, Closed, Tight, Proper
<1>4. Ahead(matching) <=> Goes(n, w) /\ (Hits(w, matching) \/ Reach(n, matching)[Onward(w)])
  <2>1. Ahead(matching) <=> Reach(n, matching)[w]
    BY DEF Ahead
  <2> HIDE DEF w, n
  <2> QED  BY <1>1, <1>2, <2>1, ReachRound
<1>5. Goes(n, w) <=> attempt_count < n /\ intervals # <<>>
  BY <1>2 DEF Goes
<1>6. Hits(w, matching) <=> Proper /\ Midpoint(Widest) \in matching
  BY <1>2, <1>3, Zenon DEF Hits
<1>7. Proper => Onward(w) = <<attempt_count + 1, Closed \o Halves(Widest)>>
  BY <1>2, <1>3, Zenon DEF Onward
<1>8. ~Proper => Onward(w) = <<attempt_count, Closed>>
  BY <1>2, <1>3, Zenon DEF Onward
<1> HIDE DEF n, w
<1> QED
  BY <1>4, <1>5, <1>6, <1>7, <1>8, Zenon DEF n

LEMMA Unforeseen ==
  ASSUME NEW n \in Nat, NEW matching, TargetSizeSearchMayEvaluate(n, matching),
         Lower \notin matching
  PROVE  n > 1 /\ (Upper \in matching \/ Reach(n, matching)[<<2, Whole>>])
BY Unroll

(* What an evaluation adds to the targets seen *)
LEMMA SeenGrows ==
  ASSUME SearchTypeOK, NEW target \in Target, NEW answer \in Answers, NEW next,
         EvaluateCandidate(target, answer, next)
  PROVE  Seen' = Seen \cup {target}
<1> DEFINE n == Len(evaluated) + 1
<1>1. /\ DOMAIN evaluated' = DOMAIN evaluated \cup {n} /\ n \notin DOMAIN evaluated
      /\ \A k \in DOMAIN evaluated : evaluated'[k] = evaluated[k]
      /\ evaluated'[n] = [target |-> target, answer |-> answer]
  BY EvaluationHistory
<1>2. evaluated'[n].target = target
  BY <1>1
<1> HIDE DEF n
<1> QED
  BY <1>1, <1>2 DEF Seen

LEMMA PInvInit == SearchInit => PInv
<1> SUFFICES ASSUME SearchInit PROVE PInv
  OBVIOUS
<1>1. Seen = {} /\ step = "lower"
  BY DEF SearchInit, Seen
<1> QED
  BY <1>1 DEF PInv

(* The options are those of the prediction. *)
LEMMA ForeseenKept ==
  ASSUME options' = options, NEW matching
  PROVE  Foreseen(matching)' <=> Foreseen(matching)
BY DEF Foreseen

LEMMA PInvStep == TInv /\ PInv /\ [SearchNext]_searchVars => PInv'
<1> SUFFICES ASSUME TInv, PInv, [SearchNext]_searchVars PROVE PInv'
  OBVIOUS
<1>1. /\ SearchTypeOK /\ Progress
      /\ attempt_count \in Nat /\ options.maximum_attempts \in Nat
      /\ options.maximum_attempts >= 1 /\ attempt_count <= options.maximum_attempts
      /\ intervals \in Seq(Interval)
  BY AttemptsAssumption DEF TInv, SearchTypeOK
<1>2. ASSUME NEW answer \in Answers, EvaluateLower(answer)
      PROVE  PInv'
  <2>1. Lower \in Target /\ EvaluateCandidate(Lower, answer, "upper")
    BY <1>2, GridAssumption DEF EvaluateLower, Target
  <2>2. Seen' = Seen \cup {Lower}
    BY <1>1, <2>1, SeenGrows
  <2>3. step' \in {"error", "upper"} /\ options' = options
    BY <2>1 DEF EvaluateCandidate
  <2>4. ASSUME NEW matching, Seen' \cap matching # {} PROVE Foreseen(matching)'
    <3>1. Lower \in matching => Foreseen(matching)
      BY Unroll DEF Foreseen
    <3> QED  BY <2>2, <2>3, <2>4, <3>1, ForeseenKept DEF PInv
  <2> QED  BY <2>2, <2>3, <2>4 DEF PInv
<1>3. ASSUME NEW answer \in Answers, EvaluateUpper(answer)
      PROVE  PInv'
  <2>1. /\ Upper \in Target /\ EvaluateCandidate(Upper, answer, "bisect")
        /\ attempt_count = 1 /\ options.maximum_attempts > 1 /\ step = "upper"
    BY <1>1, <1>3, GridAssumption DEF EvaluateUpper, Target, Unsatisfied, Progress
  <2>2. Seen' = Seen \cup {Upper}
    BY <1>1, <2>1, SeenGrows
  <2>3. /\ step' \in {"error", "bisect"} /\ options' = options /\ attempt_count' = 2
        /\ step' = "bisect" => intervals' = Whole
    BY <1>3, <2>1 DEF EvaluateCandidate, EvaluateUpper
  <2>4. ASSUME NEW matching, Seen' \cap matching # {} PROVE Foreseen(matching)'
    <3>1. Upper \in matching => Foreseen(matching)
      BY <2>1, Unroll DEF Foreseen
    <3> QED  BY <2>2, <2>3, <2>4, <3>1, ForeseenKept DEF PInv
  <2>5. ASSUME step' = "bisect", NEW matching
        PROVE  Ahead(matching)' <=> Reach(options.maximum_attempts, matching)[<<2, Whole>>]
    BY <2>3, <2>5 DEF Ahead
  <2>6. ASSUME step' = "bisect", NEW matching, Ahead(matching)' PROVE Foreseen(matching)'
    <3>1. Foreseen(matching)
      BY <2>1, <2>5, <2>6, Unroll DEF Foreseen
    <3> QED  BY <2>3, <3>1, ForeseenKept
  <2>7. ASSUME step' = "bisect", NEW t \in Target \ Seen', Foreseen({t})' PROVE Ahead({t})'
    <3>1. t # Lower /\ t # Upper
      BY <2>1, <2>2 DEF PInv
    <3>2. Foreseen({t})
      BY <2>3, <2>7, ForeseenKept
    <3>3. Reach(options.maximum_attempts, {t})[<<2, Whole>>]
      BY <1>1, <3>1, <3>2, Unforeseen DEF Foreseen
    <3> QED  BY <2>5, <2>7, <3>3
  <2>8. Lower \in Seen'
    BY <2>1, <2>2 DEF PInv
  <2> QED  BY <2>3, <2>4, <2>6, <2>7, <2>8 DEF PInv
<1>4. ASSUME NEW answer \in Answers, EvaluateMidpoint(answer)
      PROVE  PInv'
  <2> DEFINE mid == Midpoint(Widest)
             n == options.maximum_attempts
  <2>1. /\ intervals # <<>> /\ attempt_count >= 2 /\ attempt_count < n
        /\ Proper /\ ~Met /\ step = "bisect"
        /\ mid \in Target /\ EvaluateCandidate(mid, answer, "bisect")
    <3>1. intervals # <<>> /\ Unsatisfied(attempt_count, best) /\ step = "bisect" /\ Proper
      BY <1>4 DEF EvaluateMidpoint, Open
    <3>2. mid \in Target
      BY <1>1, <3>1, Splitting, MidpointBetween
    <3> QED  BY <1>1, <1>4, <3>1, <3>2 DEF EvaluateMidpoint, Progress, Unsatisfied, Met
  <2>2. Seen' = Seen \cup {mid}
    BY <1>1, <2>1, SeenGrows
  <2>3. /\ step' \in {"error", "bisect"} /\ options' = options
        /\ attempt_count' = attempt_count + 1
        /\ step' = "bisect" => intervals' = Closed \o Halves(Widest)
    BY <1>4, <2>1 DEF EvaluateCandidate, EvaluateMidpoint
  <2>4. ASSUME NEW matching
        PROVE  Ahead(matching) <=>
                 mid \in matching \/ Reach(n, matching)[<<attempt_count + 1, Closed \o Halves(Widest)>>]
    BY <2>1, SearchRound
  <2>5. ASSUME step' = "bisect", NEW matching
        PROVE  Ahead(matching)' <=>
                 Reach(n, matching)[<<attempt_count + 1, Closed \o Halves(Widest)>>]
    <3>1. attempt_count' = attempt_count + 1 /\ attempt_count' >= 2
      BY <1>1, <2>1, <2>3
    <3>2. intervals' = Closed \o Halves(Widest) /\ options' = options
      BY <2>3, <2>5
    <3> QED  BY <3>1, <3>2, Zenon DEF Ahead
  <2> HIDE DEF mid, n
  <2>6. ASSUME NEW matching, Seen' \cap matching # {} PROVE Foreseen(matching)'
    <3>1. mid \in matching => Foreseen(matching)
      BY <2>1, <2>4 DEF PInv
    <3> QED  BY <2>2, <2>3, <2>6, <3>1, ForeseenKept DEF PInv
  <2>7. ASSUME step' = "bisect", NEW matching, Ahead(matching)' PROVE Foreseen(matching)'
    <3>1. Foreseen(matching)
      BY <2>1, <2>4, <2>5, <2>7 DEF PInv
    <3> QED  BY <2>3, <3>1, ForeseenKept
  <2>8. ASSUME step' = "bisect", NEW t \in Target \ Seen', Foreseen({t})' PROVE Ahead({t})'
    <3>1. t # mid /\ t \in Target \ Seen
      BY <2>2
    <3>2. Foreseen({t})
      BY <2>3, <2>8, ForeseenKept
    <3>3. Ahead({t})
      BY <2>1, <3>1, <3>2 DEF PInv
    <3> QED  BY <2>4, <2>5, <2>8, <3>1, <3>3
  <2>9. Lower \in Seen'
    BY <2>1, <2>2 DEF PInv
  <2> QED  BY <2>3, <2>6, <2>7, <2>8, <2>9 DEF PInv
<1>5. CASE SkipUpper
  <2>1. /\ step = "upper" /\ step' = "bisect" /\ intervals' = Whole
        /\ ~Unsatisfied(attempt_count, best) /\ attempt_count = 1
        /\ UNCHANGED <<options, attempt_count, best, evaluated>>
    BY <1>1, <1>5 DEF SkipUpper, Progress
  <2>2. Seen' = Seen /\ (Met' <=> Met) /\ \A matching : ~Ahead(matching)'
    BY <2>1 DEF Seen, Met, IsWithinTolerance, Ahead
  <2>3. ASSUME NEW t \in Target \ Seen, Foreseen({t}) PROVE Met
    <3>1. t # Lower
      BY <2>1 DEF PInv
    <3>2. options.maximum_attempts > 1
      BY <1>1, <2>3, <3>1, Unforeseen DEF Foreseen
    <3> QED  BY <1>1, <2>1, <3>2 DEF Unsatisfied, Met
  <2>4. \A matching : Foreseen(matching)' <=> Foreseen(matching)
    BY <2>1, ForeseenKept
  <2> QED  BY <2>1, <2>2, <2>3, <2>4 DEF PInv
<1>6. CASE DropInterval
  <2>1. /\ step = "bisect" /\ step' = "bisect" /\ intervals' = Closed /\ intervals # <<>>
        /\ Unsatisfied(attempt_count, best) /\ ~Proper
        /\ UNCHANGED <<options, attempt_count, best, evaluated>>
    BY <1>6 DEF DropInterval, Open
  <2>2. attempt_count >= 2 /\ attempt_count < options.maximum_attempts /\ ~Met
    BY <1>1, <2>1 DEF Progress, Unsatisfied, Met
  <2>3. Seen' = Seen /\ (Met' <=> Met)
    BY <2>1 DEF Seen, Met, IsWithinTolerance
  <2>4. \A matching : Ahead(matching)' <=> Ahead(matching)
    <3> TAKE matching
    <3>1. Ahead(matching) <=>
            Reach(options.maximum_attempts, matching)[<<attempt_count, Closed>>]
      BY <2>1, <2>2, SearchRound
    <3>2. Ahead(matching)' <=>
            Reach(options.maximum_attempts, matching)[<<attempt_count, Closed>>]
      BY <2>1, <2>2 DEF Ahead
    <3> QED  BY <3>1, <3>2
  <2>5. \A matching : Foreseen(matching)' <=> Foreseen(matching)
    BY <2>1, ForeseenKept
  <2> QED  BY <2>1, <2>3, <2>4, <2>5 DEF PInv
<1>7. CASE Return
  <2>1. /\ step = "bisect" /\ step' \in {"found", "failed"} /\ ~Open
        /\ UNCHANGED <<options, attempt_count, best, intervals, evaluated>>
    BY <1>7 DEF Return
  <2>2. Seen' = Seen /\ (Met' <=> Met)
    BY <2>1 DEF Seen, Met, IsWithinTolerance
  <2>3. ASSUME NEW matching, Ahead(matching) PROVE Met
    <3>1. attempt_count >= 2
      BY <2>3 DEF Ahead
    <3>2. attempt_count < options.maximum_attempts /\ intervals # <<>>
      BY <2>3, <3>1, SearchRound
    <3> QED  BY <2>1, <3>2 DEF Open, Unsatisfied, Met
  <2>4. \A matching : Foreseen(matching)' <=> Foreseen(matching)
    BY <2>1, ForeseenKept
  <2> QED  BY <2>1, <2>2, <2>3, <2>4 DEF PInv
<1>8. CASE UNCHANGED searchVars
  <2>1. UNCHANGED <<options, step, attempt_count, best, intervals, evaluated>>
    BY <1>8 DEF searchVars
  <2>2. /\ Seen' = Seen /\ (Met' <=> Met)
        /\ \A matching : Ahead(matching)' <=> Ahead(matching)
        /\ \A matching : Foreseen(matching)' <=> Foreseen(matching)
    BY <2>1 DEF Seen, Met, IsWithinTolerance, Ahead, Foreseen
  <2> QED  BY <2>1, <2>2 DEF PInv
<1> QED
  BY <1>2, <1>3, <1>4, <1>5, <1>6, <1>7, <1>8 DEF SearchNext, Evaluate, Advance

LEMMA PredictionHolds == PInv => PredictionCovers
<1> SUFFICES ASSUME PInv PROVE PredictionCovers
  OBVIOUS
<1>1. \A t \in Seen : Foreseen({t})
  BY DEF PInv
<1>2. step \in {"found", "failed"} /\ ~Met => \A t \in Target \ Seen : ~Foreseen({t})
  BY DEF PInv
<1> QED
  BY <1>1, <1>2, Zenon DEF PredictionCovers, Seen, Foreseen

(* The planner and the search walk over the same targets: whatever is       *)
(* encoded was predicted, and a search that spent its attempts without      *)
(* meeting the size encoded all that was predicted.                         *)
THEOREM PredictionInvariant == SearchSpec => []PredictionCovers
<1> QED  BY PredictionHolds, PInvInit, PInvStep, TInvAlways, PTL DEF SearchSpec

-----------------------------------------------------------------------------
(* The encode                                                              *)

(* The encode drives the search by the search's own steps. *)
LEMMA SearchSteps == [Next]_vars => [SearchNext]_searchVars
<1> SUFFICES ASSUME [Next]_vars PROVE [SearchNext]_searchVars
  OBVIOUS
<1>1. ASSUME NEW left, AttemptFails(left) PROVE [SearchNext]_searchVars
  <2>1. CASE Searching
    <3>1. PICK kind \in {"failed", "plan_exceeded"} : Evaluate([kind |-> kind])
      BY <1>1, <2>1 DEF AttemptFails
    <3>2. [kind |-> kind] \in Answers
      BY DEF Answers
    <3> QED  BY <3>1, <3>2 DEF SearchNext
  <2>2. CASE ~Searching
    BY <1>1, <2>2 DEF AttemptFails
  <2> QED  BY <2>1, <2>2
<1>2. CASE PlanWorkflowAdmission \/ Admit \/ Preselect \/ PrepareWorkflow
  BY <1>2 DEF PlanWorkflowAdmission, Admit, Preselect, PrepareWorkflow
<1>3. CASE StartAttempt
  BY <1>1, <1>3 DEF StartAttempt
<1>4. CASE Frontend
  BY <1>1, <1>4 DEF Frontend
<1>5. CASE SearchStrategies
  BY <1>1, <1>5 DEF SearchStrategies
<1>6. CASE Quantize
  BY <1>1, <1>6 DEF Quantize
<1>7. CASE Serialize
  <2>1. ASSUME NEW answer \in Answers, Evaluate(answer) PROVE [SearchNext]_searchVars
    BY <2>1 DEF SearchNext
  <2> QED  BY <1>1, <1>7, <2>1 DEF Serialize
<1>8. CASE AdvanceSearch
  BY <1>8 DEF AdvanceSearch, SearchNext
<1>9. CASE FinishSearch \/ OtherResolves \/ UNCHANGED vars
  BY <1>9 DEF FinishSearch, OtherResolves, vars
<1> QED
  BY <1>2, <1>3, <1>4, <1>5, <1>6, <1>7, <1>8, <1>9 DEF Next, Encode, Attempt

LEMMA SearchOfEncode == Spec => [](TInv /\ PInv)
<1>1. Init => TInv /\ PInv
  BY TInvInit, PInvInit DEF Init
<1>2. TInv /\ PInv /\ [Next]_vars => (TInv /\ PInv)'
  BY SearchSteps, TInvStep, PInvStep
<1> QED  BY <1>1, <1>2, PTL DEF Spec

-----------------------------------------------------------------------------
Running == {"frontend", "strategy", "quantize", "serialize"}
Phases == {"plan", "admit", "select", "prepare", "attempt", "done", "failed"} \cup Running
Prepares == {"attempt"} \cup Running

Evaluations == [backend : {"metal", "cuda"}, kind : {"frame_only", "exact", "resident"},
                scale : {2, 3, 4}]
Preparations == [present : {TRUE}, released : BOOLEAN, opsin : BOOLEAN,
                 resident_input : BOOLEAN, compatibility_output : BOOLEAN,
                 ac_search : BOOLEAN, evaluation : {NoEvaluation} \cup Evaluations,
                 correlation : {"none", "fast", "accurate"}]

(* The backend b is one that the route has owners for. *)
Agrees(b) ==
  IF Automatic
    THEN /\ b \in {"cpu", "metal"}
         /\ route = "cpu" => b = "cpu"
         /\ route = "metal" => b = "metal"
    ELSE b = request.backend

(* No attempt of an automatic encode will select Metal, and every one will. *)
CpuForGood ==
  \/ request.control = "maximum_error"
  \/ ~request.geometry \/ ~request.capable \/ ~request.qualified
  \/ metal \in {"unavailable", "internal"}
  \/ request.control = "target" /\ request.target \notin request.eligible
  \/ Searching /\ (request.aq = "fully_resident" \/ ~Foreseen(request.eligible))

MetalForGood ==
  /\ request.control = "target" /\ request.target \in request.eligible
  /\ request.geometry /\ request.capable /\ request.qualified /\ metal = "ok"

WorkflowTypes ==
  /\ request \in Requests /\ phase \in Phases
  /\ metal \in {"unset", "ok", "unavailable", "internal"}
  /\ ~Searching => best = None /\ options.maximum_attempts = 1

RouteSound ==
  /\ phase = "plan" => route = "none"
  /\ phase \notin {"plan", "failed"} => route # "none"
  /\ route # "none" =>
       IF Automatic
         THEN \/ route = "cpu" /\ CpuForGood
              \/ route = "metal" /\ MetalForGood
              \/ route = "automatic_exact_search" /\ Searching /\ request.aq = "exact"
         ELSE route = request.backend

PreselectSound ==
  /\ phase \in {"plan", "admit", "select"} => preselected = "none"
  /\ phase \in {"prepare"} \cup Prepares =>
       IF ResidentInputCandidate
         THEN preselected \in {"cpu", "metal", "cuda"} /\ Agrees(preselected)
         ELSE preselected = "none"

AttemptSound ==
  /\ phase \notin Running => attempt = Idle
  /\ phase \in Running =>
       /\ attempt.running /\ attempt.backend \in {"cpu", "metal", "cuda"}
       /\ Agrees(attempt.backend)
       /\ preselected # "none" => attempt.backend = preselected
       /\ Searching => WantsCandidate
       /\ attempt.retain <=> RetainPreparation

(* What an attempt may leave of the preparation p to the next, for request  *)
(* r, route way and the backend before that was selected in advance.        *)
Suitable(r, way, before, p) ==
  /\ p \in Preparations
  /\ p.opsin => ~Accelerator(before)
  /\ p.resident_input => Accelerator(before)
  /\ ~p.released => p.opsin \/ p.resident_input
  /\ p.ac_search => r.strategy # "fixed" /\ r.aq # "maximum_throughput" /\ way # "cpu"
  /\ p.evaluation # NoEvaluation => way # "cpu"
  /\ p.compatibility_output => way = "cpu" \/ ~Resident(r.aq)

(* What an attempt has done to it so far *)
Progressed(p) ==
  /\ phase \in {"frontend", "strategy", "quantize"} => ~p.released
  /\ phase = "strategy" => Path \in {"exact", "resident"}
  /\ phase \in {"strategy", "quantize"} =>
       /\ Path \in {"cpu", "exact"} => p.correlation = "accurate"
       /\ Path = "resident" => p.correlation = "fast"
  /\ (phase = "strategy" /\ Path = "resident")
       \/ (phase = "quantize" /\ Path # "cpu" /\ ~HostFrameOnly) =>
         p.evaluation.scale = ScaleOf(attempt.target)
  /\ (phase \in {"quantize", "serialize"} /\ Path = "resident" /\ p.ac_search) =>
         attempt.retain \/ request.strategy = "deferred"
  /\ (phase = "serialize" /\ p.released) => ~attempt.retain
  /\ (phase = "attempt" /\ p.released) =>
         Searching /\ attempt_count >= options.maximum_attempts

PreparedSound ==
  /\ phase \notin Prepares => prepared = Nothing
  /\ phase \in Prepares => Suitable(request, route, preselected, prepared) /\ Progressed(prepared)

FrameSound ==
  /\ phase # "serialize" => frame = NoFrame
  /\ phase = "serialize" => frame.kind = FrameKind
  /\ FrameMatchesAttempt

WInv == /\ WorkflowTypes /\ RouteSound /\ PreselectSound /\ AttemptSound
        /\ PreparedSound /\ FrameSound

LEMMA WInvInit == Init => WInv
<1> SUFFICES ASSUME Init PROVE WInv
  OBVIOUS
<1>1. phase = "plan" /\ phase \notin Prepares /\ phase \notin Running /\ phase \in Phases
  BY DEF Init, Prepares, Running, Phases
<1>2. WorkflowTypes
  BY <1>1 DEF Init, SearchInit, WorkflowTypes, Searching
<1>3. RouteSound /\ PreselectSound /\ AttemptSound
  BY <1>1 DEF Init, RouteSound, PreselectSound, AttemptSound
<1>4. PreparedSound /\ FrameSound
  BY <1>1 DEF Init, PreparedSound, FrameSound, FrameMatchesAttempt
<1> QED
  BY <1>2, <1>3, <1>4 DEF WInv

-----------------------------------------------------------------------------
(* What a request is. *)
LEMMA RequestFields ==
  ASSUME WorkflowTypes
  PROVE  /\ request.backend \in {"automatic", "cpu", "metal", "cuda"}
         /\ request.aq \in {"exact", "fully_resident", "throughput", "maximum_throughput"}
         /\ request.control \in {"target", "search", "maximum_error"}
         /\ request.strategy \in {"fixed", "deferred", "separate"}
         /\ request.target \in Target
         /\ request.eligible # {}
         /\ request.aq \in {"throughput", "maximum_throughput"} => Accelerator(request.backend)
         /\ request.aq = "maximum_throughput" => request.control # "maximum_error"
<1>1. request \in Requests
  BY DEF WorkflowTypes
<1> DEFINE Intervals == {a .. b : a \in Target, b \in Target}
<1>2. request.eligible \in Intervals \ {{}}
  BY <1>1 DEF Requests
<1> HIDE DEF Intervals
<1>4. request.eligible # {}
  BY <1>2
<1>5. ValidRequest(request)
  BY <1>1 DEF Requests
<1>6. /\ request.backend \in {"automatic", "cpu", "metal", "cuda"}
      /\ request.aq \in {"exact", "fully_resident", "throughput", "maximum_throughput"}
      /\ request.control \in {"target", "search", "maximum_error"}
      /\ request.strategy \in {"fixed", "deferred", "separate"}
      /\ request.target \in Target
  BY <1>1 DEF Requests
<1> QED
  BY <1>4, <1>5, <1>6 DEF ValidRequest

(* Metal's status is decided once. *)
MetalMoves == metal' = metal \/ (metal = "unset" /\ metal' \in {"ok", "unavailable", "internal"})

LEMMA MetalResolves ==
  ASSUME WorkflowTypes, NEW status, ResolveProductionMetalBackend(status)
  PROVE  MetalMoves /\ status = metal' /\ metal' \in {"ok", "unavailable", "internal"}
BY DEF ResolveProductionMetalBackend, MetalMoves, WorkflowTypes

(* What SelectAttemptBackend may choose. *)
LEMMA Selecting ==
  ASSUME WorkflowTypes, NEW preference \in {"automatic", "cpu", "metal", "cuda"},
         NEW control, NEW target, NEW chosen,
         SelectAttemptBackend(preference, control, target, chosen)
  PROVE  /\ MetalMoves
         /\ ~Failed(chosen) =>
              /\ preference # "automatic" => chosen = preference
              /\ preference = "automatic" => chosen \in {"cpu", "metal"}
              /\ (preference = "automatic" /\ chosen = "metal") =>
                   /\ control # "maximum_error" /\ target \in request.eligible
                   /\ request.geometry /\ request.capable /\ request.qualified
                   /\ metal' = "ok"
              /\ (preference = "automatic" /\ chosen = "cpu") =>
                   \/ control = "maximum_error" \/ target \notin request.eligible
                   \/ ~request.geometry \/ ~request.capable \/ ~request.qualified
                   \/ metal' \in {"unavailable", "internal"}
<1>1. CASE ~ShouldResolve(preference, control, target)
  <2>1. chosen = "cpu" /\ metal' = metal
    BY <1>1 DEF SelectAttemptBackend
  <2>2. preference \in {"automatic", "cpu"}
    BY <1>1 DEF ShouldResolve, Accelerator
  <2> QED  BY <1>1, <2>1, <2>2 DEF ShouldResolve, MetalMoves
<1>2. CASE ShouldResolve(preference, control, target)
  <2>1. PICK status \in {"ok", "unavailable", "internal"} :
          /\ IF preference = "cuda" THEN ResolveProductionCudaBackend(status)
                                    ELSE ResolveProductionMetalBackend(status)
          /\ chosen = IF status = "internal" THEN status
                      ELSE IF Accelerator(preference)
                        THEN IF status = "ok" /\ request.capable THEN preference ELSE "unavailable"
                      ELSE IF status = "ok" /\ request.capable /\ request.qualified
                        THEN "metal" ELSE "cpu"
    BY <1>2 DEF SelectAttemptBackend
  <2>2. preference # "cpu"
    BY <1>2 DEF ShouldResolve, Accelerator
  <2>3. CASE preference = "cuda"
    <3>1. metal' = metal
      BY <2>1, <2>3 DEF ResolveProductionCudaBackend
    <3>2. ~Failed(chosen) => chosen = "cuda"
      BY <2>1, <2>3 DEF Failed, Accelerator
    <3> QED  BY <2>3, <3>1, <3>2 DEF MetalMoves
  <2>4. CASE preference = "metal"
    <3>1. MetalMoves
      BY <2>1, <2>4, MetalResolves
    <3>2. ~Failed(chosen) => chosen = "metal"
      BY <2>1, <2>4 DEF Failed, Accelerator
    <3> QED  BY <2>4, <3>1, <3>2
  <2>5. CASE preference = "automatic"
    <3>1. MetalMoves /\ status = metal'
      BY <2>1, <2>5, MetalResolves
    <3>2. control # "maximum_error" /\ request.geometry /\ target \in request.eligible
      BY <1>2, <2>5 DEF ShouldResolve, Accelerator
    <3>3. chosen = IF status = "internal" THEN "internal"
                   ELSE IF status = "ok" /\ request.capable /\ request.qualified
                          THEN "metal" ELSE "cpu"
      BY <2>1, <2>5 DEF Accelerator
    <3>4. CASE chosen = "metal"
      BY <2>5, <3>1, <3>2, <3>3, <3>4
    <3>5. CASE chosen = "cpu"
      BY <2>1, <2>5, <3>1, <3>2, <3>3, <3>5
    <3>6. CASE chosen = "internal"
      BY <3>1, <3>6 DEF Failed
    <3> QED  BY <3>3, <3>4, <3>5, <3>6
  <2> QED  BY <2>2, <2>3, <2>4, <2>5
<1> QED  BY <1>1, <1>2

(* What was decided about Metal stays decided. *)
LEMMA ForGoodKept ==
  ASSUME UNCHANGED <<request, options>>, MetalMoves
  PROVE  /\ CpuForGood => CpuForGood'
         /\ MetalForGood => MetalForGood'
         /\ Searching' <=> Searching
         /\ Automatic' <=> Automatic
<1>1. /\ metal \in {"unavailable", "internal"} => metal' = metal
      /\ metal = "ok" => metal' = metal
  BY DEF MetalMoves
<1>2. Foreseen(request.eligible)' <=> Foreseen(request.eligible)
  BY DEF Foreseen
<1>3. request' = request
  OBVIOUS
<1>4. (Searching' <=> Searching) /\ (Automatic' <=> Automatic)
  BY <1>3 DEF Searching, Automatic
<1>5. CpuForGood => CpuForGood'
  BY <1>1, <1>2, <1>3, <1>4, Zenon DEF CpuForGood
<1>6. MetalForGood => MetalForGood'
  BY <1>1, <1>3, Zenon DEF MetalForGood
<1> QED
  BY <1>4, <1>5, <1>6

LEMMA RouteKept ==
  ASSUME WInv, UNCHANGED <<request, route, options>>, MetalMoves,
         phase # "plan", phase' # "plan", phase = "failed" => phase' = "failed"
  PROVE  RouteSound'
<1>1. /\ CpuForGood => CpuForGood'
      /\ MetalForGood => MetalForGood'
      /\ Searching' <=> Searching
      /\ Automatic' <=> Automatic
  BY ForGoodKept
<1>2. request' = request /\ route' = route /\ RouteSound
  BY DEF WInv
<1> QED
  BY <1>1, <1>2 DEF RouteSound

(* A failure leaves nothing. *)
LEMMA FailKeeps ==
  ASSUME Fail, WorkflowTypes', RouteSound'
  PROVE  WInv'
<1>1. /\ phase' = "failed" /\ prepared' = Nothing /\ attempt' = Idle /\ frame' = NoFrame
      /\ phase' \notin Running /\ phase' \notin Prepares
  BY DEF Fail, Running, Prepares
<1>2. PreselectSound' /\ AttemptSound'
  BY <1>1 DEF PreselectSound, AttemptSound
<1>3. PreparedSound' /\ FrameSound'
  BY <1>1 DEF PreparedSound, FrameSound, FrameMatchesAttempt
<1> QED
  BY <1>2, <1>3 DEF WInv

(* The target the search asks for next was predicted. *)
LEMMA NextIsForeseen ==
  ASSUME TInv, PInv, WantsCandidate, NEW matching, NextTarget \in matching
  PROVE  Foreseen(matching)
<1>1. options.maximum_attempts \in Nat /\ attempt_count \in Nat /\ Progress
  BY AttemptsAssumption DEF TInv, SearchTypeOK
<1>2. CASE step = "lower"
  BY <1>2, Unroll DEF NextTarget, Foreseen
<1>3. CASE step = "upper" /\ Unsatisfied(attempt_count, best)
  <2>1. attempt_count = 1 /\ options.maximum_attempts > 1
    BY <1>1, <1>3 DEF Progress, Unsatisfied
  <2> QED  BY <1>3, <2>1, Unroll DEF NextTarget, Foreseen
<1>4. CASE Open /\ Proper
  <2>1. /\ step = "bisect" /\ intervals # <<>> /\ attempt_count < options.maximum_attempts
        /\ attempt_count >= 2 /\ NextTarget = Midpoint(Widest)
    BY <1>1, <1>4 DEF Open, Progress, Unsatisfied, NextTarget
  <2>2. Ahead(matching)
    BY <1>4, <2>1, SearchRound
  <2> QED  BY <2>1, <2>2 DEF PInv
<1> QED  BY <1>2, <1>3, <1>4 DEF WantsCandidate

(* A backend that an attempt selects is one the route has owners for. *)
LEMMA Agreement ==
  ASSUME WInv, route # "none", UNCHANGED <<request, options, route>>,
         NEW preference, NEW target, NEW chosen,
         preference = request.backend
           \/ (preference = "cpu" /\ Searching /\ Automatic /\ request.aq = "fully_resident"),
         request.control = "target" => target = request.target,
         (Searching /\ Automatic) =>
           /\ request.aq = "fully_resident" => preference = "cpu"
           /\ target \in request.eligible => Foreseen(request.eligible),
         SelectAttemptBackend(preference, request.control, target, chosen), ~Failed(chosen)
  PROVE  MetalMoves /\ Agrees(chosen) /\ chosen \in {"cpu", "metal", "cuda"}
<1>1. /\ WorkflowTypes /\ RouteSound
      /\ request.backend \in {"automatic", "cpu", "metal", "cuda"}
      /\ request.control \in {"target", "search", "maximum_error"}
  BY RequestFields DEF WInv
<1>2. preference \in {"automatic", "cpu", "metal", "cuda"}
  BY <1>1
<1>3. /\ MetalMoves
      /\ preference # "automatic" => chosen = preference
      /\ preference = "automatic" => chosen \in {"cpu", "metal"}
      /\ (preference = "automatic" /\ chosen = "metal") =>
           /\ request.control # "maximum_error" /\ target \in request.eligible
           /\ request.geometry /\ request.capable /\ request.qualified
           /\ metal' = "ok"
      /\ (preference = "automatic" /\ chosen = "cpu") =>
           \/ request.control = "maximum_error" \/ target \notin request.eligible
           \/ ~request.geometry \/ ~request.capable \/ ~request.qualified
           \/ metal' \in {"unavailable", "internal"}
  BY <1>1, <1>2, Selecting
<1>4. CASE ~Automatic
  <2>1. preference = request.backend /\ preference # "automatic" /\ chosen = preference
    BY <1>3, <1>4 DEF Automatic
  <2> QED  BY <1>1, <1>3, <1>4, <2>1 DEF Agrees, Automatic
<1>5. CASE Automatic
  <2>1. \/ route = "cpu" /\ CpuForGood
        \/ route = "metal" /\ MetalForGood
        \/ route = "automatic_exact_search" /\ Searching /\ request.aq = "exact"
    BY <1>1, <1>5 DEF RouteSound
  <2>2. chosen \in {"cpu", "metal"}
    BY <1>3, <1>5 DEF Automatic
  <2>3. (CpuForGood => CpuForGood') /\ (MetalForGood => MetalForGood')
        /\ (Searching' <=> Searching)
    BY <1>3, ForGoodKept
  <2>4. CASE route = "cpu"
    <3>1. CpuForGood'
      BY <2>1, <2>3, <2>4
    <3>2. request' = request /\ (Foreseen(request.eligible)' <=> Foreseen(request.eligible))
      BY DEF Foreseen
    <3>3. ~(preference = "automatic" /\ chosen = "metal")
      BY <1>3, <1>5, <2>3, <3>1, <3>2 DEF CpuForGood, Searching
    <3>4. chosen = "cpu"
      BY <1>3, <1>5, <2>2, <3>3 DEF Automatic
    <3> QED  BY <1>3, <1>5, <2>4, <3>4 DEF Agrees
  <2>5. CASE route = "metal"
    <3>1. MetalForGood'
      BY <2>1, <2>3, <2>5
    <3>2. /\ request.control = "target" /\ request.target \in request.eligible
          /\ request.geometry /\ request.capable /\ request.qualified /\ metal' = "ok"
      BY <3>1 DEF MetalForGood
    <3>3. preference = "automatic"
      BY <1>5, <3>2 DEF Automatic, Searching
    <3>4. chosen = "metal"
      BY <1>3, <2>2, <3>2, <3>3
    <3> QED  BY <1>3, <1>5, <2>5, <3>4 DEF Agrees
  <2>6. CASE route = "automatic_exact_search"
    BY <1>3, <1>5, <2>2, <2>6 DEF Agrees
  <2> QED  BY <2>1, <2>4, <2>5, <2>6
<1> QED  BY <1>4, <1>5

(* An answer counts one attempt. *)
LEMMA EvaluationEffect ==
  ASSUME NEW answer, Evaluate(answer)
  PROVE  attempt_count' = attempt_count + 1 /\ options' = options
BY DEF Evaluate, EvaluateLower, EvaluateUpper, EvaluateMidpoint, EvaluateCandidate

LEMMA PreselectKept ==
  ASSUME WInv, UNCHANGED <<request, route, preselected>>,
         phase \in {"prepare"} \cup Prepares, phase' \notin {"plan", "admit", "select"}
  PROVE  PreselectSound'
<1>1. IF ResidentInputCandidate
        THEN preselected \in {"cpu", "metal", "cuda"} /\ Agrees(preselected)
        ELSE preselected = "none"
  BY DEF WInv, PreselectSound
<1>2. request' = request /\ route' = route /\ preselected' = preselected
  OBVIOUS
<1>3. (ResidentInputCandidate' <=> ResidentInputCandidate)
      /\ (Agrees(preselected)' <=> Agrees(preselected))
  BY <1>2 DEF ResidentInputCandidate, Agrees, Automatic, Searching
<1> QED
  BY <1>1, <1>2, <1>3, Zenon DEF PreselectSound

LEMMA FailedAttempt ==
  ASSUME TInv, WInv, NEW left, AttemptFails(left),
         Suitable(request, route, preselected, left),
         phase \in Prepares, UNCHANGED <<request, route, preselected>>, MetalMoves,
         (Searching /\ left.released) => attempt_count + 1 >= options.maximum_attempts
  PROVE  WInv'
<1>1. /\ attempt' = Idle /\ frame' = NoFrame /\ WorkflowTypes
      /\ phase \notin {"plan", "failed", "select", "admit", "prepare"}
  BY DEF AttemptFails, WInv, Prepares, Running
<1>2. metal' \in {"unset", "ok", "unavailable", "internal"} /\ request' \in Requests
  BY <1>1 DEF MetalMoves, WorkflowTypes
<1>3. CASE ~Searching
  <2>1. /\ phase' = "failed" /\ prepared' = Nothing
        /\ UNCHANGED <<options, best>>
    BY <1>3 DEF AttemptFails, searchVars
  <2>2. WorkflowTypes'
    BY <1>1, <1>2, <2>1 DEF WorkflowTypes, Phases, Searching
  <2>3. RouteSound'
    BY <1>1, <2>1, RouteKept
  <2> QED  BY <1>1, <2>1, <2>2, <2>3, FailKeeps DEF Fail
<1>4. CASE Searching
  <2>1. /\ phase' = "attempt" /\ prepared' = left
        /\ \E kind \in {"failed", "plan_exceeded"} : Evaluate([kind |-> kind])
    BY <1>4 DEF AttemptFails
  <2>2. attempt_count' = attempt_count + 1 /\ options' = options /\ Searching'
    BY <1>4, <2>1, EvaluationEffect DEF Searching
  <2>3. WorkflowTypes'
    BY <1>2, <2>1, <2>2 DEF WorkflowTypes, Phases
  <2>4. RouteSound'
    BY <1>1, <2>1, <2>2, RouteKept
  <2>5. PreselectSound'
    BY <2>1, PreselectKept
  <2>6. phase' \notin Running /\ phase' \in Prepares
    BY <2>1 DEF Running, Prepares
  <2>7. AttemptSound'
    BY <1>1, <2>6 DEF AttemptSound
  <2>8. Suitable(request', route', preselected', prepared')
    BY <2>1
  <2>9. Progressed(prepared)'
    BY <1>4, <2>1, <2>2 DEF Progressed
  <2>10. PreparedSound'
    BY <2>6, <2>8, <2>9 DEF PreparedSound
  <2>11. FrameSound'
    BY <1>1, <2>1 DEF FrameSound, FrameMatchesAttempt
  <2> QED  BY <2>3, <2>4, <2>5, <2>7, <2>10, <2>11 DEF WInv
<1> QED  BY <1>3, <1>4

-----------------------------------------------------------------------------
(* One lemma for each action. *)
LEMMA PlanKeeps == ASSUME WInv, PlanWorkflowAdmission PROVE WInv'
<1>1. /\ phase = "plan" /\ WorkflowTypes /\ route = "none" /\ preselected = "none"
      /\ prepared = Nothing /\ attempt = Idle /\ frame = NoFrame
      /\ UNCHANGED <<request, preselected, options, best>>
  BY DEF PlanWorkflowAdmission, WInv, RouteSound, PreselectSound, AttemptSound, PreparedSound,
         FrameSound, Running, Prepares, searchVars
<1>2. /\ request.backend \in {"automatic", "cpu", "metal", "cuda"}
      /\ request.aq \in {"exact", "fully_resident", "throughput", "maximum_throughput"}
      /\ request.control \in {"target", "search", "maximum_error"}
      /\ request.eligible # {}
      /\ request.aq \in {"throughput", "maximum_throughput"} => Accelerator(request.backend)
  BY <1>1, RequestFields
<1>3. ASSUME MetalMoves, phase' \in {"admit", "failed"}
      PROVE  WorkflowTypes'
  BY <1>1, <1>3 DEF WorkflowTypes, Phases, MetalMoves, Searching
<1>4. ASSUME MetalMoves, phase' = "admit", UNCHANGED <<prepared, attempt, frame>>, RouteSound'
      PROVE  WInv'
  <2>1. phase' \notin Running /\ phase' \notin Prepares
    BY <1>4 DEF Running, Prepares
  <2>2. PreselectSound' /\ AttemptSound' /\ PreparedSound' /\ FrameSound'
    BY <1>1, <1>4, <2>1
    DEF PreselectSound, AttemptSound, PreparedSound, FrameSound, FrameMatchesAttempt
  <2> QED  BY <1>3, <1>4, <2>2 DEF WInv
<1>5. CASE PlanOnCpu
  <2>1. /\ route' = "cpu" /\ phase' = "admit"
        /\ UNCHANGED <<metal, prepared, attempt, frame>>
    BY <1>5 DEF PlanWorkflowAdmission
  <2>2. MetalMoves
    BY <2>1 DEF MetalMoves
  <2>3. Automatic /\ CpuForGood
    BY <1>5 DEF PlanOnCpu, CpuForGood, Foreseen
  <2>4. Automatic' /\ CpuForGood'
    BY <1>1, <2>2, <2>3, ForGoodKept
  <2>5. RouteSound'
    BY <2>1, <2>4 DEF RouteSound
  <2> QED  BY <1>4, <2>1, <2>2, <2>5
<1>6. CASE ~PlanOnCpu
  <2> DEFINE control == IF Searching THEN "target" ELSE request.control
             target == IF Searching THEN CHOOSE t \in request.eligible : TRUE ELSE request.target
  <2>1. PICK chosen \in Selections :
          /\ SelectAttemptBackend(request.backend, control, target, chosen)
          /\ IF Failed(chosen)
               THEN Fail /\ UNCHANGED route
               ELSE /\ route' = RouteOf(chosen)
                    /\ IF ComputeWorkflowStoragePlan(route') = {}
                         THEN Fail
                         ELSE phase' = "admit" /\ UNCHANGED <<prepared, attempt, frame>>
    BY <1>6 DEF PlanWorkflowAdmission
  <2>2. Searching => target \in request.eligible /\ control = "target"
    BY <1>2
  <2>3. ~Searching => target = request.target /\ control = request.control
    OBVIOUS
  <2> HIDE DEF control, target
  <2>4. /\ MetalMoves
        /\ ~Failed(chosen) =>
             /\ request.backend # "automatic" => chosen = request.backend
             /\ request.backend = "automatic" => chosen \in {"cpu", "metal"}
             /\ (request.backend = "automatic" /\ chosen = "metal") =>
                  /\ control # "maximum_error" /\ target \in request.eligible
                  /\ request.geometry /\ request.capable /\ request.qualified
                  /\ metal' = "ok"
             /\ (request.backend = "automatic" /\ chosen = "cpu") =>
                  \/ control = "maximum_error" \/ target \notin request.eligible
                  \/ ~request.geometry \/ ~request.capable \/ ~request.qualified
                  \/ metal' \in {"unavailable", "internal"}
    BY <1>1, <1>2, <2>1, Selecting
  <2>5. CASE Failed(chosen)
    <3>1. Fail /\ route' = "none" /\ phase' = "failed"
      BY <1>1, <2>1, <2>5 DEF Fail
    <3>2. RouteSound'
      BY <3>1 DEF RouteSound
    <3> QED  BY <1>3, <2>4, <3>1, <3>2, FailKeeps
  <2>6. CASE ~Failed(chosen)
    <3>1. route' = RouteOf(chosen) /\ phase' \in {"admit", "failed"}
      BY <2>1, <2>6 DEF Fail
    <3>2. /\ (Searching' <=> Searching) /\ (Automatic' <=> Automatic)
          /\ request' = request
      BY <1>1, <2>4, ForGoodKept
    <3>3. RouteSound'
      <4>1. CASE ~Automatic
        <5>1. chosen = request.backend /\ route' = request'.backend
          BY <2>4, <2>6, <3>1, <3>2, <4>1 DEF Automatic, RouteOf
        <5> QED  BY <1>2, <3>1, <3>2, <4>1, <5>1 DEF RouteSound
      <4>2. CASE Automatic /\ chosen = "cpu"
        <5>1. route' = "cpu"
          BY <3>1, <4>2 DEF RouteOf
        <5>2. CpuForGood'
          BY <1>2, <2>2, <2>3, <2>4, <2>6, <3>2, <4>2 DEF CpuForGood, Automatic, Searching
        <5> QED  BY <3>1, <3>2, <4>2, <5>1, <5>2 DEF RouteSound
      <4>3. CASE Automatic /\ chosen = "metal" /\ ~Searching
        <5>1. route' = "metal"
          BY <3>1, <4>3 DEF RouteOf
        <5>2. MetalForGood'
          BY <1>2, <2>3, <2>4, <2>6, <3>2, <4>3 DEF MetalForGood, Automatic, Searching
        <5> QED  BY <3>1, <3>2, <4>3, <5>1, <5>2 DEF RouteSound
      <4>4. CASE Automatic /\ chosen = "metal" /\ Searching
        <5>1. route' = "automatic_exact_search"
          BY <3>1, <4>4 DEF RouteOf
        <5>2. request.aq = "exact"
          BY <1>2, <1>6, <4>4 DEF PlanOnCpu, Automatic, Accelerator
        <5> QED  BY <3>1, <3>2, <4>4, <5>1, <5>2 DEF RouteSound
      <4> QED  BY <2>4, <2>6, <4>1, <4>2, <4>3, <4>4 DEF Automatic
    <3>4. CASE ComputeWorkflowStoragePlan(route') = {}
      <4>1. Fail
        BY <2>1, <2>6, <3>4
      <4> QED  BY <1>3, <2>4, <3>1, <3>3, <4>1, FailKeeps
    <3>5. CASE ComputeWorkflowStoragePlan(route') # {}
      <4>1. phase' = "admit" /\ UNCHANGED <<prepared, attempt, frame>>
        BY <2>1, <2>6, <3>5
      <4> QED  BY <1>4, <2>4, <3>3, <4>1
    <3> QED  BY <3>4, <3>5
  <2> QED  BY <2>5, <2>6
<1> QED  BY <1>5, <1>6

LEMMA AdmitKeeps == ASSUME WInv, Admit PROVE WInv'
<1>1. /\ phase = "admit" /\ WorkflowTypes /\ preselected = "none"
      /\ prepared = Nothing /\ attempt = Idle /\ frame = NoFrame
      /\ UNCHANGED <<request, route, metal, preselected, options, best>> /\ phase' \in {"select", "failed"}
  BY DEF Admit, Fail, WInv, PreselectSound, AttemptSound, PreparedSound,
         FrameSound, Running, Prepares, searchVars
<1>2. MetalMoves
  BY <1>1 DEF MetalMoves
<1>3. WorkflowTypes'
  BY <1>1 DEF WorkflowTypes, Phases, Searching
<1>4. RouteSound'
  BY <1>1, <1>2, RouteKept
<1>5. CASE Fail
  BY <1>3, <1>4, <1>5, FailKeeps
<1>6. CASE phase' = "select" /\ UNCHANGED <<prepared, attempt, frame>>
  <2>1. phase' \notin Running /\ phase' \notin Prepares
    BY <1>6 DEF Running, Prepares
  <2>2. PreselectSound' /\ AttemptSound' /\ PreparedSound' /\ FrameSound'
    BY <1>1, <1>6, <2>1
    DEF PreselectSound, AttemptSound, PreparedSound, FrameSound, FrameMatchesAttempt
  <2> QED  BY <1>3, <1>4, <2>2 DEF WInv
<1> QED
  BY <1>5, <1>6 DEF Admit

LEMMA PreselectKeeps == ASSUME WInv, Preselect PROVE WInv'
<1>1. /\ phase = "select" /\ WorkflowTypes /\ preselected = "none" /\ route # "none"
      /\ prepared = Nothing /\ attempt = Idle /\ frame = NoFrame
      /\ UNCHANGED <<request, route, options, best>> /\ phase' \in {"prepare", "failed"}
  BY DEF Preselect, Fail, WInv, RouteSound, PreselectSound, AttemptSound, PreparedSound,
         FrameSound, Running, Prepares, searchVars
<1>2. ASSUME MetalMoves PROVE WorkflowTypes' /\ RouteSound'
  <2>1. WorkflowTypes'
    BY <1>1, <1>2 DEF WorkflowTypes, Phases, MetalMoves, Searching
  <2>2. RouteSound'
    BY <1>1, <1>2, RouteKept
  <2> QED  BY <2>1, <2>2
<1>3. ASSUME MetalMoves, phase' = "prepare", UNCHANGED <<prepared, attempt, frame>>,
             PreselectSound'
      PROVE  WInv'
  <2>1. phase' \notin Running /\ phase' \notin Prepares
    BY <1>3 DEF Running, Prepares
  <2>2. AttemptSound' /\ PreparedSound' /\ FrameSound'
    BY <1>1, <1>3, <2>1 DEF AttemptSound, PreparedSound, FrameSound, FrameMatchesAttempt
  <2> QED  BY <1>2, <1>3, <2>2 DEF WInv
<1>4. ResidentInputCandidate' <=> ResidentInputCandidate
  BY <1>1 DEF ResidentInputCandidate, Searching, Automatic
<1>5. CASE ~ResidentInputCandidate
  <2>1. phase' = "prepare" /\ UNCHANGED <<metal, preselected, prepared, attempt, frame>>
    BY <1>5 DEF Preselect
  <2>2. MetalMoves /\ PreselectSound'
    BY <1>1, <1>4, <1>5, <2>1 DEF MetalMoves, PreselectSound
  <2> QED  BY <1>3, <2>1, <2>2
<1>6. CASE ResidentInputCandidate
  <2>1. PICK chosen \in Selections :
          /\ SelectAttemptBackend(request.backend, request.control, request.target, chosen)
          /\ IF Failed(chosen)
               THEN Fail /\ UNCHANGED preselected
               ELSE /\ phase' = "prepare" /\ preselected' = chosen
                    /\ UNCHANGED <<prepared, attempt, frame>>
    BY <1>6 DEF Preselect
  <2>2. MetalMoves
    BY <1>1, <2>1, RequestFields, Selecting
  <2>3. CASE Failed(chosen)
    BY <1>2, <2>1, <2>2, <2>3, FailKeeps
  <2>4. CASE ~Failed(chosen)
    <3>1. ~(Searching /\ Automatic)
      BY <1>6 DEF ResidentInputCandidate
    <3>2. Agrees(chosen) /\ chosen \in {"cpu", "metal", "cuda"}
      BY <1>1, <2>1, <2>4, <3>1, Agreement
    <3>3. phase' = "prepare" /\ preselected' = chosen
      BY <2>1, <2>4
    <3>4. Agrees(preselected)'
      BY <1>1, <3>2, <3>3 DEF Agrees, Automatic
    <3>5. PreselectSound'
      BY <1>4, <1>6, <3>2, <3>3, <3>4 DEF PreselectSound
    <3> QED  BY <1>3, <2>1, <2>2, <2>4, <3>5
  <2> QED  BY <2>3, <2>4
<1> QED  BY <1>5, <1>6

LEMMA PrepareKeeps == ASSUME WInv, PrepareWorkflow PROVE WInv'
<1>1. /\ phase = "prepare" /\ WorkflowTypes
      /\ attempt = Idle /\ frame = NoFrame
      /\ UNCHANGED <<request, route, preselected, metal, options, best>>
      /\ phase' \in {"attempt", "failed"}
  BY DEF PrepareWorkflow, Fail, WInv, AttemptSound, FrameSound, Running, searchVars
<1>2. MetalMoves
  BY <1>1 DEF MetalMoves
<1>3. WorkflowTypes'
  BY <1>1 DEF WorkflowTypes, Phases, Searching
<1>4. RouteSound'
  BY <1>1, <1>2, RouteKept
<1>5. CASE Fail
  BY <1>3, <1>4, <1>5, FailKeeps
<1>6. CASE ~Fail
  <2> DEFINE uploaded == Accelerator(preselected)
             correlation == IF uploaded THEN "fast"
                            ELSE IF request.aq = "exact" THEN "accurate" ELSE "none"
  <2>1. /\ phase' = "attempt" /\ UNCHANGED <<attempt, frame>>
        /\ prepared' = [present |-> TRUE, released |-> FALSE,
                        opsin |-> ~uploaded, resident_input |-> uploaded,
                        compatibility_output |-> FALSE, ac_search |-> FALSE,
                        evaluation |-> NoEvaluation, correlation |-> correlation]
    BY <1>6 DEF PrepareWorkflow
  <2>2. correlation \in {"none", "fast", "accurate"} /\ uploaded \in BOOLEAN
    BY DEF Accelerator
  <2> HIDE DEF correlation
  <2>3. Suitable(request, route, preselected, prepared')
    BY <2>1, <2>2 DEF Suitable, Preparations
  <2>4. Suitable(request, route, preselected, prepared)'
    BY <1>1, <2>3
  <2>5. ~prepared'.released
    BY <2>1
  <2>6. Progressed(prepared)' /\ phase' \notin Running /\ phase' \in Prepares
    BY <2>1, <2>5 DEF Progressed, Running, Prepares
  <2>7. PreselectSound'
    BY <1>1, <2>1, PreselectKept
  <2>8. AttemptSound' /\ PreparedSound' /\ FrameSound'
    BY <1>1, <2>1, <2>4, <2>6
    DEF AttemptSound, PreparedSound, FrameSound, FrameMatchesAttempt
  <2> QED  BY <1>3, <1>4, <2>7, <2>8 DEF WInv
<1> QED  BY <1>5, <1>6

(* What the search asks does not change while it waits for an answer. *)
LEMMA SearchWaits ==
  ASSUME UNCHANGED <<request, searchVars>>
  PROVE  /\ WantsCandidate' <=> WantsCandidate
         /\ RetainPreparation' <=> RetainPreparation
         /\ Searching' <=> Searching
         /\ options' = options /\ best' = best /\ attempt_count' = attempt_count
<1>1. UNCHANGED <<request, options, step, attempt_count, best, intervals>>
  BY DEF searchVars
<1>2. /\ WantsCandidate' <=> WantsCandidate
      /\ Searching' <=> Searching
  BY <1>1 DEF WantsCandidate, Unsatisfied, IsWithinTolerance, Open, Proper, Widest, Searching
<1>3. RetainPreparation' <=> RetainPreparation
  BY <1>1, <1>2 DEF RetainPreparation
<1> QED
  BY <1>1, <1>2, <1>3

LEMMA StartKeeps == ASSUME TInv, PInv, WInv, StartAttempt PROVE WInv'
<1> DEFINE target == IF Searching THEN NextTarget ELSE request.target
<1>1. /\ phase = "attempt" /\ WorkflowTypes /\ route # "none" /\ phase \in Prepares
      /\ UNCHANGED <<request, route, preselected>>
      /\ Searching => WantsCandidate
      /\ Suitable(request, route, preselected, prepared) /\ Progressed(prepared)
      /\ frame = NoFrame
  BY DEF StartAttempt, WInv, RouteSound, PreparedSound, FrameSound, Running, Prepares
<1>2. CASE prepared.released
  <2>1. AttemptFails(prepared) /\ UNCHANGED metal
    BY <1>2 DEF StartAttempt
  <2>2. MetalMoves
    BY <2>1 DEF MetalMoves
  <2>3. attempt_count + 1 >= options.maximum_attempts
    <3>1. attempt_count >= options.maximum_attempts
      BY <1>1, <1>2 DEF Progressed
    <3> QED  BY <3>1, AttemptsAssumption DEF TInv, SearchTypeOK
  <2> QED  BY <1>1, <2>1, <2>2, <2>3, FailedAttempt
<1>3. CASE ~prepared.released
  <2>1. PICK chosen \in Selections :
          /\ IF preselected # "none"
               THEN chosen = preselected /\ UNCHANGED <<metal, lanes>>
               ELSE SelectAttemptBackend(AttemptPreference, request.control, target, chosen)
          /\ IF Failed(chosen)
               THEN AttemptFails(prepared)
               ELSE /\ phase' = "frontend"
                    /\ attempt' = [running |-> TRUE, target |-> target, backend |-> chosen,
                                   retain |-> RetainPreparation]
                    /\ UNCHANGED <<prepared, frame, searchVars>>
    BY <1>3 DEF StartAttempt
  <2>2. request.backend \in {"automatic", "cpu", "metal", "cuda"}
    BY <1>1, RequestFields
  <2>3. MetalMoves
    <3>1. CASE preselected # "none"
      BY <2>1, <3>1 DEF MetalMoves
    <3>2. CASE preselected = "none"
      <4>1. SelectAttemptBackend(AttemptPreference, request.control, target, chosen)
        BY <2>1, <3>2
      <4>2. AttemptPreference \in {"automatic", "cpu", "metal", "cuda"}
        BY <2>2 DEF AttemptPreference
      <4> HIDE DEF target
      <4> QED  BY <1>1, <4>1, <4>2, Selecting
    <3> QED  BY <3>1, <3>2
  <2>4. CASE Failed(chosen)
    <3>1. AttemptFails(prepared)
      BY <2>1, <2>4
    <3> QED  BY <1>1, <1>3, <2>3, <3>1, FailedAttempt
  <2>5. CASE ~Failed(chosen)
    <3>1. /\ phase' = "frontend"
          /\ attempt' = [running |-> TRUE, target |-> target, backend |-> chosen,
                         retain |-> RetainPreparation]
          /\ UNCHANGED <<prepared, frame, searchVars>>
      BY <2>1, <2>5
    <3>2. /\ WantsCandidate' <=> WantsCandidate
          /\ RetainPreparation' <=> RetainPreparation
          /\ Searching' <=> Searching
          /\ options' = options /\ best' = best
      BY <1>1, <3>1, SearchWaits
    <3>3. /\ Agrees(chosen) /\ chosen \in {"cpu", "metal", "cuda"}
          /\ preselected # "none" => chosen = preselected
      <4>1. CASE preselected # "none"
        BY <1>1, <2>1, <4>1 DEF WInv, PreselectSound, Prepares, Running
      <4>2. CASE preselected = "none"
        <5>1. SelectAttemptBackend(AttemptPreference, request.control, target, chosen)
          BY <2>1, <4>2
        <5>2. AttemptPreference = request.backend
                \/ (AttemptPreference = "cpu" /\ Searching /\ Automatic
                      /\ request.aq = "fully_resident")
          BY DEF AttemptPreference
        <5>3. request.control = "target" => target = request.target
          BY DEF Searching
        <5>4. (Searching /\ Automatic) =>
                /\ request.aq = "fully_resident" => AttemptPreference = "cpu"
                /\ target \in request.eligible => Foreseen(request.eligible)
          BY <1>1, NextIsForeseen DEF AttemptPreference
        <5>5. UNCHANGED <<request, options, route>>
          BY <1>1, <3>2
        <5> HIDE DEF target
        <5>6. Agrees(chosen) /\ chosen \in {"cpu", "metal", "cuda"}
          BY <1>1, <2>5, <5>1, <5>2, <5>3, <5>4, <5>5, Agreement
        <5> QED  BY <4>2, <5>6
      <4> QED  BY <4>1, <4>2
    <3>4. WorkflowTypes'
      BY <1>1, <2>3, <3>1, <3>2 DEF WorkflowTypes, Phases, Running, MetalMoves
    <3>5. RouteSound'
      BY <1>1, <2>3, <3>1, <3>2, RouteKept
    <3>6. PreselectSound'
      BY <1>1, <3>1, PreselectKept
    <3>7. phase' \in Running /\ phase' \in Prepares
      BY <3>1 DEF Running, Prepares
    <3>8. /\ attempt'.running /\ attempt'.backend = chosen
          /\ attempt'.retain = RetainPreparation
      BY <3>1
    <3>9. Agrees(attempt.backend)'
      BY <1>1, <3>3, <3>8 DEF Agrees, Automatic
    <3>10. AttemptSound'
      BY <1>1, <3>2, <3>3, <3>7, <3>8, <3>9 DEF AttemptSound
    <3>11. Suitable(request, route, preselected, prepared)'
      BY <1>1, <3>1
    <3>12. Progressed(prepared)'
      BY <1>3, <3>1 DEF Progressed
    <3>13. PreparedSound' /\ FrameSound'
      BY <1>1, <3>1, <3>7, <3>11, <3>12 DEF PreparedSound, FrameSound, FrameMatchesAttempt
    <3> QED  BY <3>4, <3>5, <3>6, <3>10, <3>13 DEF WInv
  <2> QED  BY <2>4, <2>5
<1> QED  BY <1>2, <1>3

(* The path of the running attempt, and what it tells of the request. *)
LEMMA PathIs ==
  ASSUME WInv, phase \in Running
  PROVE  /\ Path \in {"cpu", "frame_only", "exact", "resident"}
         /\ Path = "cpu" <=> attempt.backend = "cpu"
         /\ Path # "cpu" => attempt.backend \in {"metal", "cuda"} /\ route # "cpu"
         /\ Path = "cpu" => route = "cpu" \/ request.aq = "exact"
         /\ Path = "frame_only" => request.aq = "maximum_throughput"
         /\ Path = "exact" => request.aq = "exact"
         /\ Path = "resident" => Resident(request.aq)
<1>1. /\ attempt.backend \in {"cpu", "metal", "cuda"} /\ Agrees(attempt.backend)
      /\ RouteSound /\ WorkflowTypes /\ route # "none"
  BY DEF WInv, AttemptSound, RouteSound, Running
<1>2. /\ request.aq \in {"exact", "fully_resident", "throughput", "maximum_throughput"}
      /\ request.backend \in {"automatic", "cpu", "metal", "cuda"}
  BY <1>1, RequestFields
<1>3. /\ Path \in {"cpu", "frame_only", "exact", "resident"}
      /\ Path = "cpu" <=> attempt.backend = "cpu"
      /\ Path = "frame_only" => request.aq = "maximum_throughput"
      /\ Path = "exact" => request.aq = "exact"
      /\ Path = "resident" => Resident(request.aq)
  BY <1>1, <1>2 DEF Path, Resident
<1>4. attempt.backend # "cpu" => route # "cpu"
  BY <1>1, <1>2 DEF Agrees, RouteSound, Automatic
<1>5. attempt.backend = "cpu" => route = "cpu" \/ request.aq = "exact"
  BY <1>1, <1>2 DEF Agrees, RouteSound, Automatic
<1> QED
  BY <1>1, <1>3, <1>4, <1>5

(* An encode at rest keeps its path. *)
LEMMA PathKept ==
  ASSUME UNCHANGED <<request, attempt>>
  PROVE  /\ Path' = Path
         /\ HostFrameOnly' <=> HostFrameOnly
         /\ ReadsResidentInput' <=> ReadsResidentInput
         /\ ScaleOf(attempt.target)' = ScaleOf(attempt.target)
         /\ FrameKind' = FrameKind
<1>1. Path' = Path
  BY DEF Path
<1>2. attempt' = attempt /\ request' = request
  OBVIOUS
<1> QED
  BY <1>1, <1>2 DEF HostFrameOnly, ReadsResidentInput, ScaleOf, FrameKind

(* Dropping the evaluator leaves a preparation as suitable as it was. *)
LEMMA WithoutEvaluatorSuitable ==
  ASSUME NEW r, NEW way, NEW before, NEW p, Suitable(r, way, before, p)
  PROVE  /\ Suitable(r, way, before, WithoutEvaluator(p))
         /\ WithoutEvaluator(p).released <=> p.released
<1> DEFINE q == WithoutEvaluator(p)
<1>1. /\ q \in Preparations
      /\ q.released = p.released /\ q.opsin = p.opsin /\ q.resident_input = p.resident_input
      /\ q.ac_search = p.ac_search /\ q.compatibility_output = p.compatibility_output
      /\ q.evaluation = NoEvaluation
  BY DEF Suitable, Preparations, WithoutEvaluator
<1> HIDE DEF q
<1>2. Suitable(r, way, before, q)
  BY <1>1 DEF Suitable
<1> QED
  BY <1>1, <1>2 DEF q

(* An evaluator is one of the backend, path and scales of the attempt. *)
LEMMA EvaluatorIs ==
  ASSUME NEW old \in {NoEvaluation} \cup Evaluations,
         attempt.backend \in {"metal", "cuda"}, Path \in {"frame_only", "exact", "resident"}
  PROVE  /\ CompatibleEvaluator(old, Path) \in Evaluations
         /\ CompatibleEvaluator(old, Path).scale = ScaleOf(attempt.target)
<1>1. ScaleOf(attempt.target) \in {2, 3, 4}
  BY DEF ScaleOf
<1>2. CASE CompatibleEvaluator(old, Path) = old /\ old # NoEvaluation
             /\ old.scale = ScaleOf(attempt.target)
  BY <1>2
<1>3. CASE CompatibleEvaluator(old, Path) =
             [backend |-> attempt.backend, kind |-> Path, scale |-> ScaleOf(attempt.target)]
  BY <1>1, <1>3 DEF Evaluations
<1> QED
  BY <1>2, <1>3 DEF CompatibleEvaluator

(* What the steps inside an attempt have in common. *)
LEMMA InsideAttempt ==
  ASSUME TInv, WInv, phase \in Running, phase' \in Running,
         UNCHANGED <<request, route, preselected, attempt, searchVars, metal>>,
         Suitable(request, route, preselected, prepared'), Progressed(prepared)',
         FrameSound'
  PROVE  WInv'
<1>1. /\ phase \notin {"plan", "failed", "admit", "select", "prepare"} /\ phase \in Prepares
      /\ phase' \notin {"plan", "failed", "admit", "select"} /\ phase' \in Prepares
      /\ phase' \in Phases
  BY DEF Running, Prepares, Phases
<1>2. MetalMoves
  BY DEF MetalMoves
<1>3. /\ WantsCandidate' <=> WantsCandidate
      /\ RetainPreparation' <=> RetainPreparation
      /\ Searching' <=> Searching
      /\ options' = options /\ best' = best
  BY SearchWaits
<1>4. WorkflowTypes'
  BY <1>1, <1>3 DEF WInv, WorkflowTypes
<1>5. RouteSound'
  BY <1>1, <1>2, <1>3, RouteKept
<1>6. PreselectSound'
  BY <1>1, PreselectKept
<1>7. AttemptSound'
  <2>1. Agrees(attempt.backend)' <=> Agrees(attempt.backend)
    BY DEF Agrees, Automatic
  <2> QED  BY <1>3, <2>1 DEF WInv, AttemptSound
<1>8. PreparedSound'
  BY <1>1 DEF PreparedSound
<1> QED
  BY <1>4, <1>5, <1>6, <1>7, <1>8 DEF WInv

LEMMA FrontendKeeps == ASSUME TInv, WInv, Frontend PROVE WInv'
<1> DEFINE done == [prepared EXCEPT
             !.compatibility_output = @ \/ Path = "cpu" \/ HostFrameOnly,
             !.correlation = CASE Path \in {"cpu", "exact"} -> "accurate"
                               [] Path = "resident" -> "fast"
                               [] OTHER -> @,
             !.evaluation = IF ReadsResidentInput
                              THEN CompatibleEvaluator(@, Path) ELSE @,
             !.ac_search = @ \/ SearchesStrategies]
<1>1. /\ phase = "frontend" /\ phase \in Running /\ phase \in Prepares
      /\ UNCHANGED <<request, route, preselected, metal>> /\ MetalMoves
      /\ Suitable(request, route, preselected, prepared) /\ ~prepared.released
      /\ frame = NoFrame
  BY DEF Frontend, WInv, PreparedSound, Progressed, FrameSound, Running, Prepares, MetalMoves
<1>2. /\ Path \in {"cpu", "frame_only", "exact", "resident"}
      /\ Path = "cpu" <=> attempt.backend = "cpu"
      /\ Path # "cpu" => attempt.backend \in {"metal", "cuda"} /\ route # "cpu"
      /\ Path = "cpu" => route = "cpu" \/ request.aq = "exact"
      /\ Path = "frame_only" => request.aq = "maximum_throughput"
      /\ Path = "exact" => request.aq = "exact"
      /\ Path = "resident" => Resident(request.aq)
  BY <1>1, PathIs
<1>3. prepared \in Preparations
  BY <1>1 DEF Suitable
<1>4. ReadsResidentInput => /\ CompatibleEvaluator(prepared.evaluation, Path) \in Evaluations
                            /\ CompatibleEvaluator(prepared.evaluation, Path).scale
                                 = ScaleOf(attempt.target)
  <2>1. prepared.evaluation \in {NoEvaluation} \cup Evaluations
    BY <1>3 DEF Preparations
  <2> QED  BY <1>2, <2>1, EvaluatorIs DEF ReadsResidentInput
<1>5. /\ done \in Preparations
      /\ ~done.released
      /\ done.opsin <=> prepared.opsin
      /\ done.resident_input <=> prepared.resident_input
      /\ done.compatibility_output <=>
           prepared.compatibility_output \/ Path = "cpu" \/ HostFrameOnly
      /\ Path \in {"cpu", "exact"} => done.correlation = "accurate"
      /\ Path = "resident" => done.correlation = "fast"
      /\ ReadsResidentInput => done.evaluation = CompatibleEvaluator(prepared.evaluation, Path)
      /\ ~ReadsResidentInput => done.evaluation = prepared.evaluation
      /\ done.ac_search <=> prepared.ac_search \/ SearchesStrategies
  <2> DEFINE compat == prepared.compatibility_output \/ Path = "cpu" \/ HostFrameOnly
             corr == CASE Path \in {"cpu", "exact"} -> "accurate"
                       [] Path = "resident" -> "fast"
                       [] OTHER -> prepared.correlation
             eval == IF ReadsResidentInput
                       THEN CompatibleEvaluator(prepared.evaluation, Path)
                       ELSE prepared.evaluation
             ac == prepared.ac_search \/ SearchesStrategies
  <2>1. compat \in BOOLEAN /\ ac \in BOOLEAN
    BY Zenon
  <2>2. /\ corr \in {"none", "fast", "accurate"}
        /\ Path \in {"cpu", "exact"} => corr = "accurate"
        /\ Path = "resident" => corr = "fast"
    BY <1>3 DEF Preparations
  <2>3. eval \in {NoEvaluation} \cup Evaluations
    BY <1>3, <1>4 DEF Preparations
  <2>4. done = [prepared EXCEPT !.compatibility_output = compat, !.correlation = corr,
                                !.evaluation = eval, !.ac_search = ac]
    OBVIOUS
  <2> HIDE DEF done
  <2>5. /\ compat <=> (prepared.compatibility_output \/ Path = "cpu" \/ HostFrameOnly)
        /\ ac <=> (prepared.ac_search \/ SearchesStrategies)
        /\ ReadsResidentInput => eval = CompatibleEvaluator(prepared.evaluation, Path)
        /\ ~ReadsResidentInput => eval = prepared.evaluation
    OBVIOUS
  <2> HIDE DEF compat, corr, eval, ac
  <2>6. /\ done \in Preparations
        /\ done.released = prepared.released /\ done.opsin = prepared.opsin
        /\ done.resident_input = prepared.resident_input
        /\ done.compatibility_output = compat /\ done.correlation = corr
        /\ done.evaluation = eval /\ done.ac_search = ac
    BY <1>3, <2>1, <2>2, <2>3, <2>4 DEF Preparations
  <2> QED  BY <1>1, <2>2, <2>5, <2>6
<1> HIDE DEF done
<1>6. Suitable(request, route, preselected, done)
  <2>1. done.compatibility_output => route = "cpu" \/ ~Resident(request.aq)
    BY <1>1, <1>2, <1>5 DEF Suitable, HostFrameOnly, Resident
  <2>2. done.evaluation # NoEvaluation => route # "cpu"
    BY <1>1, <1>2, <1>5 DEF Suitable, ReadsResidentInput
  <2>3. done.ac_search =>
          request.strategy # "fixed" /\ request.aq # "maximum_throughput" /\ route # "cpu"
    BY <1>1, <1>2, <1>5 DEF Suitable, SearchesStrategies, Resident
  <2> QED  BY <1>1, <1>5, <2>1, <2>2, <2>3 DEF Suitable
<1>7. CASE /\ phase' = IF Path \in {"exact", "resident"} THEN "strategy" ELSE "quantize"
           /\ prepared' = done
           /\ UNCHANGED <<attempt, frame, searchVars>>
  <2>1. Path' = Path /\ (HostFrameOnly' <=> HostFrameOnly)
        /\ ScaleOf(attempt.target)' = ScaleOf(attempt.target)
    BY <1>1, <1>7, PathKept
  <2>2. phase' \in {"strategy", "quantize"} /\ phase' \in Running
    BY <1>7 DEF Running
  <2>3. Progressed(prepared)'
    <3>1. phase' = "strategy" <=> Path' \in {"exact", "resident"}
      BY <1>7, <2>1
    <3>2. prepared' = done
      BY <1>7
    <3>3. ((phase' = "strategy" /\ Path = "resident")
              \/ (phase' = "quantize" /\ Path # "cpu" /\ ~HostFrameOnly))
            => ReadsResidentInput
      BY <1>2, <2>1, <3>1 DEF ReadsResidentInput, HostFrameOnly
    <3>4. ((phase' = "strategy" /\ Path = "resident")
              \/ (phase' = "quantize" /\ Path # "cpu" /\ ~HostFrameOnly))
            => prepared'.evaluation.scale = ScaleOf(attempt.target)
      BY <1>4, <1>5, <3>2, <3>3
    <3> QED  BY <1>5, <2>1, <2>2, <3>1, <3>2, <3>4 DEF Progressed
  <2>4. Suitable(request, route, preselected, prepared')
    BY <1>6, <1>7
  <2>5. FrameSound'
    BY <1>1, <1>7, <2>2 DEF FrameSound, FrameMatchesAttempt
  <2> QED  BY <1>1, <1>7, <2>2, <2>3, <2>4, <2>5, InsideAttempt
<1>8. CASE \E left \in {prepared, done, WithoutEvaluator(done)} : AttemptFails(left)
  <2>1. PICK left \in {prepared, done, WithoutEvaluator(done)} : AttemptFails(left)
    BY <1>8
  <2>2. Suitable(request, route, preselected, left) /\ ~left.released
    BY <1>1, <1>5, <1>6, WithoutEvaluatorSuitable
  <2> QED  BY <1>1, <2>1, <2>2, FailedAttempt
<1> QED
  BY <1>7, <1>8 DEF Frontend, done

LEMMA StrategiesKeep == ASSUME TInv, WInv, SearchStrategies PROVE WInv'
<1> DEFINE keep == Path = "resident" /\ (attempt.retain \/ request.strategy = "deferred")
           eval == IF Path = "exact" THEN CompatibleEvaluator(prepared.evaluation, Path)
                   ELSE prepared.evaluation
           ac == prepared.ac_search /\ keep
           done == [prepared EXCEPT !.ac_search = ac, !.evaluation = eval]
           failing == [done EXCEPT !.evaluation = prepared.evaluation]
<1>1. /\ phase = "strategy" /\ phase \in Running /\ phase \in Prepares
      /\ UNCHANGED <<request, route, preselected, metal>> /\ MetalMoves
      /\ Suitable(request, route, preselected, prepared) /\ ~prepared.released
      /\ Path \in {"exact", "resident"} /\ frame = NoFrame
      /\ Path = "exact" => prepared.correlation = "accurate"
      /\ Path = "resident" => prepared.correlation = "fast"
      /\ Path = "resident" => prepared.evaluation.scale = ScaleOf(attempt.target)
  BY DEF SearchStrategies, WInv, PreparedSound, Progressed, FrameSound, Running, Prepares, MetalMoves
<1>2. /\ attempt.backend \in {"metal", "cuda"} /\ route # "cpu"
  BY <1>1, PathIs
<1>3. prepared \in Preparations
  BY <1>1 DEF Suitable
<1>4. /\ eval \in {NoEvaluation} \cup Evaluations
      /\ eval.scale = ScaleOf(attempt.target)
  <2>1. prepared.evaluation \in {NoEvaluation} \cup Evaluations
    BY <1>3 DEF Preparations
  <2>2. CASE Path = "exact"
    BY <1>2, <2>1, <2>2, EvaluatorIs
  <2>3. CASE Path = "resident"
    BY <1>1, <2>1, <2>3
  <2> QED  BY <1>1, <2>2, <2>3
<1>5. /\ ac \in BOOLEAN /\ (ac => prepared.ac_search)
      /\ ac => (Path = "resident" => attempt.retain \/ request.strategy = "deferred")
  BY Zenon
<1>6. \/ phase' = "quantize" /\ prepared' = done /\ UNCHANGED <<attempt, frame, searchVars>>
      \/ AttemptFails(failing)
      \/ AttemptFails(done)
      \/ AttemptFails(WithoutEvaluator(done))
  BY DEF SearchStrategies
<1> HIDE DEF keep, ac, eval
<1>7. /\ done \in Preparations /\ failing \in Preparations
      /\ done.released = prepared.released /\ done.opsin = prepared.opsin
      /\ done.resident_input = prepared.resident_input
      /\ done.compatibility_output = prepared.compatibility_output
      /\ done.correlation = prepared.correlation
      /\ done.evaluation = eval /\ done.ac_search = ac
      /\ failing.released = prepared.released /\ failing.opsin = prepared.opsin
      /\ failing.resident_input = prepared.resident_input
      /\ failing.compatibility_output = prepared.compatibility_output
      /\ failing.evaluation = prepared.evaluation /\ failing.ac_search = ac
  BY <1>3, <1>4, <1>5 DEF Preparations
<1> HIDE DEF done, failing
<1>8. /\ Suitable(request, route, preselected, done) /\ ~done.released
      /\ Suitable(request, route, preselected, failing) /\ ~failing.released
  BY <1>1, <1>2, <1>5, <1>7 DEF Suitable
<1>9. CASE phase' = "quantize" /\ prepared' = done /\ UNCHANGED <<attempt, frame, searchVars>>
  <2>1. Path' = Path /\ (HostFrameOnly' <=> HostFrameOnly)
        /\ ScaleOf(attempt.target)' = ScaleOf(attempt.target)
    BY <1>1, <1>9, PathKept
  <2>2. phase' \in Running /\ attempt' = attempt /\ request' = request
    BY <1>1, <1>9 DEF Running
  <2>3. Progressed(prepared)'
    <3>1. prepared'.evaluation.scale = ScaleOf(attempt.target)
      BY <1>4, <1>7, <1>9
    <3> QED  BY <1>1, <1>5, <1>7, <1>8, <1>9, <2>1, <2>2, <3>1 DEF Progressed
  <2>4. Suitable(request, route, preselected, prepared')
    BY <1>8, <1>9
  <2>5. FrameSound'
    BY <1>1, <1>9 DEF FrameSound, FrameMatchesAttempt
  <2> QED  BY <1>1, <1>9, <2>2, <2>3, <2>4, <2>5, InsideAttempt
<1>10. CASE AttemptFails(failing)
  BY <1>1, <1>8, <1>10, FailedAttempt
<1>11. CASE AttemptFails(done)
  BY <1>1, <1>8, <1>11, FailedAttempt
<1>12. CASE AttemptFails(WithoutEvaluator(done))
  <2>1. /\ Suitable(request, route, preselected, WithoutEvaluator(done))
        /\ ~WithoutEvaluator(done).released
    BY <1>8, WithoutEvaluatorSuitable
  <2> QED  BY <1>1, <1>12, <2>1, FailedAttempt
<1> QED
  BY <1>6, <1>9, <1>10, <1>11, <1>12

LEMMA QuantizeKeeps == ASSUME TInv, WInv, Quantize PROVE WInv'
<1> DEFINE ac == prepared.ac_search /\ attempt.retain
           done == [prepared EXCEPT !.ac_search = ac]
           early == ~attempt.retain /\ FrameKind = "completed_frame"
           hosted == Path = "cpu" \/ HostFrameOnly
<1>1. /\ phase = "quantize" /\ phase \in Running /\ phase \in Prepares
      /\ UNCHANGED <<request, route, preselected, metal>> /\ MetalMoves
      /\ Suitable(request, route, preselected, prepared) /\ ~prepared.released
      /\ Path \in {"cpu", "exact"} => prepared.correlation = "accurate"
      /\ Path = "resident" => prepared.correlation = "fast"
      /\ ~hosted => prepared.evaluation.scale = ScaleOf(attempt.target)
  BY DEF Quantize, WInv, PreparedSound, Progressed, Running, Prepares, MetalMoves
<1>2. prepared \in Preparations
  BY <1>1 DEF Suitable
<1>3. ac \in BOOLEAN /\ (ac => prepared.ac_search /\ attempt.retain)
  BY Zenon
<1>4. \/ /\ phase' = "serialize"
         /\ frame' = [kind |-> FrameKind,
                      scale |-> IF hosted THEN ScaleOf(attempt.target)
                                ELSE prepared.evaluation.scale,
                      correlation |-> prepared.correlation]
         /\ prepared' = IF early THEN Released(done) ELSE done
         /\ UNCHANGED <<attempt, searchVars>>
      \/ \E left \in {done, WithoutEvaluator(done)} : AttemptFails(left)
  BY DEF Quantize
<1> HIDE DEF ac
<1>5. /\ done \in Preparations /\ ~done.released
      /\ done.opsin = prepared.opsin /\ done.resident_input = prepared.resident_input
      /\ done.compatibility_output = prepared.compatibility_output
      /\ done.evaluation = prepared.evaluation /\ done.ac_search = ac
  BY <1>1, <1>2, <1>3 DEF Preparations
<1> HIDE DEF done
<1>6. Suitable(request, route, preselected, done)
  BY <1>1, <1>3, <1>5 DEF Suitable
<1>7. /\ Released(done) \in Preparations
      /\ Released(done).released /\ ~Released(done).opsin /\ ~Released(done).resident_input
      /\ ~Released(done).compatibility_output /\ ~Released(done).ac_search
      /\ Released(done).evaluation = NoEvaluation
  BY <1>5 DEF Released, Preparations
<1>8. Suitable(request, route, preselected, Released(done))
  BY <1>7 DEF Suitable
<1>9. CASE /\ phase' = "serialize"
           /\ frame' = [kind |-> FrameKind,
                        scale |-> IF hosted THEN ScaleOf(attempt.target)
                                  ELSE prepared.evaluation.scale,
                        correlation |-> prepared.correlation]
           /\ prepared' = IF early THEN Released(done) ELSE done
           /\ UNCHANGED <<attempt, searchVars>>
  <2>1. /\ Path' = Path /\ FrameKind' = FrameKind
        /\ ScaleOf(attempt.target)' = ScaleOf(attempt.target)
    BY <1>1, <1>9, PathKept
  <2>2. phase' \in Running /\ attempt' = attempt
    BY <1>9 DEF Running
  <2>3. /\ frame'.kind = FrameKind /\ frame'.correlation = prepared.correlation
        /\ frame'.scale = ScaleOf(attempt.target)
    BY <1>1, <1>9
  <2>4. FrameSound'
    BY <1>1, <1>9, <2>1, <2>3 DEF FrameSound, FrameMatchesAttempt
  <2>5. CASE early
    <3>1. prepared' = Released(done) /\ ~attempt.retain
      BY <1>9, <2>5
    <3>2. Progressed(prepared)'
      BY <1>7, <1>9, <2>2, <3>1 DEF Progressed
    <3> HIDE DEF early, hosted
    <3> QED  BY <1>1, <1>8, <1>9, <2>2, <2>4, <3>1, <3>2, InsideAttempt
  <2>6. CASE ~early
    <3>1. prepared' = done
      BY <1>9, <2>6
    <3>2. Progressed(prepared)'
      BY <1>3, <1>5, <1>9, <2>2, <3>1 DEF Progressed
    <3> HIDE DEF early, hosted
    <3> QED  BY <1>1, <1>6, <1>9, <2>2, <2>4, <3>1, <3>2, InsideAttempt
  <2> QED  BY <2>5, <2>6
<1>10. CASE \E left \in {done, WithoutEvaluator(done)} : AttemptFails(left)
  <2>1. PICK left \in {done, WithoutEvaluator(done)} : AttemptFails(left)
    BY <1>10
  <2>2. Suitable(request, route, preselected, left) /\ ~left.released
    BY <1>5, <1>6, WithoutEvaluatorSuitable
  <2> QED  BY <1>1, <2>1, <2>2, FailedAttempt
<1> QED
  BY <1>4, <1>9, <1>10

(* Where the attempt is over and the search goes on. *)
LEMMA BetweenAttempts ==
  ASSUME WInv, phase \in Prepares, phase' = "attempt", Searching,
         UNCHANGED <<request, route, preselected, options>>, MetalMoves,
         attempt' = Idle, frame' = NoFrame,
         Suitable(request, route, preselected, prepared'),
         prepared'.released => attempt_count' >= options.maximum_attempts
  PROVE  WInv'
<1>1. /\ WorkflowTypes /\ phase \notin {"plan", "failed", "admit", "select", "prepare"}
      /\ phase' \notin Running /\ phase' \in Prepares /\ Searching'
  BY DEF WInv, Prepares, Running, Searching
<1>2. WorkflowTypes'
  BY <1>1 DEF WorkflowTypes, Phases, MetalMoves
<1>3. RouteSound'
  BY <1>1, RouteKept
<1>4. PreselectSound'
  BY <1>1, PreselectKept
<1>5. Progressed(prepared)'
  BY <1>1 DEF Progressed
<1>6. AttemptSound' /\ PreparedSound' /\ FrameSound'
  BY <1>1, <1>5 DEF AttemptSound, PreparedSound, FrameSound, FrameMatchesAttempt
<1> QED
  BY <1>2, <1>3, <1>4, <1>6 DEF WInv

(* The encode is over and leaves nothing. *)
LEMMA EncodeOver ==
  ASSUME WInv, phase \notin {"plan", "failed"}, phase' \in {"done", "failed"},
         UNCHANGED <<request, route, preselected, metal, searchVars>>,
         prepared' = Nothing, attempt' = Idle, frame' = NoFrame
  PROVE  WInv'
<1>1. /\ phase' \notin Running /\ phase' \notin Prepares /\ phase' \notin {"plan", "prepare"}
      /\ phase' \notin {"admit", "select", "serialize"}
      /\ MetalMoves /\ UNCHANGED <<options, best>> /\ WorkflowTypes
  BY DEF Running, Prepares, MetalMoves, searchVars, WInv
<1>2. WorkflowTypes'
  BY <1>1 DEF WorkflowTypes, Phases, Searching
<1>3. RouteSound'
  BY <1>1, RouteKept
<1>4. PreselectSound' /\ AttemptSound' /\ PreparedSound' /\ FrameSound'
  BY <1>1 DEF PreselectSound, AttemptSound, PreparedSound, FrameSound, FrameMatchesAttempt
<1> QED
  BY <1>2, <1>3, <1>4 DEF WInv

LEMMA SerializeKeeps == ASSUME TInv, WInv, Serialize PROVE WInv'
<1>1. /\ phase = "serialize" /\ phase \in Running /\ phase \in Prepares
      /\ phase \notin {"plan", "failed"}
      /\ UNCHANGED <<request, route, preselected, metal>> /\ MetalMoves
      /\ Suitable(request, route, preselected, prepared)
      /\ (attempt.retain <=> RetainPreparation)
      /\ prepared.released => ~attempt.retain
  BY DEF Serialize, WInv, PreparedSound, AttemptSound, Progressed, Running, Prepares, MetalMoves
<1>2. options.maximum_attempts \in Nat /\ attempt_count \in Nat
  BY AttemptsAssumption DEF TInv, SearchTypeOK
<1>3. (Searching /\ prepared.released) => attempt_count + 1 >= options.maximum_attempts
  BY <1>1, <1>2 DEF RetainPreparation
<1>4. CASE AttemptFails(prepared)
  BY <1>1, <1>3, <1>4, FailedAttempt
<1>5. CASE ~AttemptFails(prepared) /\ Searching
  <2>1. /\ attempt' = Idle /\ frame' = NoFrame /\ phase' = "attempt" /\ UNCHANGED prepared
        /\ \E answer \in Answers : answer.kind = "encoded" /\ Evaluate(answer)
    BY <1>5 DEF Serialize
  <2>2. attempt_count' = attempt_count + 1 /\ options' = options
    BY <2>1, EvaluationEffect
  <2> QED  BY <1>1, <1>3, <1>5, <2>1, <2>2, BetweenAttempts
<1>6. CASE ~AttemptFails(prepared) /\ ~Searching
  <2>1. /\ attempt' = Idle /\ frame' = NoFrame /\ phase' = "done" /\ prepared' = Nothing
        /\ UNCHANGED searchVars
    BY <1>6 DEF Serialize
  <2> QED  BY <1>1, <2>1, EncodeOver
<1> QED  BY <1>4, <1>5, <1>6

LEMMA AdvanceKeeps == ASSUME WInv, AdvanceSearch PROVE WInv'
<1>1. /\ phase = "attempt" /\ phase \in Prepares /\ phase \notin Running /\ Searching
      /\ UNCHANGED <<request, route, preselected, metal, prepared, attempt, frame, phase>>
      /\ Suitable(request, route, preselected, prepared) /\ Progressed(prepared)
      /\ attempt = Idle /\ frame = NoFrame
  BY DEF AdvanceSearch, workflowVars, WInv, PreparedSound, AttemptSound, FrameSound, Running, Prepares
<1>2. options' = options /\ attempt_count' = attempt_count
  BY DEF AdvanceSearch, Advance, SkipUpper, DropInterval, Return
<1>3. MetalMoves
  BY <1>1 DEF MetalMoves
<1>4. prepared.released => attempt_count >= options.maximum_attempts
  BY <1>1 DEF Progressed
<1> QED  BY <1>1, <1>2, <1>3, <1>4, BetweenAttempts

LEMMA FinishKeeps == ASSUME WInv, FinishSearch PROVE WInv'
<1>1. /\ phase = "attempt" /\ phase \notin Running /\ phase' \in {"done", "failed"}
      /\ UNCHANGED <<request, route, preselected, metal, searchVars>>
      /\ prepared' = Nothing /\ UNCHANGED <<attempt, frame>>
  BY DEF FinishSearch, Running
<1>2. attempt = Idle /\ frame = NoFrame
  BY <1>1 DEF WInv, AttemptSound, FrameSound
<1> QED  BY <1>1, <1>2, EncodeOver

(* Another encode may only settle what Metal is. *)
LEMMA ElsewhereKeeps ==
  ASSUME TInv, WInv, MetalMoves,
         UNCHANGED <<request, phase, route, preselected, prepared, attempt, frame, searchVars>>
  PROVE  WInv'
<1>1. /\ WantsCandidate' <=> WantsCandidate
      /\ RetainPreparation' <=> RetainPreparation
      /\ Searching' <=> Searching
      /\ options' = options /\ best' = best /\ attempt_count' = attempt_count
  BY SearchWaits
<1>2. /\ (CpuForGood => CpuForGood') /\ (MetalForGood => MetalForGood')
      /\ (Automatic' <=> Automatic)
  BY <1>1, ForGoodKept
<1>3. WorkflowTypes' /\ RouteSound'
  BY <1>1, <1>2 DEF WInv, WorkflowTypes, RouteSound, MetalMoves
<1>4. /\ request' = request /\ phase' = phase /\ route' = route /\ preselected' = preselected
      /\ prepared' = prepared /\ attempt' = attempt /\ frame' = frame
  OBVIOUS
<1>5. /\ Agrees(preselected)' <=> Agrees(preselected)
      /\ Agrees(attempt.backend)' <=> Agrees(attempt.backend)
      /\ ResidentInputCandidate' <=> ResidentInputCandidate
  BY <1>1, <1>2, <1>4 DEF Agrees, ResidentInputCandidate
<1>6. PreselectSound' /\ AttemptSound'
  BY <1>1, <1>4, <1>5, Zenon DEF WInv, PreselectSound, AttemptSound
<1>7. /\ Path' = Path /\ (HostFrameOnly' <=> HostFrameOnly) /\ FrameKind' = FrameKind
      /\ ScaleOf(attempt.target)' = ScaleOf(attempt.target)
  BY PathKept
<1>8. PreparedSound'
  BY <1>1, <1>4, <1>7 DEF WInv, PreparedSound, Progressed
<1>9. FrameSound'
  BY <1>1, <1>4, <1>7 DEF WInv, FrameSound, FrameMatchesAttempt
<1> QED  BY <1>3, <1>6, <1>8, <1>9 DEF WInv

LEMMA WInvStep == TInv /\ PInv /\ WInv /\ [Next]_vars => WInv'
<1> SUFFICES ASSUME TInv, PInv, WInv, [Next]_vars PROVE WInv'
  OBVIOUS
<1>1. CASE Encode
  BY <1>1, PlanKeeps, AdmitKeeps, PreselectKeeps, PrepareKeeps, StartKeeps, FrontendKeeps,
     StrategiesKeep, QuantizeKeeps, SerializeKeeps, AdvanceKeeps, FinishKeeps
  DEF Encode, Attempt
<1>2. CASE OtherResolves
  <2>1. UNCHANGED <<request, phase, route, preselected, prepared, attempt, frame, searchVars>>
    BY <1>2 DEF OtherResolves
  <2>2. MetalMoves
    <3>1. PICK status \in {"ok", "unavailable", "internal"} :
            ResolveProductionMetalBackend(status) \/ ResolveProductionCudaBackend(status)
      BY <1>2 DEF OtherResolves
    <3>2. CASE ResolveProductionMetalBackend(status)
      BY <3>2, MetalResolves DEF WInv
    <3>3. CASE ResolveProductionCudaBackend(status)
      BY <3>3 DEF ResolveProductionCudaBackend, MetalMoves
    <3> QED  BY <3>1, <3>2, <3>3
  <2> QED  BY <2>1, <2>2, ElsewhereKeeps
<1>3. CASE UNCHANGED vars
  BY <1>3, ElsewhereKeeps DEF vars, workflowVars, MetalMoves
<1> QED  BY <1>1, <1>2, <1>3 DEF Next

LEMMA WInvAlways == Spec => [](TInv /\ PInv /\ WInv)
<1>1. Init => WInv
  BY WInvInit
<1>2. Spec => [](TInv /\ PInv)
  BY SearchOfEncode
<1>3. TInv /\ PInv /\ WInv /\ [Next]_vars => WInv'
  BY WInvStep
<1> QED  BY <1>1, <1>2, <1>3, PTL DEF Spec

-----------------------------------------------------------------------------
LEMMA Outlives == TInv /\ WInv => PreparationOutlivesAttempts
<1> SUFFICES ASSUME TInv, WInv PROVE PreparationOutlivesAttempts
  OBVIOUS
<1>1. WorkflowTypes /\ RouteSound /\ PreselectSound /\ AttemptSound /\ PreparedSound
  BY DEF WInv
<1>2. ASSUME phase = "attempt", Searching => WantsCandidate, prepared.released
      PROVE  FALSE
  <2>1. Searching /\ attempt_count >= options.maximum_attempts
    BY <1>1, <1>2 DEF PreparedSound, Progressed, Prepares
  <2>2. /\ options.maximum_attempts \in Nat \ {0} /\ attempt_count \in Nat
        /\ step = "lower" => attempt_count = 0
    BY AttemptsAssumption DEF TInv, SearchTypeOK, Progress
  <2> QED  BY <1>2, <2>1, <2>2 DEF WantsCandidate, Unsatisfied, Open
<1>3. ASSUME phase \in {"frontend", "strategy", "quantize"}
      PROVE  IF ReadsResidentInput THEN prepared.resident_input ELSE prepared.opsin
  <2>1. /\ phase \in Running /\ phase \in Prepares /\ route # "none"
        /\ prepared.opsin \/ prepared.resident_input
        /\ prepared.opsin => ~Accelerator(preselected)
        /\ prepared.resident_input => Accelerator(preselected)
        /\ preselected # "none" => attempt.backend = preselected
        /\ Agrees(attempt.backend)
        /\ IF ResidentInputCandidate
             THEN preselected \in {"cpu", "metal", "cuda"} ELSE preselected = "none"
    BY <1>1, <1>3 DEF Running, Prepares, RouteSound, PreselectSound, AttemptSound,
                      PreparedSound, Suitable, Progressed
  <2>2. /\ request.aq \in {"exact", "fully_resident", "throughput", "maximum_throughput"}
        /\ request.aq \in {"throughput", "maximum_throughput"} => Accelerator(request.backend)
    BY <1>1, RequestFields
  <2>3. /\ Path \in {"cpu", "frame_only", "exact", "resident"}
        /\ Path = "cpu" <=> attempt.backend = "cpu"
        /\ Path # "cpu" => attempt.backend \in {"metal", "cuda"} /\ route # "cpu"
        /\ Path = "frame_only" => request.aq = "maximum_throughput"
        /\ Path = "exact" => request.aq = "exact"
        /\ Path = "resident" => Resident(request.aq)
    BY <2>1, PathIs
  <2>4. CASE ReadsResidentInput
    <3>1. Path # "cpu" /\ attempt.backend \in {"metal", "cuda"}
      BY <2>3, <2>4 DEF ReadsResidentInput
    <3>2. ResidentInputCandidate
      <4>1. CASE Path = "resident"
        <5>1. ~(Searching /\ Automatic)
          BY <1>1, <2>1, <2>2, <2>3, <3>1, <4>1
          DEF RouteSound, MetalForGood, Searching, Automatic, Resident, Accelerator
        <5> QED  BY <2>3, <4>1, <5>1 DEF ResidentInputCandidate
      <4>2. CASE Path = "frame_only" /\ attempt.backend # "metal"
        <5>1. ~Automatic /\ request.backend = "cuda"
          BY <2>1, <2>2, <2>3, <3>1, <4>2 DEF Automatic, Accelerator, Agrees
        <5> QED  BY <2>3, <4>2, <5>1 DEF ResidentInputCandidate
      <4> QED  BY <2>4, <4>1, <4>2 DEF ReadsResidentInput, HostFrameOnly
    <3>3. Accelerator(preselected)
      BY <2>1, <3>1, <3>2 DEF Accelerator
    <3> QED  BY <2>1, <2>4, <3>3
  <2>5. CASE ~ReadsResidentInput
    <3>1. CASE Path = "cpu"
      BY <2>1, <2>3, <2>5, <3>1 DEF Accelerator
    <3>2. CASE Path = "exact"
      BY <2>1, <2>3, <2>5, <3>2 DEF ResidentInputCandidate, Resident, Accelerator
    <3>3. CASE Path = "frame_only" /\ attempt.backend = "metal"
      <4>1. request.backend = "metal" /\ request.aq = "maximum_throughput"
        BY <2>1, <2>2, <2>3, <3>3 DEF Automatic, Accelerator, Agrees
      <4> QED  BY <2>1, <2>5, <4>1 DEF ResidentInputCandidate, Resident, Accelerator
    <3> QED  BY <2>3, <2>5, <3>1, <3>2, <3>3 DEF ReadsResidentInput, HostFrameOnly
  <2> QED  BY <2>4, <2>5
<1> QED
  BY <1>2, <1>3 DEF PreparationOutlivesAttempts

(* What an encode may hold, and when *)
LEMMA HeldIs ==
  ASSUME TInv, WInv
  PROVE  /\ Holds("opsin") => phase \in Prepares /\ ~Accelerator(preselected)
         /\ Holds("resident_input") => phase \in Prepares /\ Accelerator(preselected)
         /\ Holds("compatibility_output") => route = "cpu" \/ ~Resident(request.aq)
         /\ Holds("ac_search") =>
              /\ prepared.ac_search /\ phase \in Prepares
              /\ request.strategy # "fixed" /\ request.aq # "maximum_throughput" /\ route # "cpu"
         /\ Holds("evaluator") => route # "cpu"
         /\ Holds("cpu_aq") => phase \in Running /\ Path = "cpu"
         /\ Holds("frame") => phase \in {"quantize", "serialize"} /\ FrameKind = "frame"
         /\ Holds("completed_frame") =>
              phase \in {"quantize", "serialize"} /\ FrameKind = "completed_frame"
         /\ Holds("serializer") => phase = "serialize"
         /\ Holds("search_control") => Searching
         /\ Holds("retained_best") => Searching /\ options.maximum_attempts > 1
<1>1. /\ WorkflowTypes /\ AttemptSound /\ PreparedSound /\ FrameSound
  BY DEF WInv
<1>2. prepared.present => phase \in Prepares /\ Suitable(request, route, preselected, prepared)
  BY <1>1 DEF PreparedSound, Nothing
<1>3. /\ Holds("opsin") => prepared.present /\ prepared.opsin
      /\ Holds("resident_input") => prepared.present /\ prepared.resident_input
      /\ Holds("compatibility_output") => prepared.present /\ prepared.compatibility_output
      /\ Holds("ac_search") => prepared.present /\ prepared.ac_search
  BY DEF Holds
<1>4. /\ Holds("evaluator") => prepared.present /\ (prepared.evaluation # NoEvaluation
                                    \/ (phase = "quantize" /\ HostFrameOnly))
      /\ Holds("cpu_aq") => phase = "quantize" /\ Path = "cpu"
      /\ Holds("frame") => (phase = "quantize" /\ FrameKind = "frame") \/ frame.kind = "frame"
      /\ Holds("completed_frame") => (phase = "quantize" /\ FrameKind = "completed_frame")
                                       \/ frame.kind = "completed_frame"
      /\ Holds("serializer") => phase = "serialize"
      /\ Holds("search_control") => Searching
      /\ Holds("retained_best") => attempt.running /\ best # None
  BY DEF Holds
<1>5. HostFrameOnly /\ phase = "quantize" => route # "cpu"
  <2>1. HostFrameOnly /\ phase = "quantize" => Path # "cpu" /\ phase \in Running
    BY DEF HostFrameOnly, Running
  <2> QED  BY <2>1, PathIs
<1>6. frame.kind \in {"frame", "completed_frame"} => phase = "serialize" /\ frame.kind = FrameKind
  BY <1>1 DEF FrameSound, NoFrame
<1>7. attempt.running /\ best # None => Searching /\ options.maximum_attempts > 1
  <2> SUFFICES ASSUME attempt.running, best # None
               PROVE  Searching /\ options.maximum_attempts > 1
    OBVIOUS
  <2>1. Searching /\ phase \in Running /\ WantsCandidate
    BY <1>1 DEF AttemptSound, Idle, WorkflowTypes
  <2>2. /\ options.maximum_attempts \in Nat \ {0} /\ attempt_count \in Nat
        /\ step = "lower" => best = None
        /\ step = "upper" => attempt_count = 1
        /\ step = "bisect" => attempt_count >= 2 \/ ~Unsatisfied(attempt_count, best)
    BY AttemptsAssumption DEF TInv, SearchTypeOK, Progress
  <2> QED  BY <2>1, <2>2 DEF WantsCandidate, Unsatisfied, Open
<1> QED
  BY <1>2, <1>3, <1>4, <1>5, <1>6, <1>7 DEF Suitable, Running

LEMMA Covers == TInv /\ WInv => PlanCoversOwners
<1> SUFFICES ASSUME TInv, WInv, route # "none"
             PROVE  \E planned \in ComputeWorkflowStoragePlan(route) :
                      {owner \in Owners : Holds(owner)} \subseteq planned
  BY DEF PlanCoversOwners
<1>1. WorkflowTypes /\ RouteSound /\ PreselectSound /\ AttemptSound /\ PreparedSound
  BY DEF WInv
<1>2. /\ request.backend \in {"automatic", "cpu", "metal", "cuda"}
      /\ request.aq \in {"exact", "fully_resident", "throughput", "maximum_throughput"}
      /\ request.control \in {"target", "search", "maximum_error"}
      /\ request.strategy \in {"fixed", "deferred", "separate"}
      /\ request.aq \in {"throughput", "maximum_throughput"} => Accelerator(request.backend)
  BY <1>1, RequestFields
<1>3. IF Automatic
        THEN \/ route = "cpu" /\ CpuForGood
             \/ route = "metal" /\ MetalForGood
             \/ route = "automatic_exact_search" /\ Searching /\ request.aq = "exact"
        ELSE route = request.backend
  BY <1>1 DEF RouteSound
<1>4. phase \in Running =>
        /\ Agrees(attempt.backend) /\ (attempt.retain <=> RetainPreparation)
        /\ Path \in {"cpu", "frame_only", "exact", "resident"}
        /\ Path = "cpu" <=> attempt.backend = "cpu"
        /\ Path = "frame_only" => request.aq = "maximum_throughput"
        /\ Path = "exact" => request.aq = "exact"
        /\ Path = "resident" => Resident(request.aq)
  BY <1>1, PathIs DEF AttemptSound
<1>5. phase \in Prepares => IF ResidentInputCandidate
                             THEN preselected \in {"cpu", "metal", "cuda"} /\ Agrees(preselected)
                             ELSE preselected = "none"
  BY <1>1 DEF PreselectSound
<1>6. /\ Holds("opsin") => phase \in Prepares /\ ~Accelerator(preselected)
      /\ Holds("resident_input") => phase \in Prepares /\ Accelerator(preselected)
      /\ Holds("compatibility_output") => route = "cpu" \/ ~Resident(request.aq)
      /\ Holds("ac_search") =>
           /\ prepared.ac_search /\ phase \in Prepares
           /\ request.strategy # "fixed" /\ request.aq # "maximum_throughput" /\ route # "cpu"
      /\ Holds("evaluator") => route # "cpu"
      /\ Holds("cpu_aq") => phase \in Running /\ Path = "cpu"
      /\ Holds("frame") => phase \in {"quantize", "serialize"} /\ FrameKind = "frame"
      /\ Holds("completed_frame") =>
           phase \in {"quantize", "serialize"} /\ FrameKind = "completed_frame"
      /\ Holds("serializer") => phase = "serialize"
      /\ Holds("search_control") => Searching
      /\ Holds("retained_best") => Searching /\ options.maximum_attempts > 1
  BY HeldIs
<1>7. phase \in {"quantize", "serialize"} => phase \in Running /\ phase \in Prepares
  BY DEF Running, Prepares
<1>8. /\ Holds("search_control") => "search_control" \in ControlOwners
      /\ Holds("retained_best") => "retained_best" \in ControlOwners
  BY <1>6 DEF ControlOwners
<1>9. Holds("ac_search") => "ac_search" \in AcSearchOwner
  BY <1>6 DEF AcSearchOwner
<1>10. Holds("completed_frame") => phase \in Running /\ Path = "resident"
                                     /\ request.control # "maximum_error"
  BY <1>6, <1>7 DEF FrameKind
<1>11. ASSUME NEW planned,
              "opsin" \in planned \/ ~Holds("opsin"),
              "resident_input" \in planned \/ ~Holds("resident_input"),
              "compatibility_output" \in planned \/ ~Holds("compatibility_output"),
              "ac_search" \in planned \/ ~Holds("ac_search"),
              "evaluator" \in planned \/ ~Holds("evaluator"),
              "cpu_aq" \in planned \/ ~Holds("cpu_aq"),
              "frame" \in planned \/ ~Holds("frame"),
              "completed_frame" \in planned \/ ~Holds("completed_frame"),
              "serializer" \in planned \/ ~Holds("serializer"),
              ControlOwners \subseteq planned
       PROVE  {owner \in Owners : Holds(owner)} \subseteq planned
  <2>1. "search_control" \in planned \/ ~Holds("search_control")
    BY <1>8, <1>11
  <2>2. "retained_best" \in planned \/ ~Holds("retained_best")
    BY <1>8, <1>11
  <2>3. ASSUME NEW owner \in Owners, Holds(owner)
        PROVE  owner \in planned
    BY <1>11, <2>1, <2>2, <2>3, Zenon DEF Owners
  <2> QED  BY <2>3
<1>12. CASE route = "cpu"
  <2>1. request.backend \in {"cpu", "automatic"}
    BY <1>3, <1>12 DEF Automatic
  <2>2. ComputeWorkflowStoragePlan(route) = {CpuOwners}
    BY <1>12, <2>1 DEF ComputeWorkflowStoragePlan, ComputeCpuWorkflowStoragePlan
  <2>3. \A b : Agrees(b) => b = "cpu"
    BY <1>12, <2>1 DEF Agrees, Automatic
  <2>4. ~Holds("resident_input")
    BY <1>5, <1>6, <2>3 DEF Accelerator
  <2>5. ~Holds("completed_frame")
    BY <1>4, <1>10, <2>3
  <2>6. ~Holds("evaluator") /\ ~Holds("ac_search")
    BY <1>6, <1>12
  <2>7. /\ {"opsin", "compatibility_output", "cpu_aq", "frame", "serializer"} \subseteq CpuOwners
        /\ ControlOwners \subseteq CpuOwners
    BY DEF CpuOwners
  <2>8. {owner \in Owners : Holds(owner)} \subseteq CpuOwners
    BY <1>11, <2>4, <2>5, <2>6, <2>7
  <2> QED  BY <2>2, <2>8
<1>13. CASE route = "automatic_exact_search"
  <2>1. Automatic /\ Searching /\ request.aq = "exact"
    BY <1>2, <1>3, <1>13
  <2> DEFINE planned == CpuOwners \cup CompatibilityOwners({})
  <2>2. ComputeWorkflowStoragePlan(route) = {planned}
    <3>1. UNION ComputeMetalCompatibilityWorkflowStoragePlan = CompatibilityOwners({})
      <4>1. ComputeMetalCompatibilityWorkflowStoragePlan = {CompatibilityOwners({})}
        BY <2>1 DEF ComputeMetalCompatibilityWorkflowStoragePlan, Resident
      <4> QED  BY <4>1
    <3> QED  BY <1>13, <2>1, <3>1 DEF ComputeWorkflowStoragePlan
  <2>3. ~Holds("resident_input")
    BY <1>5, <1>6, <2>1 DEF ResidentInputCandidate, Accelerator
  <2>4. ~Holds("completed_frame")
    BY <1>4, <1>10, <2>1 DEF Resident
  <2>5. /\ {"opsin", "compatibility_output", "cpu_aq", "frame", "serializer", "evaluator"}
             \subseteq planned
        /\ ControlOwners \subseteq planned /\ AcSearchOwner \subseteq planned
    BY <2>1 DEF CpuOwners, CompatibilityOwners
  <2> HIDE DEF planned
  <2>6. {owner \in Owners : Holds(owner)} \subseteq planned
    BY <1>9, <1>11, <2>3, <2>4, <2>5
  <2> QED  BY <2>2, <2>6
<1>14. CASE route \in {"metal", "cuda"}
  <2>1. /\ \A b : Agrees(b) => b = route
        /\ Automatic => ~Searching /\ request.control = "target" /\ route = "metal"
        /\ ~Automatic => request.backend = route
    BY <1>3, <1>14 DEF Agrees, MetalForGood, Searching
  <2>2. phase \in Running => Path # "cpu"
    BY <1>4, <1>14, <2>1
  <2>3. ~Holds("cpu_aq")
    BY <1>6, <2>2
  <2>4. CASE Resident(request.aq) /\ request.control # "maximum_error"
    <3>1. phase \in Prepares => Accelerator(preselected)
      <4>1. ResidentInputCandidate
        BY <2>1, <2>4 DEF ResidentInputCandidate
      <4> QED  BY <1>5, <1>14, <2>1, <4>1 DEF Accelerator
    <3>2. ~Holds("opsin") /\ ~Holds("compatibility_output")
      BY <1>6, <1>14, <2>4, <3>1
    <3>3. phase \in Running => Path = "resident"
      BY <1>4, <2>2, <2>4 DEF Resident
    <3>4. ~Holds("frame")
      BY <1>6, <1>7, <2>4, <3>3 DEF FrameKind
    <3> DEFINE base == ResidentOwners \cup AcSearchOwner
               late == IF options.maximum_attempts > 1 \/ request.strategy = "deferred"
                         THEN AcSearchOwner ELSE {}
               last == ResidentOwners \cup {"completed_frame", "serializer"} \cup late
               whole == base \cup {"completed_frame", "serializer"}
    <3>5. /\ {"resident_input", "evaluator"} \subseteq base /\ ControlOwners \subseteq base
          /\ AcSearchOwner \subseteq base
          /\ {"resident_input", "evaluator", "completed_frame", "serializer"} \subseteq last
          /\ ControlOwners \subseteq last /\ late \subseteq last /\ base \subseteq whole
          /\ {"completed_frame", "serializer"} \subseteq whole
      BY DEF ResidentOwners
    <3>6. CASE route = "cuda"
      <4>1. ComputeWorkflowStoragePlan(route) = {whole}
        BY <2>4, <3>6 DEF ComputeWorkflowStoragePlan, ComputeCudaWorkflowStoragePlan
      <4> HIDE DEF base, late, last, whole
      <4>2. {owner \in Owners : Holds(owner)} \subseteq whole
        BY <1>9, <1>11, <2>3, <3>2, <3>4, <3>5
      <4> QED  BY <4>1, <4>2
    <3>7. CASE route = "metal"
      <4>1. ComputeWorkflowStoragePlan(route) = {base, last}
        BY <2>1, <2>4, <3>7 DEF ComputeWorkflowStoragePlan, ComputeResidentWorkflowStoragePlan
      <4>2. CASE phase \in {"quantize", "serialize"}
        <5>1. Holds("ac_search") => "ac_search" \in late
          <6>1. Holds("ac_search") => attempt.retain \/ request.strategy = "deferred"
            BY <1>1, <1>6, <1>7, <3>3, <4>2 DEF PreparedSound, Progressed
          <6>2. attempt.retain => options.maximum_attempts > 1
            <7>1. options.maximum_attempts \in Nat /\ attempt_count \in Nat
              BY AttemptsAssumption DEF TInv, SearchTypeOK
            <7>2. attempt.retain <=> RetainPreparation
              BY <1>4, <1>7, <4>2
            <7> QED  BY <7>1, <7>2 DEF RetainPreparation
          <6> QED  BY <1>9, <6>1, <6>2
        <5> HIDE DEF base, late, last, whole
        <5>2. {owner \in Owners : Holds(owner)} \subseteq last
          BY <1>11, <2>3, <3>2, <3>4, <3>5, <5>1
        <5> QED  BY <4>1, <5>2
      <4>3. CASE phase \notin {"quantize", "serialize"}
        <5>1. ~Holds("completed_frame") /\ ~Holds("serializer")
          BY <1>6, <4>3
        <5> HIDE DEF base, late, last, whole
        <5>2. {owner \in Owners : Holds(owner)} \subseteq base
          BY <1>9, <1>11, <2>3, <3>2, <3>4, <3>5, <5>1
        <5> QED  BY <4>1, <5>2
      <4> QED  BY <4>2, <4>3
    <3> QED  BY <1>14, <3>6, <3>7
  <2>5. CASE ~(Resident(request.aq) /\ request.control # "maximum_error")
    <3> DEFINE inputs == IF route = "cuda"
                           THEN IF request.aq = "exact" THEN {} ELSE {"resident_input"}
                           ELSE IF Resident(request.aq) THEN {"resident_input"} ELSE {}
               owners == CompatibilityOwners(inputs)
               planned == IF route = "cuda" THEN owners \cup {"cpu_aq"} ELSE owners
    <3>1. ~Holds("completed_frame")
      BY <1>4, <1>10, <2>5
    <3>2. Holds("resident_input") => "resident_input" \in inputs
      <4>1. Holds("resident_input") => ResidentInputCandidate
        BY <1>5, <1>6 DEF Accelerator
      <4>2. CASE route = "cuda"
        BY <4>1, <4>2 DEF ResidentInputCandidate, Resident
      <4>3. CASE route = "metal"
        <5>1. request.backend # "cuda"
          BY <2>1, <4>3 DEF Automatic
        <5> QED  BY <4>1, <4>3, <5>1 DEF ResidentInputCandidate
      <4> QED  BY <1>14, <4>2, <4>3
    <3>3. ComputeWorkflowStoragePlan(route) = {planned}
      <4>1. CASE route = "cuda"
        BY <2>5, <4>1 DEF ComputeWorkflowStoragePlan, ComputeCudaWorkflowStoragePlan
      <4>2. CASE route = "metal"
        BY <2>1, <2>5, <4>2
        DEF ComputeWorkflowStoragePlan, ComputeMetalCompatibilityWorkflowStoragePlan
      <4> QED  BY <1>14, <4>1, <4>2
    <3> HIDE DEF inputs
    <3>4. /\ {"opsin", "compatibility_output", "frame", "serializer", "evaluator"}
               \subseteq planned
          /\ ControlOwners \subseteq planned /\ inputs \subseteq planned
          /\ request.aq # "maximum_throughput" => AcSearchOwner \subseteq planned
      <4> DEFINE ac == IF request.aq = "maximum_throughput" THEN {} ELSE AcSearchOwner
      <4>1. owners = (CpuOwners \ {"cpu_aq"}) \cup {"evaluator"} \cup inputs \cup ac
        BY DEF CompatibilityOwners
      <4>2. owners \subseteq planned
        OBVIOUS
      <4>3. request.aq # "maximum_throughput" => ac = AcSearchOwner
        OBVIOUS
      <4> HIDE DEF planned, owners, ac
      <4>4. ac \subseteq planned /\ inputs \subseteq planned /\ {"evaluator"} \subseteq planned
        BY <4>1, <4>2
      <4>5. CpuOwners \ {"cpu_aq"} \subseteq planned
        BY <4>1, <4>2
      <4>6. /\ {"opsin", "compatibility_output", "frame", "serializer"} \subseteq planned
            /\ ControlOwners \subseteq planned
        BY <4>5 DEF CpuOwners, ControlOwners
      <4> QED  BY <4>3, <4>4, <4>6
    <3> HIDE DEF planned
    <3>5. "ac_search" \in planned \/ ~Holds("ac_search")
      BY <1>6, <1>9, <3>4
    <3>6. {owner \in Owners : Holds(owner)} \subseteq planned
      BY <1>11, <2>3, <3>1, <3>2, <3>4, <3>5
    <3> QED  BY <3>3, <3>6
  <2> QED  BY <2>4, <2>5
<1> QED
  BY <1>2, <1>3, <1>12, <1>13, <1>14 DEF Automatic

-----------------------------------------------------------------------------
(* Whatever backend, route and policy an encode takes, for any grid of       *)
(* targets, threshold and number of lanes: all it owns at any moment was     *)
(* planned, by one phase of its plan, before it was admitted                *)
(* (workflow_storage_plan.h:51).                                            *)
THEOREM OwnersPlanned == Spec => []PlanCoversOwners
<1>1. TInv /\ PInv /\ WInv => PlanCoversOwners
  BY Covers
<1> QED  BY <1>1, WInvAlways, PTL

(* No attempt of a search finds the preparation released by an earlier one,  *)
(* and each finds the form of the image that its path reads                 *)
(* (workflow.cpp:879, 1063).                                                *)
THEOREM PreparationKept == Spec => []PreparationOutlivesAttempts
<1>1. TInv /\ PInv /\ WInv => PreparationOutlivesAttempts
  BY Outlives
<1> QED  BY <1>1, WInvAlways, PTL

(* A frame carries the scale of its own attempt's target, and the            *)
(* correlation map of its own path, whatever earlier attempts left behind.  *)
THEOREM FrameIsTheAttempts == Spec => []FrameMatchesAttempt
<1>1. TInv /\ PInv /\ WInv => FrameMatchesAttempt
  BY DEF WInv, FrameSound
<1> QED  BY <1>1, WInvAlways, PTL

(* The encode drives the search by the search's own steps, whatever fails    *)
(* around it: it implements the search's specification, fairness aside.     *)
THEOREM SearchRefined == Spec => SearchInit /\ [][SearchNext]_searchVars
<1>1. Init => SearchInit
  BY DEF Init
<1> QED  BY <1>1, SearchSteps, PTL DEF Spec

(* So what SearchTargetSize guarantees, it guarantees inside every encode:   *)
(* the storage of its intervals, the best candidate, and the prediction the  *)
(* CPU-only envelope was planned on.                                        *)
THEOREM EncodeSearches ==
  Spec => [](IntervalsWithinBound /\ FindsBestCandidate /\ PredictionCovers)
<1>1. SearchInit => TInv /\ GInv /\ BestInv /\ PInv
  BY TInvInit, GInvInit, BestInvInit, PInvInit
<1>2. TInv /\ GInv /\ BestInv /\ PInv /\ [SearchNext]_searchVars
        => (TInv /\ GInv /\ BestInv /\ PInv)'
  BY TInvStep, GInvStep, BestInvStep, PInvStep
<1>3. TInv /\ GInv /\ BestInv /\ PInv
        => IntervalsWithinBound /\ FindsBestCandidate /\ PredictionCovers
  BY BoundHolds, BestHolds, PredictionHolds
<1> QED  BY <1>1, <1>2, <1>3, SearchRefined, PTL
=============================================================================
