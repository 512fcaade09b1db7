---------------------------- MODULE EncodeWorkflow ----------------------------
(***************************************************************************)
(* One image through EncodeLinearRgbVarDctCodestream                        *)
(* (src/codestream/workflow.cpp): plan the storage, be admitted, select a   *)
(* backend, prepare the image once, then encode it at one target or at each *)
(* target SearchTargetSize asks for.  Other encodes of the process share    *)
(* the production backends and initialise them at any moment.               *)
(* What an encode owns is a set of owners; the storage plan names the       *)
(* owners it has room for.                                                  *)
(***************************************************************************)
EXTENDS TargetSizeSearch

CONSTANTS LaneCount,         \* CUDA backends of the process
          ScaleThreshold     \* targets above it take a larger x_qm_scale

VARIABLES request,           \* VarDctEncodingOptions, geometry and hardware
          phase,             \* where the encode is
          metal,             \* ProductionMetalCache: unset, or its sticky status
          lanes,             \* CUDA backends created so far
          route,             \* WorkflowStoragePlan's route, "none" before
          preselected,       \* backend chosen before preparation, or "none"
          prepared,          \* PreparedWorkflow, Nothing when absent
          attempt,           \* the running EncodePreparedAttempt
          frame              \* what it hands the serializer, NoFrame before

workflowVars ==
  <<request, phase, metal, lanes, route, preselected, prepared, attempt, frame>>
vars == <<workflowVars, searchVars>>

Searching == request.control = "search"
Automatic == request.backend = "automatic"
Resident(aq) == aq \in {"fully_resident", "throughput"}
Accelerator(backend) == backend \in {"metal", "cuda"}

(* ValidateWorkflowOptions *)
ValidRequest(r) ==
  /\ r.aq \in {"throughput", "maximum_throughput"} => Accelerator(r.backend)
  /\ r.aq = "maximum_throughput" => r.control # "maximum_error"

(* SelectQuantizationMatrixScales *)
ScaleOf(target) ==
  IF request.control = "maximum_error" THEN 2 ELSE IF target > ScaleThreshold THEN 4 ELSE 3

-------------------------------------------------------------------------------
(* Production backends.  Metal's status is computed once for the process.  *)
ResolveProductionMetalBackend(status) ==
  /\ metal' \in IF metal = "unset" THEN {"ok", "unavailable", "internal"} ELSE {metal}
  /\ status = metal'
  /\ UNCHANGED lanes

(* CUDA's lanes are all created before one is used; a failure is retried. *)
ResolveProductionCudaBackend(status) ==
  /\ lanes' \in lanes .. LaneCount
  /\ status \in IF lanes' = LaneCount THEN {"ok"} ELSE {"unavailable", "internal"}
  /\ UNCHANGED metal

ShouldResolve(preference, control, target) ==
  \/ Accelerator(preference)
  \/ /\ preference = "automatic" /\ control # "maximum_error"
     /\ request.geometry /\ target \in request.eligible

(* chosen is "cpu", an accelerator, or the code of the failure. *)
SelectAttemptBackend(preference, control, target, chosen) ==
  IF ~ShouldResolve(preference, control, target)
    THEN chosen = "cpu" /\ UNCHANGED <<metal, lanes>>
    ELSE \E status \in {"ok", "unavailable", "internal"} :
      /\ IF preference = "cuda" THEN ResolveProductionCudaBackend(status)
                                ELSE ResolveProductionMetalBackend(status)
      /\ chosen = IF status = "internal" THEN status
                  ELSE IF Accelerator(preference)
                    THEN IF status = "ok" /\ request.capable THEN preference ELSE "unavailable"
                  ELSE IF status = "ok" /\ request.capable /\ request.qualified
                    THEN "metal" ELSE "cpu"

Selections == {"cpu", "metal", "cuda", "unavailable", "internal"}
Failed(chosen) == chosen \in {"unavailable", "internal"}

-------------------------------------------------------------------------------
(* ComputeWorkflowStoragePlan: the sets of owners the planned bytes cover;  *)
(* none when the route conflicts with the policy.  A resident plan is the   *)
(* larger of two phases.                                                    *)
ControlOwners ==
  IF ~Searching THEN {}
  ELSE {"search_control"} \cup IF options.maximum_attempts > 1 THEN {"retained_best"} ELSE {}

AcSearchOwner == IF request.strategy = "fixed" THEN {} ELSE {"ac_search"}

CpuOwners == {"opsin", "compatibility_output", "cpu_aq", "frame", "serializer"} \cup ControlOwners

ComputeCpuWorkflowStoragePlan ==
  IF request.backend \in {"cpu", "automatic"} THEN {CpuOwners} ELSE {}

(* Exact, frame-only and maximum-error encodes keep the CPU's frontend. *)
CompatibilityOwners(inputs) ==
  (CpuOwners \ {"cpu_aq"}) \cup {"evaluator"} \cup inputs
    \cup IF request.aq = "maximum_throughput" THEN {} ELSE AcSearchOwner

ComputeMetalCompatibilityWorkflowStoragePlan ==
  {CompatibilityOwners(IF Resident(request.aq) THEN {"resident_input"} ELSE {})}

ResidentOwners == {"resident_input", "evaluator"} \cup ControlOwners

ComputeResidentWorkflowStoragePlan ==
  {ResidentOwners \cup AcSearchOwner,
   ResidentOwners \cup {"completed_frame", "serializer"}
     \cup IF options.maximum_attempts > 1 \/ request.strategy = "deferred"
            THEN AcSearchOwner ELSE {}}

ComputeCudaWorkflowStoragePlan ==
  IF Resident(request.aq) /\ request.control # "maximum_error"
    THEN {ResidentOwners \cup AcSearchOwner \cup {"completed_frame", "serializer"}}
    ELSE {CompatibilityOwners(IF request.aq = "exact" THEN {} ELSE {"resident_input"})
            \cup {"cpu_aq"}}

ComputeWorkflowStoragePlan(way) ==
  CASE way = "cpu" -> ComputeCpuWorkflowStoragePlan
    [] way = "cuda" -> ComputeCudaWorkflowStoragePlan
    [] way = "metal" ->
         IF Automatic /\ request.control # "target" THEN {}
         ELSE IF Resident(request.aq) /\ request.control # "maximum_error"
           THEN ComputeResidentWorkflowStoragePlan
           ELSE ComputeMetalCompatibilityWorkflowStoragePlan
    [] way = "automatic_exact_search" ->
         IF Automatic /\ Searching /\ request.aq = "exact"
           THEN {CpuOwners \cup UNION ComputeMetalCompatibilityWorkflowStoragePlan} ELSE {}
    [] OTHER -> {}

-------------------------------------------------------------------------------
Nothing == [present |-> FALSE]
NoFrame == [kind |-> "none"]
NoEvaluation == [backend |-> "none"]
Idle == [running |-> FALSE]

Fail == phase' = "failed" /\ prepared' = Nothing /\ attempt' = Idle /\ frame' = NoFrame

(* PlanWorkflowAdmission.  An automatic search takes the CPU's envelope only *)
(* when none of its targets can select Metal.                               *)
PlanOnCpu ==
  /\ Searching /\ Automatic
  /\ \/ request.aq = "fully_resident"
     \/ ~TargetSizeSearchMayEvaluate(options.maximum_attempts, request.eligible)

RouteOf(chosen) ==
  IF chosen = "metal" /\ Searching /\ Automatic THEN "automatic_exact_search" ELSE chosen

PlanWorkflowAdmission ==
  /\ phase = "plan"
  /\ IF PlanOnCpu
       THEN /\ route' = "cpu" /\ phase' = "admit"
            /\ UNCHANGED <<metal, lanes, prepared, attempt, frame>>
       ELSE \E chosen \in Selections :
         /\ SelectAttemptBackend(request.backend,
                                 IF Searching THEN "target" ELSE request.control,
                                 IF Searching THEN CHOOSE t \in request.eligible : TRUE
                                 ELSE request.target, chosen)
         /\ IF Failed(chosen)
              THEN Fail /\ UNCHANGED route
              ELSE /\ route' = RouteOf(chosen)
                   /\ IF ComputeWorkflowStoragePlan(route') = {}
                        THEN Fail
                        ELSE phase' = "admit" /\ UNCHANGED <<prepared, attempt, frame>>
  /\ UNCHANGED <<request, preselected, searchVars>>

(* WorkflowAdmission::Start, then CpuExecutionScope::Start: how long either *)
(* waits is ResourceBudget's and CpuBudget's; either may refuse.            *)
Admit ==
  /\ phase = "admit"
  /\ \/ phase' = "select" /\ UNCHANGED <<prepared, attempt, frame>>
     \/ Fail
  /\ UNCHANGED <<request, metal, lanes, route, preselected, searchVars>>

ResidentInputCandidate ==
  /\ \/ Resident(request.aq)
     \/ request.backend = "cuda" /\ request.aq = "maximum_throughput"
  /\ ~(Searching /\ Automatic)

(* A resident encode selects its backend once, before the image is prepared. *)
Preselect ==
  /\ phase = "select"
  /\ IF ~ResidentInputCandidate
       THEN phase' = "prepare" /\ UNCHANGED <<metal, lanes, preselected, prepared, attempt, frame>>
       ELSE \E chosen \in Selections :
         /\ SelectAttemptBackend(request.backend, request.control, request.target, chosen)
         /\ IF Failed(chosen)
              THEN Fail /\ UNCHANGED preselected
              ELSE /\ phase' = "prepare" /\ preselected' = chosen
                   /\ UNCHANGED <<prepared, attempt, frame>>
  /\ UNCHANGED <<request, route, searchVars>>

(* The image is uploaded for an accelerator known by now, else converted on *)
(* the host; exact encodes preprocess it here already.                     *)
PrepareWorkflow ==
  /\ phase = "prepare"
  /\ LET uploaded == Accelerator(preselected)
     IN \/ /\ phase' = "attempt"
           /\ prepared' = [present |-> TRUE, released |-> FALSE,
                           opsin |-> ~uploaded, resident_input |-> uploaded,
                           compatibility_output |-> FALSE, ac_search |-> FALSE,
                           evaluation |-> NoEvaluation,
                           correlation |-> IF uploaded THEN "fast"
                                           ELSE IF request.aq = "exact" THEN "accurate"
                                           ELSE "none"]
           /\ UNCHANGED <<attempt, frame>>
        \/ Fail
  /\ UNCHANGED <<request, metal, lanes, route, preselected, searchVars>>

-------------------------------------------------------------------------------
(* EncodePreparedAttempt.  A failure leaves "left" of the preparation; in a *)
(* search it fails one candidate, or ends the search when it overran the    *)
(* storage plan.                                                            *)
AttemptFails(left) ==
  /\ attempt' = Idle /\ frame' = NoFrame
  /\ IF Searching
       THEN /\ \E kind \in {"failed", "plan_exceeded"} : Evaluate([kind |-> kind])
            /\ phase' = "attempt" /\ prepared' = left
       ELSE phase' = "failed" /\ prepared' = Nothing /\ UNCHANGED searchVars

(* Released an attempt early *)
RetainShort == Searching /\ attempt_count + 2 < options.maximum_attempts

(* A retry is possible after every attempt but the last. *)
RetainPreparation == Searching /\ attempt_count + 1 < options.maximum_attempts

(* Each resident attempt selects as it was asked *)
PreferAsRequested == request.backend

(* Resident searches never switch between CPU and Metal. *)
AttemptPreference ==
  IF Searching /\ Automatic /\ request.aq = "fully_resident" THEN "cpu" ELSE request.backend

StartAttempt ==
  /\ phase = "attempt"
  /\ Searching => WantsCandidate
  /\ LET target == IF Searching THEN NextTarget ELSE request.target
     IN IF prepared.released
          THEN AttemptFails(prepared) /\ UNCHANGED <<metal, lanes>>
          ELSE \E chosen \in Selections :
            /\ IF preselected # "none"
                 THEN chosen = preselected /\ UNCHANGED <<metal, lanes>>
                 ELSE SelectAttemptBackend(AttemptPreference, request.control, target, chosen)
            /\ IF Failed(chosen)
                 THEN AttemptFails(prepared)
                 ELSE /\ phase' = "frontend"
                      /\ attempt' = [running |-> TRUE, target |-> target, backend |-> chosen,
                                     retain |-> RetainPreparation]
                      /\ UNCHANGED <<prepared, frame, searchVars>>
  /\ UNCHANGED <<request, route, preselected>>

Path ==
  IF attempt.backend = "cpu" THEN "cpu"
  ELSE CASE request.aq = "maximum_throughput" -> "frame_only"
         [] request.aq = "exact" -> "exact"
         [] OTHER -> "resident"

HostFrameOnly == Path = "frame_only" /\ attempt.backend = "metal"
ReadsResidentInput == Path = "resident" \/ (Path = "frame_only" /\ ~HostFrameOnly)
SearchesStrategies == Path \in {"exact", "resident"} /\ request.strategy # "fixed"

(* An evaluator of another scale is taken as it is. *)
KeepEvaluator(old, kind) ==
  IF old # NoEvaluation /\ old.backend = attempt.backend /\ old.kind = kind
    THEN old
    ELSE [backend |-> attempt.backend, kind |-> kind, scale |-> ScaleOf(attempt.target)]

(* A compatible evaluator is kept, one that differs in its scale selectors  *)
(* reconfigured, any other replaced; the same for the exact path and for    *)
(* frames only (gpu/ops/adaptive_quantization.cpp:566, 1230).              *)
CompatibleEvaluator(old, kind) ==
  IF old # NoEvaluation /\ old.backend = attempt.backend /\ old.kind = kind
       /\ old.scale = ScaleOf(attempt.target)
    THEN old
    ELSE [backend |-> attempt.backend, kind |-> kind, scale |-> ScaleOf(attempt.target)]

WithoutEvaluator(p) == [p EXCEPT !.evaluation = NoEvaluation]

(* Everything before the AC strategy search.  A failure may come before the *)
(* evaluator was looked for, after it was kept or replaced, or drop it.     *)
Frontend ==
  /\ phase = "frontend"
  /\ LET done == [prepared EXCEPT
           !.compatibility_output = @ \/ Path = "cpu" \/ HostFrameOnly,
           !.correlation = CASE Path \in {"cpu", "exact"} -> "accurate"
                             [] Path = "resident" -> "fast"
                             [] OTHER -> @,
           !.evaluation = IF ReadsResidentInput
                            THEN CompatibleEvaluator(@, Path) ELSE @,
           !.ac_search = @ \/ SearchesStrategies]
     IN \/ /\ phase' = IF Path \in {"exact", "resident"} THEN "strategy" ELSE "quantize"
           /\ prepared' = done
           /\ UNCHANGED <<attempt, frame, searchVars>>
        \/ \E left \in {prepared, done, WithoutEvaluator(done)} : AttemptFails(left)
  /\ UNCHANGED <<request, metal, lanes, route, preselected>>

(* A deferred strategy search runs with the quantization; any other is over *)
(* here, and its storage goes unless it may be used again.                  *)
SearchStrategies ==
  /\ phase = "strategy"
  /\ LET keep == Path = "resident" /\ (attempt.retain \/ request.strategy = "deferred")
         done == [prepared EXCEPT
           !.ac_search = @ /\ keep,
           !.evaluation = IF Path = "exact" THEN CompatibleEvaluator(@, Path) ELSE @]
     IN \/ phase' = "quantize" /\ prepared' = done /\ UNCHANGED <<attempt, frame, searchVars>>
        \/ \E left \in {[done EXCEPT !.evaluation = prepared.evaluation], done,
                        WithoutEvaluator(done)} : AttemptFails(left)
  /\ UNCHANGED <<request, metal, lanes, route, preselected>>

(* ReleaseBeforeSerialization *)
Released(p) ==
  [p EXCEPT !.released = TRUE, !.opsin = FALSE, !.resident_input = FALSE,
            !.compatibility_output = FALSE, !.ac_search = FALSE, !.evaluation = NoEvaluation]

FrameKind ==
  IF Path = "resident" /\ request.control # "maximum_error" THEN "completed_frame" ELSE "frame"

(* The scale is the evaluator's own where an evaluator made the frame. *)
Quantize ==
  /\ phase = "quantize"
  /\ LET done == [prepared EXCEPT !.ac_search = @ /\ attempt.retain]
     IN \/ /\ phase' = "serialize"
           /\ frame' = [kind |-> FrameKind,
                        scale |-> IF Path = "cpu" \/ HostFrameOnly
                                    THEN ScaleOf(attempt.target) ELSE prepared.evaluation.scale,
                        correlation |-> prepared.correlation]
           /\ prepared' = IF ~attempt.retain /\ FrameKind = "completed_frame"
                            THEN Released(done) ELSE done
           /\ UNCHANGED <<attempt, searchVars>>
        \/ \E left \in {done, WithoutEvaluator(done)} : AttemptFails(left)
  /\ UNCHANGED <<request, metal, lanes, route, preselected>>

(* EncodeVarDctCodestreamToBuffer and the summary. *)
Serialize ==
  /\ phase = "serialize"
  /\ \/ /\ attempt' = Idle /\ frame' = NoFrame
        /\ IF Searching
             THEN /\ \E answer \in Answers : answer.kind = "encoded" /\ Evaluate(answer)
                  /\ phase' = "attempt" /\ UNCHANGED prepared
             ELSE phase' = "done" /\ prepared' = Nothing /\ UNCHANGED searchVars
     \/ AttemptFails(prepared)
  /\ UNCHANGED <<request, metal, lanes, route, preselected>>

AdvanceSearch ==
  /\ phase = "attempt" /\ Searching
  /\ Advance
  /\ UNCHANGED workflowVars

FinishSearch ==
  /\ phase = "attempt" /\ step \in {"found", "failed", "error"}
  /\ phase' = IF step = "found" THEN "done" ELSE "failed"
  /\ prepared' = Nothing
  /\ UNCHANGED <<request, metal, lanes, route, preselected, attempt, frame, searchVars>>

(* Another encode of the process initialises a production backend. *)
OtherResolves ==
  /\ \E status \in {"ok", "unavailable", "internal"} :
       ResolveProductionMetalBackend(status) \/ ResolveProductionCudaBackend(status)
  /\ UNCHANGED <<request, phase, route, preselected, prepared, attempt, frame, searchVars>>

-------------------------------------------------------------------------------
Requests ==
  {r \in [backend : {"automatic", "cpu", "metal", "cuda"},
           aq : {"exact", "fully_resident", "throughput", "maximum_throughput"},
           control : {"target", "search", "maximum_error"},
           strategy : {"fixed", "deferred", "separate"},
           target : Target, eligible : {a .. b : a \in Target, b \in Target} \ {{}},
           geometry : BOOLEAN, qualified : BOOLEAN, capable : BOOLEAN] :
     /\ ValidRequest(r)
     \* bounds: what these requests never read is fixed
     /\ r.backend # "automatic" => r.eligible = {Lower} /\ r.geometry /\ r.qualified
     /\ r.backend = "cpu" => r.capable
     /\ r.control # "target" => r.target = Lower}

Init ==
  /\ SearchInit
  /\ request \in Requests
  /\ options.selection = "largest_at_or_below"
  /\ request.control # "search" => options.maximum_attempts = 1
  /\ phase = "plan" /\ metal = "unset" /\ lanes = 0
  /\ route = "none" /\ preselected = "none"
  /\ prepared = Nothing /\ attempt = Idle /\ frame = NoFrame

Attempt == StartAttempt \/ Frontend \/ SearchStrategies \/ Quantize \/ Serialize
Encode ==
  PlanWorkflowAdmission \/ Admit \/ Preselect \/ PrepareWorkflow \/ Attempt
    \/ AdvanceSearch \/ FinishSearch

Next == Encode \/ OtherResolves

Spec == Init /\ [][Next]_vars /\ WF_vars(Encode)

-------------------------------------------------------------------------------
(* Owners alive in a state. *)
Holds(owner) ==
  CASE owner \in {"opsin", "resident_input", "compatibility_output", "ac_search"} ->
         prepared.present /\ prepared[owner]
    [] owner = "evaluator" ->
         prepared.present /\ (prepared.evaluation # NoEvaluation
                                \/ (phase = "quantize" /\ HostFrameOnly))
    [] owner = "cpu_aq" -> phase = "quantize" /\ Path = "cpu"
    [] owner \in {"frame", "completed_frame"} ->
         (phase = "quantize" /\ FrameKind = owner) \/ frame.kind = owner
    [] owner = "serializer" -> phase = "serialize"
    [] owner = "search_control" -> Searching /\ prepared.present
    [] owner = "retained_best" -> attempt.running /\ best # None

Owners == {"opsin", "resident_input", "compatibility_output", "ac_search", "evaluator",
           "cpu_aq", "frame", "completed_frame", "serializer", "search_control", "retained_best"}

(* Whatever backend each attempt ends up on, whatever is kept from one       *)
(* attempt to the next: what the encode owns at any moment was planned, by   *)
(* one phase of the plan, before its first allocation; and the planner never *)
(* chooses a route its own policy checks refuse (workflow_storage_plan.h:51). *)
PlanCoversOwners ==
  route # "none" =>
    \E planned \in ComputeWorkflowStoragePlan(route) :
      {owner \in Owners : Holds(owner)} \subseteq planned

(* The preparation outlives the attempts that need it: no attempt finds it   *)
(* released, and each finds the form of the image its path reads            *)
(* (workflow.cpp:879, 1063).                                                *)
PreparationOutlivesAttempts ==
  /\ (phase = "attempt" /\ (Searching => WantsCandidate)) => ~prepared.released
  /\ phase \in {"frontend", "strategy", "quantize"} =>
       IF ReadsResidentInput
         THEN prepared.resident_input ELSE prepared.opsin

(* A frame is made with this attempt's scale selectors and the correlation   *)
(* map its path is defined on, however many attempts, on whatever backends,  *)
(* left their evaluator and their preprocessing behind.                     *)
FrameMatchesAttempt ==
  phase = "serialize" =>
    /\ frame.scale = ScaleOf(attempt.target)
    /\ (Path \in {"cpu", "exact"}) => frame.correlation = "accurate"
    /\ Path = "resident" => frame.correlation = "fast"

(* Every encode returns, found or failed. *)
EncodeReturns == <>(phase \in {"done", "failed"})

===============================================================================
