---------------------------- MODULE MCEdgeParts ----------------------------
(* The parts of the edge programs that share no state, checked side by     *)
(* side: a behaviour is one of one part, the others rest in their initial  *)
(* state.                                                                  *)
EXTENDS RgbLed, Camera, StageProfiler, Matcher, FaceVision, Facegate, Evaluation

CONSTANTS green, red, here, near, far, zero, nan, ana, bia, cid, dan

VARIABLE part

-----------------------------------------------------------------------------
(* RgbLed: the granted window is longer than the denied cooldown.          *)

GrantedAndDenied == {green, red}
Durations == green :> 3 @@ red :> 2

-----------------------------------------------------------------------------
(* StageProfiler: cycles that end at each of the stages, with equal and    *)
(* different timings.                                                      *)

Cycles ==
    {[capture |-> 1, detect |-> 1],
     [capture |-> 2, detect |-> 5],
     [capture |-> 1, detect |-> 2, embed |-> 3],
     [capture |-> 1, detect |-> 2, embed |-> 4, match |-> 1],
     [capture |-> 1, detect |-> 2, embed |-> 2, match |-> 2, publish |-> 3]}

-----------------------------------------------------------------------------
(* Matcher: a vector, one below the threshold from it, one at it, the zero *)
(* vector and one with a NaN.                                              *)

SomeVectors == {here, near, far, zero, nan}
SomeDistances ==
    [p \in SomeVectors \X SomeVectors |->
        IF nan \in {p[1], p[2]} THEN NaN
        ELSE IF zero \in {p[1], p[2]} THEN Infinity
        ELSE IF p[1] = p[2] THEN 0
        ELSE IF far \in {p[1], p[2]} THEN Threshold ELSE 1]

-----------------------------------------------------------------------------
(* FaceVision: eyes in one place and apart, upright, tilted and mirrored.  *)

SomePoints == {<<0, 0>>, <<2, 1>>, <<-1, 3>>}
RightEye == <<38, 52>>
LeftEye == <<73, 51>>

-----------------------------------------------------------------------------
(* Facegate: a valid file, with and without GPIO, with each section left   *)
(* out and each field set to boundary values (17: the pin of another line).*)

Good ==
    [f \in Fields |->
        CASE f = "servo_pin" -> 17 [] f = "buzzer_pin" -> 27 [] f = "rgb_red_pin" -> 22
          [] f = "rgb_green_pin" -> 23 [] f = "rgb_blue_pin" -> 24
          [] f \in Required -> 1 [] OTHER -> Default(f)]

Sections == MandatorySections \cup OptionalSections
Boundaries == {-1, 0, 17, 201, 65536}

FilesTried ==
    [n \in ({"gpio"} \X Fields \X Boundaries)
            \cup ({"no gpio"} \X FieldsOf["gpio"] \X Boundaries)
            \cup {<<"gpio", "threshold", TomlNaN>>}
            \cup ({"no section"} \X Sections) |->
        CASE n[1] = "gpio" ->
                 [given |-> [Good EXCEPT ![n[2]] = n[3]], sections |-> Sections]
          [] n[1] = "no gpio" ->
                 [given |-> [Good EXCEPT !["enabled"] = 0, ![n[2]] = n[3]],
                  sections |-> Sections]
          [] n[1] = "no section" ->
                 [given |-> [f \in Fields \ FieldsOf[n[2]] |-> Good[f]],
                  sections |-> Sections \ {n[2]}]]

-----------------------------------------------------------------------------
(* Evaluation: identities with one, two and three images.                  *)

Dataset == ana :> 3 @@ bia :> 2 @@ cid :> 1 @@ dan :> 2

Lists ==
    {<<>>,
     << << <<ana, 1>>, <<ana, 2>> >>,
        << <<ana, 1>>, <<bia, 1>> >>,
        << <<bia, 1>>, <<ana, 2>> >> >>}

-----------------------------------------------------------------------------
edgeVars == <<vars, cameraVars, profilerVars, matcherVars, visionVars, programVars,
              evaluationVars>>

EdgeInit ==
    /\ part \in {"led", "camera", "profiler", "matcher", "vision", "program",
                 "evaluation"}
    /\ Init /\ CameraInit /\ ProfilerInit /\ MatcherInit /\ VisionInit
    /\ ProgramInit /\ EvaluationInit
    /\ part # "profiler" => interval = 0

LedPart ==
    /\ part = "led" /\ UNCHANGED part
    /\ Next
    /\ UNCHANGED <<cameraVars, profilerVars, matcherVars, visionVars, programVars,
                   evaluationVars>>

CameraPart ==
    /\ part = "camera" /\ UNCHANGED part
    /\ CameraNext
    /\ UNCHANGED <<vars, profilerVars, matcherVars, visionVars, programVars,
                   evaluationVars>>

ProfilerPart ==
    /\ part = "profiler" /\ UNCHANGED part
    /\ ProfilerNext
    /\ UNCHANGED <<vars, cameraVars, matcherVars, visionVars, programVars, evaluationVars>>

MatcherPart ==
    /\ part = "matcher" /\ UNCHANGED part
    /\ MatcherNext
    /\ UNCHANGED <<vars, cameraVars, profilerVars, visionVars, programVars, evaluationVars>>

VisionPart ==
    /\ part = "vision" /\ UNCHANGED part
    /\ VisionNext
    /\ UNCHANGED <<vars, cameraVars, profilerVars, matcherVars, programVars, evaluationVars>>

ProgramPart ==
    /\ part = "program" /\ UNCHANGED part
    /\ ProgramNext
    /\ UNCHANGED <<vars, cameraVars, profilerVars, matcherVars, visionVars, evaluationVars>>

EvaluationPart ==
    /\ part = "evaluation" /\ UNCHANGED part
    /\ EvaluationNext
    /\ UNCHANGED <<vars, cameraVars, profilerVars, matcherVars, visionVars, programVars>>

EdgeNext ==
    \/ LedPart \/ CameraPart \/ ProfilerPart \/ MatcherPart \/ VisionPart
    \/ ProgramPart \/ EvaluationPart

\* Each part under the fairness it states.
EdgeSpec ==
    /\ EdgeInit /\ [][EdgeNext]_<<part, edgeVars>>
    /\ part = "led" => Fairness
    /\ part = "camera" => CameraFairness

-----------------------------------------------------------------------------
(* Properties of all parts.                                                *)

\* Every part keeps to its types.
EdgeTypeOK ==
    /\ TypeOK /\ CameraTypeOK /\ ProfilerTypeOK /\ MatcherTypeOK /\ VisionTypeOK
    /\ ProgramTypeOK /\ EvaluationTypeOK

\* The threads come to an end: the LED goes off when nobody calls any more,
\* and the destructor of the camera returns unless a read hangs.
PartsComeToRest == GoesOff /\ DestructorReturns

=============================================================================
