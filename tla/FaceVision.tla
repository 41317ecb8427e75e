----------------------------- MODULE FaceVision -----------------------------
(***************************************************************************)
(* The vision stages on a frame: FaceDetector::detect_best, then           *)
(* FaceEmbedder::extract, each with an OnnxSession whose last_outputs the  *)
(* views returned by run() point into.                                     *)
(*                                                                         *)
(* What the models put out is the environment's choice.  A frame is known  *)
(* by its parity; coordinates are integers, those of the transform         *)
(* multiplied by norm_sq, which the code divides by.                       *)
(***************************************************************************)
EXTENDS Integers, Sequences

CONSTANTS
    Points,          \* where an eye may be seen, <<x, y>>
    CanonicalRight,  \* kCanonicalRightEyeX, Y
    CanonicalLeft,   \* kCanonicalLeftEyeX, Y
    MaxFaces,        \* rows the detector model may return
    Missed          \* nullopt, an empty cv::Mat, no outputs

ASSUME PointsAssumption == Points \cup {CanonicalRight, CanonicalLeft} \subseteq Int \X Int

\* A row of the detector's output: the size of its box, its two eyes.
Faces == [big : BOOLEAN, right : Points, left : Points]

ASSUME MissedAssumption ==
    /\ Missed \notin [shot : {0, 1}, face : Faces]
    /\ Missed \notin [n : Int, a : Int, b : Int, tx : Int, ty : Int]

\* The length of an embedding as the model returns it, and as a number of the
\* vector that is handed on.
Norms == {"zero", "some", "nan"}

VARIABLES
    shot,        \* the frame being worked on
    stage,       \* what is called next
    outputs,     \* last_outputs of the two sessions
    detection,   \* what detect_best returned
    transform,   \* M of extract
    embedding    \* what extract returned

visionVars == <<shot, stage, outputs, detection, transform, embedding>>

VisionTypeOK ==
    /\ shot \in {0, 1}
    /\ stage \in {"capture", "detect", "align", "embed"}
    /\ DOMAIN outputs = {"detector", "embedder"}
    /\ stage \in {"align", "embed"} <=> detection # Missed
    /\ stage = "embed" <=> transform # Missed
    /\ embedding # Missed => embedding.norm \in {"one", "nan"}

VisionInit ==
    /\ shot = 0
    /\ stage = "capture"
    /\ outputs = [detector |-> Missed, embedder |-> Missed]
    /\ detection = Missed
    /\ transform = Missed
    /\ embedding = Missed

\* The next frame is captured; what was found in the last one is gone.
NextFrame ==
    /\ stage = "capture"
    /\ shot' = 1 - shot
    /\ stage' = "detect"
    /\ detection' = Missed
    /\ transform' = Missed
    /\ embedding' = Missed
    /\ UNCHANGED outputs

\* The function returns nullopt: main_loop goes on with the next frame.
GiveUp ==
    /\ stage' = "capture"
    /\ detection' = Missed
    /\ transform' = Missed
    /\ embedding' = Missed

\* OnnxSession::run: the old outputs stay if the inference throws; the new
\* ones are there when a dynamic dimension makes run itself throw.
RunThrows(session) ==
    \/ UNCHANGED outputs
    \/ outputs' = [outputs EXCEPT ![session] = Missed]

RunReturns(session, output) == outputs' = [outputs EXCEPT ![session] = output]

\* A plausible bug: the exception is ignored and what last_outputs holds is
\* taken for the result.
DetectFails_Ignored ==
    /\ stage = "detect"
    /\ RunThrows("detector")
    /\ IF outputs'["detector"] = Missed THEN GiveUp
       ELSE /\ detection' = outputs'["detector"]
            /\ stage' = "align"
            /\ UNCHANGED <<transform, embedding>>
    /\ UNCHANGED shot

DetectFails ==
    /\ stage = "detect"
    /\ RunThrows("detector")
    /\ GiveUp
    /\ UNCHANGED shot

\* No outputs, no detection, or a shape that is not N x 16.
NoFace ==
    /\ stage = "detect"
    /\ RunReturns("detector", Missed)
    /\ GiveUp
    /\ UNCHANGED shot

\* The first row, scaled to the frame.
Detect(faces) ==
    /\ stage = "detect"
    /\ RunReturns("detector", [shot |-> shot, face |-> faces[1]])
    /\ detection' = outputs'["detector"]
    /\ stage' = "align"
    /\ UNCHANGED <<shot, transform, embedding>>

-----------------------------------------------------------------------------
(* similarity_transform_from_eyes                                          *)

Minus(p, q) == <<p[1] - q[1], p[2] - q[2]>>
NormSq(p) == p[1] * p[1] + p[2] * p[2]

\* A plausible bug: the rotation turns the other way.
Similarity_Mirrored(right, left) ==
    LET d == Minus(left, right)
        c == Minus(CanonicalLeft, CanonicalRight)
        n == NormSq(d)
        a == d[1] * c[1] + d[2] * c[2]
        b == d[2] * c[1] - d[1] * c[2]
    IN  [n |-> n, a |-> a, b |-> b,
         tx |-> CanonicalRight[1] * n - (a * right[1] - b * right[2]),
         ty |-> CanonicalRight[2] * n - (b * right[1] + a * right[2])]

\* The matrix (a, -b, tx; b, a, ty) / n.
Similarity(right, left) ==
    LET d == Minus(left, right)
        c == Minus(CanonicalLeft, CanonicalRight)
        n == NormSq(d)
        a == d[1] * c[1] + d[2] * c[2]
        b == d[1] * c[2] - d[2] * c[1]
    IN  [n |-> n, a |-> a, b |-> b,
         tx |-> CanonicalRight[1] * n - (a * right[1] - b * right[2]),
         ty |-> CanonicalRight[2] * n - (b * right[1] + a * right[2])]

\* Where warpAffine puts the point p, times n.
Warped(m, p) == <<m.a * p[1] - m.b * p[2] + m.tx, m.b * p[1] + m.a * p[2] + m.ty>>

-----------------------------------------------------------------------------
(* FaceEmbedder::extract                                                   *)

\* A plausible bug: two eyes in one place are not excluded.
Alignable_Always(face) == face.big

Alignable(face) == face.big /\ NormSq(Minus(face.left, face.right)) # 0

Unalignable ==
    /\ stage = "align"
    /\ ~Alignable(detection.face)
    /\ GiveUp
    /\ UNCHANGED <<shot, outputs>>

Align ==
    /\ stage = "align"
    /\ Alignable(detection.face)
    /\ transform' = Similarity(detection.face.right, detection.face.left)
    /\ stage' = "embed"
    /\ UNCHANGED <<shot, outputs, detection, embedding>>

\* The inference throws, or puts out nothing or vectors of another size.
EmbedFails ==
    /\ stage = "embed"
    /\ RunThrows("embedder")
    /\ GiveUp
    /\ UNCHANGED shot

\* norm < 1e-9 is false of NaN, which is divided by and handed on.
Usable(norm) == norm # "zero"

Embed(norm) ==
    /\ stage = "embed"
    /\ RunReturns("embedder", [of |-> detection, norm |-> norm])
    /\ IF Usable(norm)
       THEN /\ embedding' = [of |-> outputs'["embedder"].of,
                             norm |-> IF norm = "some" THEN "one" ELSE "nan"]
            /\ stage' = "capture"
            /\ detection' = Missed
            /\ transform' = Missed
       ELSE GiveUp
    /\ UNCHANGED shot

VisionNext ==
    \/ NextFrame
    \/ DetectFails \/ NoFace
    \/ \E n \in 1..MaxFaces : \E faces \in [1..n -> Faces] : Detect(faces)
    \/ Unalignable \/ Align \/ EmbedFails
    \/ \E norm \in Norms : Embed(norm)

VisionSpec == VisionInit /\ [][VisionNext]_visionVars

-----------------------------------------------------------------------------
(* Properties.                                                             *)

\* The face and the embedding handed on are of the frame just captured: the
\* failures in between never bring up what a session put out before.
EmbeddingOfFrame ==
    /\ detection # Missed => detection.shot = shot
    /\ embedding # Missed => embedding.of.shot = shot

\* The transform is defined and puts both eyes where the model expects them,
\* wherever they are in the frame and however the head is tilted.
EyesAligned ==
    transform # Missed =>
        LET canonical(p) == <<transform.n * p[1], transform.n * p[2]>>
        IN  /\ transform.n > 0
            /\ Warped(transform, detection.face.right) = canonical(CanonicalRight)
            /\ Warped(transform, detection.face.left) = canonical(CanonicalLeft)

\* What is handed on is the embedding of the face in the frame, upright.
EmbeddingIsSound == EmbeddingOfFrame /\ EyesAligned

=============================================================================
