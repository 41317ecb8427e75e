-------------------------- MODULE EdgeParts_proofs --------------------------
(***************************************************************************)
(* Proofs about the parts of the edge programs that share no state: the    *)
(* camera's frames, the vision stages, the life of the facegate program,   *)
(* the profiler's summaries and the reports of the evaluation.             *)
(***************************************************************************)
EXTENDS MCEdgeParts, RgbLed_proofs, Matcher_proofs, FiniteSetTheorems, TLAPS

-----------------------------------------------------------------------------
(* Camera: a clone is of the frame published last or of the next one.      *)

\* The capture loop is one read ahead of what it has published, and no more,
\* since the mutex keeps it from publishing while a clone is made.
OneReadAhead ==
    /\ capturer \in {"check", "done"} => reads = published
    /\ capturer \in {"read", "publish"} => reads = published + 1 /\ frame \in Buffers

\* The rows written of the frame being read are of that read.
RowsOfThisRead ==
    /\ capturer = "read" => \A r \in Rows \ unwritten : pixels[frame][r] = reads
    /\ capturer = "publish" => \A r \in Rows : pixels[frame][r] = reads

\* The buffer that is published may be the one that is read into.
LatestIsRecent ==
    latest # NoFrame =>
        \A r \in Rows : pixels[latest][r] \in {published, published + 1}

CloneIsRecent ==
    client = "clone" =>
        \A r \in Rows : clone[r] \in {0, published, published + 1}

CameraInv ==
    CameraTypeOK /\ OneReadAhead /\ RowsOfThisRead /\ LatestIsRecent /\ CloneIsRecent

LEMMA CameraStart == CameraInit => CameraInv
<1> SUFFICES ASSUME CameraInit PROVE CameraInv
  OBVIOUS
<1>1. 0 \in Reads
  BY CameraAssumption DEF Reads
<1>2. Blank \in [Rows -> Reads]
  BY <1>1 DEF Blank
<1>3. CameraTypeOK
  BY <1>1, <1>2 DEF CameraInit, CameraTypeOK
<1> QED BY <1>3 DEF CameraInit, CameraInv, OneReadAhead, RowsOfThisRead, LatestIsRecent,
                    CloneIsRecent

LEMMA CameraStep == CameraInv /\ [CameraNext]_cameraVars => CameraInv'
<1> SUFFICES ASSUME CameraInv, [CameraNext]_cameraVars PROVE CameraInv'
  OBVIOUS
<1> USE DEF CameraInv
<1>1. /\ MaxReads \in Nat /\ NoFrame \notin Buffers
      /\ reads \in Nat /\ reads <= MaxReads /\ published \in Nat /\ published <= MaxReads
      /\ pixels \in [Buffers -> [Rows -> Reads]] /\ clone \in [Rows -> Reads]
  BY CameraAssumption DEF CameraTypeOK, Reads
<1>2. CASE LoopEnds
  BY <1>2 DEF LoopEnds, clientVars, CameraTypeOK, OneReadAhead, RowsOfThisRead,
              LatestIsRecent, CloneIsRecent
<1>3. CASE ReadFails
  BY <1>3 DEF ReadFails, clientVars, CameraTypeOK, OneReadAhead, RowsOfThisRead,
              LatestIsRecent, CloneIsRecent
<1>4. CASE ReadBegins
  <2>1. /\ capturer = "check" /\ capturer' = "read" /\ reads < MaxReads
        /\ reads' = reads + 1 /\ unwritten' = Rows
        /\ frame' \in IF frame = NoFrame THEN Buffers \ {latest} ELSE {frame}
        /\ UNCHANGED <<pixels, latest, published, halt, client, clone, got>>
    BY <1>4 DEF ReadBegins, clientVars
  <2>2. frame' \in Buffers
    BY <2>1 DEF CameraTypeOK
  <2>3. reads' \in Reads /\ reads' = published + 1
    BY <1>1, <2>1 DEF Reads, OneReadAhead
  <2>4. CameraTypeOK'
    BY <2>1, <2>2, <2>3 DEF CameraTypeOK
  <2> QED BY <2>1, <2>2, <2>3, <2>4
          DEF OneReadAhead, RowsOfThisRead, LatestIsRecent, CloneIsRecent
<1>5. ASSUME NEW r \in Rows, WriteRow(r) PROVE CameraInv'
  <2>1. /\ capturer = "read" /\ r \in unwritten
        /\ pixels' = [pixels EXCEPT ![frame][r] = reads]
        /\ unwritten' = unwritten \ {r}
        /\ capturer' = IF unwritten' = {} THEN "publish" ELSE "read"
        /\ UNCHANGED <<frame, latest, reads, published, halt, client, clone, got>>
    BY <1>5 DEF WriteRow, clientVars
  <2>2. frame \in Buffers /\ reads = published + 1 /\ reads \in Reads
    BY <2>1 DEF OneReadAhead, CameraTypeOK
  <2>3. /\ pixels' \in [Buffers -> [Rows -> Reads]]
        /\ pixels'[frame][r] = reads
        /\ \A b \in Buffers : \A o \in Rows :
               b # frame \/ o # r => pixels'[b][o] = pixels[b][o]
    BY <1>1, <2>1, <2>2
  <2>4. CameraTypeOK'
    BY <2>1, <2>3 DEF CameraTypeOK
  <2>5. RowsOfThisRead'
    BY <2>1, <2>2, <2>3 DEF RowsOfThisRead
  <2>6. LatestIsRecent'
    BY <2>1, <2>2, <2>3 DEF LatestIsRecent, CameraTypeOK
  <2> QED BY <2>1, <2>2, <2>4, <2>5, <2>6 DEF OneReadAhead, CloneIsRecent
<1>6. CASE Publish
  <2>1. /\ capturer = "publish" /\ client # "clone" /\ latest' = frame
        /\ published' = reads /\ capturer' = "check"
        /\ UNCHANGED <<pixels, frame, reads, unwritten, halt, client, clone, got>>
    BY <1>6 DEF Publish, FrameMutexFree, clientVars
  <2>2. frame \in Buffers /\ \A r \in Rows : pixels[frame][r] = reads
    BY <2>1 DEF OneReadAhead, RowsOfThisRead
  <2>3. CameraTypeOK'
    BY <2>1, <2>2 DEF CameraTypeOK
  <2> QED BY <2>1, <2>2, <2>3
          DEF OneReadAhead, RowsOfThisRead, LatestIsRecent, CloneIsRecent
<1>7. CASE CloneBegins
  <2>1. /\ client' = "clone" /\ clone' = Blank /\ latest # NoFrame
        /\ UNCHANGED <<captureVars, halt, got>>
    BY <1>7 DEF CloneBegins
  <2>2. Blank \in [Rows -> Reads] /\ \A r \in Rows : Blank[r] = 0
    BY <1>1 DEF Blank, Reads
  <2> QED BY <2>1, <2>2
          DEF captureVars, CameraTypeOK, OneReadAhead, RowsOfThisRead, LatestIsRecent,
              CloneIsRecent
<1>8. ASSUME NEW r \in Rows, CopyRow(r) PROVE CameraInv'
  <2>1. /\ client = "clone" /\ clone' = [clone EXCEPT ![r] = pixels[latest][r]]
        /\ UNCHANGED <<captureVars, halt, client, got>>
    BY <1>8 DEF CopyRow
  <2>2. latest \in Buffers /\ pixels[latest][r] \in {published, published + 1}
    BY <2>1 DEF CameraTypeOK, LatestIsRecent
  <2>3. pixels[latest][r] \in Reads
    BY <1>1, <2>2
  <2>4. /\ clone' \in [Rows -> Reads] /\ clone'[r] = pixels[latest][r]
        /\ \A o \in Rows : o # r => clone'[o] = clone[o]
    BY <1>1, <2>1, <2>3
  <2> QED BY <2>1, <2>2, <2>4
          DEF captureVars, CameraTypeOK, OneReadAhead, RowsOfThisRead, LatestIsRecent,
              CloneIsRecent
<1>9. CASE CloneEnds \/ Destroy \/ Joined
  BY <1>9 DEF CloneEnds, Destroy, Joined, captureVars, CameraTypeOK, OneReadAhead,
              RowsOfThisRead, LatestIsRecent, CloneIsRecent
<1>10. CASE ReadHangs
  BY <1>10 DEF ReadHangs, clientVars, CameraTypeOK, OneReadAhead, RowsOfThisRead,
               LatestIsRecent, CloneIsRecent
<1>11. CASE UNCHANGED cameraVars
  BY <1>11 DEF cameraVars, captureVars, clientVars, CameraTypeOK, OneReadAhead,
               RowsOfThisRead, LatestIsRecent, CloneIsRecent
<1> QED BY <1>2, <1>3, <1>4, <1>5, <1>6, <1>7, <1>8, <1>9, <1>10, <1>11
        DEF CameraNext, CaptureLoop, Client, Gone, JoinHangs

\* CameraTypeOK for any number of rows and frames.
THEOREM CameraTypeCorrect == CameraSpec => []CameraTypeOK
<1>1. CameraInv => CameraTypeOK
  BY DEF CameraInv
<1> QED BY <1>1, CameraStart, CameraStep, PTL DEF CameraSpec

\* FrameIsCurrent for frames of any number of parts, however the reads and
\* the clones interleave and whatever reads fail: what capture() returns is
\* of the frame published last or of the one being read, though the clone
\* reads a buffer that cap.read is writing.
THEOREM FramesAreCurrent == CameraSpec => FrameIsCurrent
<1>1. CameraInv /\ [CameraNext]_cameraVars =>
        [client = "clone" /\ client' = "idle" =>
             \A r \in Rows : got'[r] \in {published, published + 1}]_cameraVars
  <2> SUFFICES ASSUME CameraInv, CameraNext, client = "clone", client' = "idle",
                      NEW r \in Rows
               PROVE  got'[r] \in {published, published + 1}
    OBVIOUS
  <2>1. CloneEnds
    BY DEF CameraNext, CaptureLoop, Client, Gone, JoinHangs, LoopEnds, ReadFails,
           ReadBegins, ReadHangs, WriteRow, Publish, FrameMutexFree, CloneBegins, CopyRow, Destroy, Joined, clientVars,
           cameraVars
  <2> QED BY <2>1 DEF CloneEnds, CameraInv, CloneIsRecent
<1> QED BY <1>1, CameraStart, CameraStep, PTL DEF CameraSpec, FrameIsCurrent

-----------------------------------------------------------------------------
(* FaceVision: what is handed on is of the frame, upright.                 *)

\* What detect_best returned is of this frame, what extract made of it puts
\* the eyes in their places.
VisionInv ==
    /\ stage \in {"align", "embed"} => detection \in [shot : {shot}, face : Faces]
    /\ detection # Missed => stage \in {"align", "embed"}
    /\ transform # Missed =>
           /\ stage = "embed"
           /\ transform = Similarity(detection.face.right, detection.face.left)
           /\ Alignable(detection.face)
    /\ DOMAIN outputs = {"detector", "embedder"}
    /\ embedding # Missed => embedding.of.shot = shot

LEMMA NormIsPositive ==
    ASSUME NEW x \in Int, NEW y \in Int
    PROVE  /\ x * x + y * y \in Int
           /\ x * x + y * y # 0 => x * x + y * y > 0
<1>1. x * x \in Int /\ y * y \in Int
  OBVIOUS
<1>2. x * x >= 0 /\ y * y >= 0
  OBVIOUS
<1> QED BY <1>1, <1>2

\* The transform takes the eyes where the model expects them: d is the way
\* from one eye to the other, c that from where the model expects the one to
\* where it expects the other.
LEMMA TurnAndScale ==
    ASSUME NEW d1 \in Int, NEW d2 \in Int, NEW c1 \in Int, NEW c2 \in Int
    PROVE  /\ (d1 * c1 + d2 * c2) * d1 - (d1 * c2 - d2 * c1) * d2
                 = (d1 * d1 + d2 * d2) * c1
           /\ (d1 * c2 - d2 * c1) * d1 + (d1 * c1 + d2 * c2) * d2
                 = (d1 * d1 + d2 * d2) * c2
OBVIOUS

LEMMA EyesInPlace ==
    ASSUME NEW right \in Int \X Int, NEW left \in Int \X Int,
           NormSq(Minus(left, right)) # 0
    PROVE  LET m == Similarity(right, left)
           IN  /\ m.n > 0
               /\ Warped(m, right) = <<m.n * CanonicalRight[1], m.n * CanonicalRight[2]>>
               /\ Warped(m, left) = <<m.n * CanonicalLeft[1], m.n * CanonicalLeft[2]>>
<1> DEFINE d1 == left[1] - right[1]
           d2 == left[2] - right[2]
           c1 == CanonicalLeft[1] - CanonicalRight[1]
           c2 == CanonicalLeft[2] - CanonicalRight[2]
           n == d1 * d1 + d2 * d2
           a == d1 * c1 + d2 * c2
           b == d1 * c2 - d2 * c1
           m == Similarity(right, left)
<1>1. /\ right[1] \in Int /\ right[2] \in Int /\ left[1] \in Int /\ left[2] \in Int
      /\ CanonicalRight[1] \in Int /\ CanonicalRight[2] \in Int
      /\ CanonicalLeft[1] \in Int /\ CanonicalLeft[2] \in Int
  BY PointsAssumption
<1>2. /\ d1 \in Int /\ d2 \in Int /\ c1 \in Int /\ c2 \in Int
      /\ left[1] = right[1] + d1 /\ left[2] = right[2] + d2
      /\ CanonicalLeft[1] = CanonicalRight[1] + c1
      /\ CanonicalLeft[2] = CanonicalRight[2] + c2
  BY <1>1
<1>3. m = [n |-> n, a |-> a, b |-> b,
           tx |-> CanonicalRight[1] * n - (a * right[1] - b * right[2]),
           ty |-> CanonicalRight[2] * n - (b * right[1] + a * right[2])]
  BY DEF Similarity, Minus, NormSq
<1>4. n # 0
  BY DEF NormSq, Minus
<1>5. /\ m.n = n /\ m.a = a /\ m.b = b
      /\ m.tx = CanonicalRight[1] * n - (a * right[1] - b * right[2])
      /\ m.ty = CanonicalRight[2] * n - (b * right[1] + a * right[2])
  BY <1>3
<1>6. /\ Warped(m, right) = <<m.a * right[1] - m.b * right[2] + m.tx,
                              m.b * right[1] + m.a * right[2] + m.ty>>
      /\ Warped(m, left) = <<m.a * left[1] - m.b * left[2] + m.tx,
                             m.b * left[1] + m.a * left[2] + m.ty>>
  BY DEF Warped
<1> HIDE DEF d1, d2, c1, c2, m
<1>7. n \in Int /\ n > 0
  BY <1>2, <1>4, NormIsPositive
<1>8. a \in Int /\ b \in Int
  BY <1>2
<1>9. a * d1 - b * d2 = n * c1 /\ b * d1 + a * d2 = n * c2
  BY <1>2, TurnAndScale
<1> HIDE DEF n, a, b
<1>10. /\ a * right[1] \in Int /\ b * right[2] \in Int /\ b * right[1] \in Int
       /\ a * right[2] \in Int
  BY <1>1, <1>8
<1>11. /\ CanonicalRight[1] * n = n * CanonicalRight[1]
       /\ CanonicalRight[2] * n = n * CanonicalRight[2]
       /\ n * CanonicalRight[1] \in Int /\ n * CanonicalRight[2] \in Int
  BY <1>1, <1>7
<1>12. Warped(m, right) = <<n * CanonicalRight[1], n * CanonicalRight[2]>>
  BY <1>5, <1>6, <1>10, <1>11
<1>13. /\ a * left[1] = a * right[1] + a * d1 /\ b * left[2] = b * right[2] + b * d2
       /\ b * left[1] = b * right[1] + b * d1 /\ a * left[2] = a * right[2] + a * d2
       /\ n * CanonicalLeft[1] = n * CanonicalRight[1] + n * c1
       /\ n * CanonicalLeft[2] = n * CanonicalRight[2] + n * c2
  BY <1>1, <1>2, <1>7, <1>8
<1>14. /\ a * d1 \in Int /\ b * d2 \in Int /\ b * d1 \in Int /\ a * d2 \in Int
       /\ n * c1 \in Int /\ n * c2 \in Int
  BY <1>2, <1>7, <1>8
<1>15. Warped(m, left) = <<n * CanonicalLeft[1], n * CanonicalLeft[2]>>
  BY <1>5, <1>6, <1>9, <1>10, <1>11, <1>13, <1>14
<1> QED BY <1>5, <1>7, <1>12, <1>15 DEF m

LEMMA VisionStart == VisionInit => VisionInv
BY DEF VisionInit, VisionInv

LEMMA VisionStep == VisionInv /\ [VisionNext]_visionVars => VisionInv'
<1> SUFFICES ASSUME VisionInv, [VisionNext]_visionVars PROVE VisionInv'
  OBVIOUS
<1> USE DEF VisionInv
<1>1. CASE NextFrame
  BY <1>1 DEF NextFrame
<1>2. ASSUME GiveUp, DOMAIN outputs' = {"detector", "embedder"}, UNCHANGED shot
      PROVE  VisionInv'
  BY <1>2 DEF GiveUp
<1>3. CASE DetectFails \/ NoFace \/ EmbedFails
  BY <1>2, <1>3 DEF DetectFails, NoFace, EmbedFails, RunThrows, RunReturns
<1>4. CASE Unalignable
  BY <1>2, <1>4 DEF Unalignable
<1>5. ASSUME NEW n \in 1..MaxFaces, NEW faces \in [1..n -> Faces], Detect(faces)
      PROVE  VisionInv'
  <2>1. faces[1] \in Faces
    <3>1. n \in Int /\ 1 \in 1..n
      BY <1>5
    <3> QED BY <3>1
  <2>2. /\ outputs' = [outputs EXCEPT !["detector"] = [shot |-> shot, face |-> faces[1]]]
        /\ detection' = outputs'["detector"] /\ stage' = "align"
        /\ stage = "detect" /\ UNCHANGED <<shot, transform, embedding>>
    BY <1>5 DEF Detect, RunReturns
  <2>3. detection' = [shot |-> shot, face |-> faces[1]]
    BY <2>2
  <2> QED BY <2>1, <2>2, <2>3
<1>6. CASE Align
  <2>1. /\ stage = "align" /\ Alignable(detection.face)
        /\ transform' = Similarity(detection.face.right, detection.face.left)
        /\ stage' = "embed"
        /\ UNCHANGED <<shot, outputs, detection, embedding>>
    BY <1>6 DEF Align
  <2> QED BY <2>1
<1>7. ASSUME NEW norm \in Norms, Embed(norm) PROVE VisionInv'
  <2>1. /\ stage = "embed" /\ UNCHANGED shot
        /\ outputs' = [outputs EXCEPT !["embedder"] = [of |-> detection, norm |-> norm]]
    BY <1>7 DEF Embed, RunReturns
  <2>2. DOMAIN outputs' = {"detector", "embedder"} /\ outputs'["embedder"].of = detection
    BY <2>1
  <2>3. CASE GiveUp
    BY <1>2, <2>1, <2>2, <2>3
  <2>4. CASE /\ embedding' = [of |-> outputs'["embedder"].of,
                              norm |-> IF norm = "some" THEN "one" ELSE "nan"]
             /\ stage' = "capture"
             /\ detection' = Missed
             /\ transform' = Missed
    <3>1. embedding'.of = detection /\ detection.shot = shot
      BY <2>1, <2>2, <2>4
    <3> QED BY <2>1, <2>2, <2>4, <3>1
  <2> QED BY <1>7, <2>3, <2>4 DEF Embed
<1>8. CASE UNCHANGED visionVars
  BY <1>8 DEF visionVars
<1> QED BY <1>1, <1>3, <1>4, <1>5, <1>6, <1>7, <1>8 DEF VisionNext

\* EmbeddingIsSound for any eyes, canonical places and outputs of the models:
\* what is handed on is of the frame just captured, and the transform puts
\* both eyes exactly where the model expects them.
THEOREM EmbeddingsAreSound == VisionSpec => []EmbeddingIsSound
<1>1. VisionInv => EmbeddingOfFrame
  BY DEF VisionInv, EmbeddingOfFrame
<1>2. VisionInv => EyesAligned
  <2> SUFFICES ASSUME VisionInv, transform # Missed PROVE EyesAligned
    BY DEF EyesAligned
  <2>1. /\ detection.face \in Faces /\ Alignable(detection.face)
        /\ transform = Similarity(detection.face.right, detection.face.left)
    BY DEF VisionInv
  <2>2. /\ detection.face.right \in Int \X Int /\ detection.face.left \in Int \X Int
        /\ NormSq(Minus(detection.face.left, detection.face.right)) # 0
    BY <2>1, PointsAssumption DEF Faces, Alignable
  <2> QED BY <2>1, <2>2, EyesInPlace DEF EyesAligned
<1> QED BY <1>1, <1>2, VisionStart, VisionStep, PTL DEF VisionSpec, EmbeddingIsSound

LEMMA SimilarityIsThere ==
    ASSUME NEW right \in Points, NEW left \in Points
    PROVE  Similarity(right, left) # Missed
<1>1. /\ right[1] \in Int /\ right[2] \in Int /\ left[1] \in Int /\ left[2] \in Int
      /\ CanonicalRight[1] \in Int /\ CanonicalRight[2] \in Int
      /\ CanonicalLeft[1] \in Int /\ CanonicalLeft[2] \in Int
  BY PointsAssumption
<1> DEFINE d1 == left[1] - right[1]
           d2 == left[2] - right[2]
           c1 == CanonicalLeft[1] - CanonicalRight[1]
           c2 == CanonicalLeft[2] - CanonicalRight[2]
           n == d1 * d1 + d2 * d2
           a == d1 * c1 + d2 * c2
           b == d1 * c2 - d2 * c1
           tx == CanonicalRight[1] * n - (a * right[1] - b * right[2])
           ty == CanonicalRight[2] * n - (b * right[1] + a * right[2])
<1>2. Similarity(right, left) = [n |-> n, a |-> a, b |-> b, tx |-> tx, ty |-> ty]
  BY DEF Similarity, Minus, NormSq
<1>3. d1 \in Int /\ d2 \in Int /\ c1 \in Int /\ c2 \in Int
  BY <1>1
<1> HIDE DEF d1, d2, c1, c2
<1>4. n \in Int /\ a \in Int /\ b \in Int
  BY <1>3
<1> HIDE DEF n, a, b
<1>5. tx \in Int /\ ty \in Int
  BY <1>1, <1>4
<1> HIDE DEF tx, ty
<1> QED BY <1>2, <1>4, <1>5, MissedAssumption

\* A face is found until the embedding is done or given up, a transform is
\* there only for the second inference, and an embedding is of length one or
\* of NaNs.
THEOREM VisionTypeCorrect == VisionSpec => []VisionTypeOK
<1>1. VisionInit => VisionTypeOK
  BY DEF VisionInit, VisionTypeOK
<1>2. VisionInv /\ VisionTypeOK /\ [VisionNext]_visionVars => VisionTypeOK'
  <2> SUFFICES ASSUME VisionInv, VisionTypeOK, [VisionNext]_visionVars PROVE VisionTypeOK'
    OBVIOUS
  <2> USE DEF VisionTypeOK
  <2>1. CASE NextFrame
    BY <2>1 DEF NextFrame
  <2>2. ASSUME GiveUp, DOMAIN outputs' = {"detector", "embedder"}, UNCHANGED shot
        PROVE  VisionTypeOK'
    BY <2>2 DEF GiveUp
  <2>3. CASE DetectFails \/ NoFace \/ EmbedFails
    BY <2>2, <2>3 DEF DetectFails, NoFace, EmbedFails, RunThrows, RunReturns
  <2>4. CASE Unalignable
    BY <2>2, <2>4 DEF Unalignable
  <2>5. ASSUME NEW n \in 1..MaxFaces, NEW faces \in [1..n -> Faces], Detect(faces)
        PROVE  VisionTypeOK'
    <3>1. faces[1] \in Faces
      <4>1. n \in Int /\ 1 \in 1..n
        BY <2>5
      <4> QED BY <4>1
    <3>2. /\ outputs' = [outputs EXCEPT !["detector"] = [shot |-> shot, face |-> faces[1]]]
          /\ detection' = outputs'["detector"] /\ stage' = "align"
          /\ stage = "detect" /\ UNCHANGED <<shot, transform, embedding>>
      BY <2>5 DEF Detect, RunReturns
    <3>3. detection' = [shot |-> shot, face |-> faces[1]]
      BY <3>2
    <3>4. detection' # Missed
      <4>1. [shot |-> shot, face |-> faces[1]] \in [shot : {0, 1}, face : Faces]
        BY <3>1
      <4> QED BY <3>3, <4>1, MissedAssumption
    <3> QED BY <3>2, <3>4
  <2>6. CASE Align
    <3>1. /\ stage = "align" /\ stage' = "embed"
          /\ transform' = Similarity(detection.face.right, detection.face.left)
          /\ UNCHANGED <<shot, outputs, detection, embedding>>
      BY <2>6 DEF Align
    <3>2. detection.face \in Faces
      BY <3>1 DEF VisionInv
    <3>3. detection.face.right \in Points /\ detection.face.left \in Points
      BY <3>2 DEF Faces
    <3>4. transform' # Missed
      BY <3>1, <3>3, SimilarityIsThere
    <3> QED BY <3>1, <3>4
  <2>7. ASSUME NEW norm \in Norms, Embed(norm) PROVE VisionTypeOK'
    <3>1. /\ stage = "embed" /\ UNCHANGED shot
          /\ outputs' = [outputs EXCEPT !["embedder"] = [of |-> detection, norm |-> norm]]
      BY <2>7 DEF Embed, RunReturns
    <3>2. DOMAIN outputs' = {"detector", "embedder"}
      BY <3>1
    <3>3. CASE GiveUp
      BY <2>2, <3>1, <3>2, <3>3
    <3>4. CASE /\ embedding' = [of |-> outputs'["embedder"].of,
                                norm |-> IF norm = "some" THEN "one" ELSE "nan"]
               /\ stage' = "capture"
               /\ detection' = Missed
               /\ transform' = Missed
      <4>1. embedding'.norm \in {"one", "nan"}
        BY <3>4
      <4> QED BY <3>1, <3>2, <3>4, <4>1
    <3> QED BY <2>7, <3>3, <3>4 DEF Embed
  <2>8. CASE UNCHANGED visionVars
    BY <2>8 DEF visionVars
  <2> QED BY <2>1, <2>3, <2>4, <2>5, <2>6, <2>7, <2>8 DEF VisionNext
<1> QED BY <1>1, <1>2, VisionStart, VisionStep, PTL DEF VisionSpec

-----------------------------------------------------------------------------
(* Facegate: the program starts on sound settings and ends in order.       *)

\* Every component is declared after those its threads use.
LEMMA OrderFacts ==
    /\ Len(Order) = 11 /\ DOMAIN Order = 1..11
    /\ \A i, j \in 1..11 : Order[i] = Order[j] => i = j
    /\ Order[11] = "pipeline"
    /\ \A i \in 1..11 : \A c \in Uses(Order[i]) : \E j \in 1..11 : j < i /\ Order[j] = c
<1>1. /\ Len(Order) = 11 /\ DOMAIN Order = 1..11
      /\ Order[1] = "storage" /\ Order[2] = "camera" /\ Order[3] = "turnstile"
      /\ Order[4] = "buzzer" /\ Order[5] = "led" /\ Order[6] = "detector"
      /\ Order[7] = "embedder" /\ Order[8] = "matcher" /\ Order[9] = "publisher"
      /\ Order[10] = "sync_subscriber" /\ Order[11] = "pipeline"
  BY DEF Order
<1>2. \A i \in 1..11 : i \in {1, 2, 3, 4, 5, 6, 7, 8, 9, 10, 11}
  OBVIOUS
<1>3. \A i, j \in 1..11 : Order[i] = Order[j] => i = j
  BY <1>1, <1>2
<1>4. ASSUME NEW i \in 1..11, NEW c \in Uses(Order[i])
      PROVE  \E j \in 1..11 : j < i /\ Order[j] = c
  <2>1. CASE i = 11
    <3>1. Order[i] = "pipeline"
      BY <1>1, <2>1
    <3>2. c \in Components /\ c # "pipeline"
      BY <1>4, <3>1 DEF Uses
    <3>3. PICK j \in 1..11 : Order[j] = c
      BY <1>1, <3>2 DEF Components
    <3>4. j # 11
      BY <1>1, <3>2, <3>3
    <3> QED BY <2>1, <3>3, <3>4
  <2>2. CASE i = 10
    <3>1. Order[i] = "sync_subscriber"
      BY <1>1, <2>2
    <3>2. c \in {"storage", "matcher"}
      BY <1>4, <3>1 DEF Uses
    <3>3. 1 \in 1..11 /\ 8 \in 1..11 /\ 1 < i /\ 8 < i
      BY <2>2
    <3> QED BY <1>1, <3>2, <3>3
  <2>3. CASE i # 11 /\ i # 10
    <3>1. Order[i] # "pipeline" /\ Order[i] # "sync_subscriber"
      BY <1>1, <1>3, <2>3
    <3>2. Uses(Order[i]) = {}
      BY <3>1 DEF Uses
    <3> QED BY <1>4, <3>2
  <2> QED BY <2>1, <2>2, <2>3
<1> QED BY <1>1, <1>3, <1>4

\* Until main begins to leave, all threads run; the pipeline's, which may
\* open the gate, only with the signal handlers in place.
ProgramInv ==
    /\ ProgramTypeOK
    /\ threads \subseteq Alive
    /\ "pipeline" \in threads => handlers
    /\ phase \in {"start", "load"} => built = 0
    /\ phase \in {"start", "load", "construct", "wait"} =>
           /\ asked = {}
           /\ "pipeline" \in Alive => "pipeline" \in threads
    /\ phase = "construct" \/ built > 0 => Loads(Files[file])

LEMMA ProgramStart == ProgramInit => ProgramInv
<1> SUFFICES ASSUME ProgramInit PROVE ProgramInv
  OBVIOUS
<1>1. Alive = {}
  BY DEF ProgramInit, Alive
<1> QED BY <1>1, OrderFacts DEF ProgramInit, ProgramInv, ProgramTypeOK, Phases

LEMMA ProgramStep == ProgramInv /\ [ProgramNext]_programVars => ProgramInv'
<1> SUFFICES ASSUME ProgramInv, [ProgramNext]_programVars PROVE ProgramInv'
  OBVIOUS
<1>t. /\ ProgramTypeOK /\ built \in 0..11 /\ Len(Order) = 11
      /\ threads \subseteq Alive
      /\ "pipeline" \in threads => handlers
      /\ phase \in {"start", "load"} => built = 0
      /\ phase \in {"start", "load", "construct", "wait"} =>
             /\ asked = {}
             /\ "pipeline" \in Alive => "pipeline" \in threads
      /\ phase = "construct" \/ built > 0 => Loads(Files[file])
  BY OrderFacts DEF ProgramInv, ProgramTypeOK
<1>a. built' = built => Alive' = Alive
  BY DEF Alive
<1>1. CASE Usage
  BY <1>1, <1>t, <1>a DEF Usage, ProgramInv, ProgramTypeOK, Phases
<1>2. CASE Load
  <2>1. /\ phase = "load" /\ file' \in DOMAIN Files /\ built' = built /\ built = 0
        /\ UNCHANGED <<threads, asked, handlers, stopRequested>>
    BY <1>2, <1>t DEF Load
  <2>2. \/ Loads(Files[file']) /\ phase' = "construct" /\ UNCHANGED <<code, threw>>
        \/ phase' = "unwind" /\ code' = 1
    BY <1>2 DEF Load, Throw
  <2>3. ProgramTypeOK'
    BY <1>t, <2>1, <2>2 DEF ProgramTypeOK, Phases
  <2> QED BY <1>t, <1>a, <2>1, <2>2, <2>3 DEF ProgramInv
<1>3. CASE InstallHandlers
  BY <1>3, <1>t, <1>a DEF InstallHandlers, ProgramInv, ProgramTypeOK
<1>4. CASE Construct1
  <2>1. /\ phase = "construct" /\ built < 11 /\ built' = built + 1
        /\ threads' = threads \cup ({Order[built']} \cap Threaded(Parse(Files[file])))
        /\ built = 10 => handlers
        /\ UNCHANGED <<phase, file, asked, handlers, stopRequested, code, threw>>
    BY <1>4, <1>t DEF Construct1, HandlersDue
  <2>2. Alive' = Alive \cup {Order[built']} /\ built' \in 1..11
    <3>1. built' \in 1..11 /\ 1..built' = (1..built) \cup {built'}
      BY <1>t, <2>1
    <3> QED BY <3>1 DEF Alive
  <2>3. Order[built'] = "pipeline" => built' = 11
    BY <2>2, OrderFacts
  <2>4. "pipeline" \in Threaded(Parse(Files[file]))
    BY DEF Threaded
  <2>5. ProgramTypeOK'
    BY <1>t, <2>1, <2>2 DEF ProgramTypeOK
  <2>6. threads' \subseteq Alive' /\ ("pipeline" \in Alive' => "pipeline" \in threads')
    BY <1>t, <2>1, <2>2, <2>4
  <2>7. "pipeline" \in threads' => handlers'
    BY <1>t, <2>1, <2>3
  <2> QED BY <1>t, <2>1, <2>5, <2>6, <2>7 DEF ProgramInv
<1>5. CASE ConstructorThrows
  <2>1. /\ phase = "construct" /\ phase' = "unwind" /\ code' = 1
        /\ UNCHANGED <<file, built, threads, asked, handlers, stopRequested>>
    BY <1>5 DEF ConstructorThrows, Throw
  <2>2. ProgramTypeOK'
    BY <1>t, <2>1 DEF ProgramTypeOK, Phases
  <2> QED BY <1>t, <1>a, <2>1, <2>2 DEF ProgramInv
<1>6. CASE Wait
  <2>1. /\ phase = "construct" /\ built = Len(Order) /\ phase' = "wait"
        /\ UNCHANGED <<file, built, threads, asked, handlers, stopRequested, code, threw>>
    BY <1>6 DEF Wait
  <2>2. ProgramTypeOK'
    BY <1>t, <2>1 DEF ProgramTypeOK, Phases
  <2> QED BY <1>t, <1>a, <2>1, <2>2 DEF ProgramInv
<1>7. CASE Signal
  <2>1. /\ phase' \in {phase, "killed"}
        /\ UNCHANGED <<file, built, threads, asked, handlers, code, threw>>
    BY <1>7 DEF Signal
  <2>2. ProgramTypeOK'
    BY <1>t, <2>1 DEF ProgramTypeOK, Phases
  <2> QED BY <1>t, <1>a, <2>1, <2>2 DEF ProgramInv
<1>8. CASE Leave
  <2>1. /\ phase = "wait" /\ phase' = "unwind" /\ asked' = asked \cup {"pipeline"}
        /\ UNCHANGED <<file, built, threads, handlers, stopRequested, code, threw>>
    BY <1>8 DEF Leave
  <2>2. "pipeline" \in threads
    <3>1. built = 11
      BY <1>t, <2>1 DEF ProgramTypeOK
    <3>2. 11 \in 1..built
      BY <3>1
    <3>3. "pipeline" \in Alive
      BY <3>2, OrderFacts DEF Alive
    <3> QED BY <1>t, <2>1, <3>3
  <2>3. ProgramTypeOK'
    BY <1>t, <2>1, <2>2 DEF ProgramTypeOK, Phases
  <2> QED BY <1>t, <1>a, <2>1, <2>3 DEF ProgramInv
<1>9. CASE AskToStop
  <2>1. /\ phase = "unwind" /\ Order[built] \in threads /\ asked' = asked \cup {Order[built]}
        /\ UNCHANGED <<phase, file, built, threads, handlers, stopRequested, code, threw>>
    BY <1>9 DEF AskToStop
  <2>2. ProgramTypeOK'
    BY <1>t, <2>1 DEF ProgramTypeOK
  <2> QED BY <1>t, <1>a, <2>1, <2>2 DEF ProgramInv
<1>10. CASE Destroyed
  <2>1. /\ phase = "unwind" /\ built > 0 /\ Order[built] \notin threads
        /\ built' = built - 1
        /\ UNCHANGED <<phase, file, threads, asked, handlers, stopRequested, code, threw>>
    BY <1>10 DEF Destroyed
  <2>2. Alive = Alive' \cup {Order[built]} /\ built' \in 0..11
    <3>1. built' \in 0..11 /\ 1..built = (1..built') \cup {built}
      BY <1>t, <2>1
    <3> QED BY <3>1 DEF Alive
  <2>3. threads' \subseteq Alive'
    BY <1>t, <2>1, <2>2
  <2>4. ProgramTypeOK'
    BY <1>t, <2>1, <2>2 DEF ProgramTypeOK
  <2> QED BY <1>t, <2>1, <2>3, <2>4 DEF ProgramInv
<1>11. CASE Exit
  <2>1. /\ phase = "unwind" /\ phase' = "exited"
        /\ UNCHANGED <<file, built, threads, asked, handlers, stopRequested, code, threw>>
    BY <1>11 DEF Exit
  <2>2. ProgramTypeOK'
    BY <1>t, <2>1 DEF ProgramTypeOK, Phases
  <2> QED BY <1>t, <1>a, <2>1, <2>2 DEF ProgramInv
<1>12. ASSUME NEW c \in Components, ThreadEnds(c) PROVE ProgramInv'
  <2>1. /\ c \in asked /\ threads' = threads \ {c} /\ asked' = asked \ {c}
        /\ UNCHANGED <<phase, file, built, handlers, stopRequested, code, threw>>
    BY <1>12 DEF ThreadEnds
  <2>2. ProgramTypeOK'
    BY <1>t, <2>1 DEF ProgramTypeOK
  <2>3. phase \notin {"start", "load", "construct", "wait"}
    BY <1>t, <2>1
  <2> QED BY <1>t, <1>a, <2>1, <2>2, <2>3 DEF ProgramInv
<1>13. CASE UNCHANGED programVars
  BY <1>13, <1>t, <1>a DEF programVars, ProgramInv, ProgramTypeOK
<1> QED BY <1>1, <1>2, <1>3, <1>4, <1>5, <1>6, <1>7, <1>8, <1>9, <1>10, <1>11, <1>12, <1>13
        DEF ProgramNext, Ended

\* Every default passes the check of its field.
LEMMA DefaultsPass ==
    /\ \A f \in Positive : Default(f) > 0
    /\ Default("threshold") \in 0..200
    /\ Default("face_stabilization_ms") >= 0
    /\ Default("broker_port") <= 65535
    /\ Default("servo_open_ms") > 0 /\ Default("buzzer_beep_ms") > 0
BY DEF Default, Positive, Pins

LEMMA FieldsUsed ==
    /\ Required \subseteq Fields /\ Positive \subseteq Fields /\ Pins \subseteq Fields
    /\ {"threshold", "face_stabilization_ms", "broker_port", "enabled", "servo_open_ms",
        "buzzer_beep_ms"} \subseteq Fields
<1>1. \A s \in DOMAIN FieldsOf : FieldsOf[s] \subseteq Fields
  BY DEF Fields
<1>2. DOMAIN FieldsOf = {"root", "vision", "camera", "gpio", "recognition", "storage",
                         "mqtt", "logging", "metrics"}
  BY DEF FieldsOf
<1>3. /\ FieldsOf["root"] \subseteq Fields /\ FieldsOf["vision"] \subseteq Fields
      /\ FieldsOf["camera"] \subseteq Fields /\ FieldsOf["gpio"] \subseteq Fields
      /\ FieldsOf["recognition"] \subseteq Fields /\ FieldsOf["storage"] \subseteq Fields
      /\ FieldsOf["mqtt"] \subseteq Fields /\ FieldsOf["logging"] \subseteq Fields
  BY <1>1, <1>2
<1> HIDE DEF Fields
<1>4. /\ FieldsOf["root"] = {"device_id"}
      /\ FieldsOf["vision"] = {"threshold", "blazeface_model", "mobilefacenet_model",
                               "onnx_threads"}
      /\ FieldsOf["camera"] = {"device", "width", "height", "fps"}
      /\ FieldsOf["gpio"] = Pins \cup {"enabled", "servo_open_ms", "buzzer_beep_ms"}
      /\ FieldsOf["recognition"] =
             {"idle_reset_seconds", "unknown_throttle_seconds", "denied_cooldown_ms",
              "face_stabilization_ms"}
      /\ FieldsOf["storage"] = {"sqlite_path"}
      /\ FieldsOf["mqtt"] = {"broker_host", "broker_port", "client_id", "keepalive_seconds",
                             "heartbeat_interval_seconds"}
      /\ FieldsOf["logging"] = {"level"}
  BY DEF FieldsOf
<1>5. Required \subseteq Fields
  BY <1>3, <1>4 DEF Required
<1>6. Positive \subseteq Fields
  BY <1>3, <1>4 DEF Positive
<1> QED BY <1>3, <1>4, <1>5, <1>6

\* DefaultsAreValid, of any file: a field that is not required may be left out.
LEMMA DefaultsSuffice ==
    ASSUME NEW contents, Loads(contents),
           NEW f \in Fields \ (Required \cup Pins \cup {"enabled"})
    PROVE  Loads(Without(contents, f))
<1> DEFINE cfg == Parse(contents)
           bare == Parse(Without(contents, f))
<1>1. /\ MandatorySections \subseteq contents.sections /\ Valid(cfg)
  BY DEF Loads
<1>2. Without(contents, f).sections = contents.sections
  BY DEF Without
<1>3. \A g \in Fields : bare[g] = IF g = f THEN Default(f) ELSE cfg[g]
  BY DEF Without, Parse
<1> HIDE DEF cfg, bare
<1>4. f \notin Required /\ f \notin Pins /\ f # "enabled"
  OBVIOUS
<1>5. \A g \in Required : bare[g] # 0
  BY <1>1, <1>3, <1>4, FieldsUsed DEF Valid
<1>6. \A g \in Positive : bare[g] > 0
  BY <1>1, <1>3, FieldsUsed, DefaultsPass DEF Valid
<1>7. bare["threshold"] = TomlNaN \/ bare["threshold"] \in 0..200
  BY <1>1, <1>3, FieldsUsed, DefaultsPass DEF Valid
<1>8. bare["face_stabilization_ms"] >= 0 /\ bare["broker_port"] <= 65535
  BY <1>1, <1>3, FieldsUsed, DefaultsPass DEF Valid
<1>9. bare["enabled"] = 1 => GpioValid(bare)
  <2> SUFFICES ASSUME bare["enabled"] = 1 PROVE GpioValid(bare)
    OBVIOUS
  <2>1. GpioValid(cfg)
    BY <1>1, <1>3, <1>4, FieldsUsed DEF Valid
  <2>2. \A g \in Pins : bare[g] = cfg[g]
    BY <1>3, <1>4, FieldsUsed
  <2>3. bare["servo_open_ms"] > 0 /\ bare["buzzer_beep_ms"] > 0
    BY <1>3, <2>1, FieldsUsed, DefaultsPass DEF GpioValid
  <2>4. (\A g \in Pins : bare[g] >= 0) /\ PinsDiffer(bare)
    BY <2>1, <2>2 DEF GpioValid, PinsDiffer
  <2> QED BY <2>3, <2>4 DEF GpioValid
<1>10. Valid(bare)
  BY <1>5, <1>6, <1>7, <1>8, <1>9 DEF Valid
<1> QED BY <1>1, <1>2, <1>10 DEF Loads, bare

\* ProgramTypeOK for any configuration files.
THEOREM ProgramTypeCorrect == ProgramSpec => []ProgramTypeOK
<1>1. ProgramInv => ProgramTypeOK
  BY DEF ProgramInv
<1> QED BY <1>1, ProgramStart, ProgramStep, PTL DEF ProgramSpec

\* StartsAndEndsSafely for any configuration files: whichever constructor
\* throws and whenever the signal comes, no thread outlives what it uses, SIGINT
\* or SIGTERM ends the process on the spot only before the pipeline runs, and
\* what runs does so on settings that give each actuator lines of its own.
THEOREM ProgramStartsAndEndsSafely == ProgramSpec => []StartsAndEndsSafely
<1>1. ProgramInv => NoDanglingReference
  <2> SUFFICES ASSUME ProgramInv, NEW c \in threads
               PROVE  Uses(c) \cup {c} \subseteq Alive
    BY DEF NoDanglingReference
  <2>1. built \in 0..11 /\ threads \subseteq Alive
    BY OrderFacts DEF ProgramInv, ProgramTypeOK
  <2>2. PICK i \in 1..built : Order[i] = c
    BY <2>1 DEF Alive
  <2>3. i \in 1..11 /\ i <= built
    BY <2>1
  <2>4. ASSUME NEW d \in Uses(c) PROVE d \in Alive
    <3>1. PICK j \in 1..11 : j < i /\ Order[j] = d
      BY <2>2, <2>3, <2>4, OrderFacts
    <3>2. j \in 1..built
      BY <2>1, <2>3, <3>1
    <3> QED BY <3>1, <3>2 DEF Alive
  <2> QED BY <2>1, <2>4
<1>2. ProgramInv /\ [ProgramNext]_programVars /\ KilledOnlyBeforePipeline
        => KilledOnlyBeforePipeline'
  <2> SUFFICES ASSUME ProgramInv, [ProgramNext]_programVars, KilledOnlyBeforePipeline,
                      phase' = "killed"
               PROVE  "pipeline" \notin threads'
    BY DEF KilledOnlyBeforePipeline
  <2>1. CASE phase = "killed"
    <3>1. threads' \subseteq threads
      BY <2>1 DEF ProgramNext, Usage, Load, InstallHandlers, Construct1, ConstructorThrows,
                  Wait, Signal, Leave, AskToStop, Destroyed, Exit, Ended, ThreadEnds,
                  programVars
    <3> QED BY <2>1, <3>1 DEF KilledOnlyBeforePipeline
  <2>2. CASE phase # "killed"
    <3>1. Signal
      BY <2>2 DEF ProgramNext, Usage, Load, InstallHandlers, Construct1, ConstructorThrows,
                  Throw, Wait, Leave, AskToStop, Destroyed, Exit, Ended, ThreadEnds,
                  programVars
    <3> QED BY <2>2, <3>1 DEF Signal, ProgramInv
  <2> QED BY <2>1, <2>2
<1>3. ProgramInv => LinesAreOnesOwn
  <2> SUFFICES ASSUME ProgramInv, built > 0,
                      Parse(Files[file])["enabled"] = 1,
                      NEW c \in Alive, NEW d \in Alive,
                      NEW g \in Lines(c), NEW h \in Lines(d),
                      Parse(Files[file])[g] = Parse(Files[file])[h]
               PROVE  g = h
    BY DEF LinesAreOnesOwn
  <2>1. PinsDiffer(Parse(Files[file]))
    BY DEF ProgramInv, Loads, Valid, GpioValid
  <2>2. g \in Pins /\ h \in Pins
    BY DEF Lines, Pins
  <2> QED BY <2>1, <2>2 DEF PinsDiffer
<1>4. ProgramInv => DefaultsAreValid
  BY DefaultsSuffice DEF DefaultsAreValid, OptionalMayBeOmitted
<1>5. ProgramInit => KilledOnlyBeforePipeline
  BY DEF ProgramInit, KilledOnlyBeforePipeline
<1> QED
  BY <1>1, <1>2, <1>3, <1>4, <1>5, ProgramStart, ProgramStep, PTL
     DEF ProgramSpec, StartsAndEndsSafely

-----------------------------------------------------------------------------
(* StageProfiler: the windows hold what was timed since the last summary,  *)
(* and a summary tells of its windows.                                     *)

\* What a cycle is timed as.
Timings == {WithTotal(s) : s \in Samples}

\* The places of a sequence whose elements are of a set.
Within(seq, V) == {k \in DOMAIN seq : seq[k] \in V}

\* The cycles that came to the stage of a window with a timing of V.
Having(w, V) == {t \in Timings : w \in DOMAIN t /\ t[w] \in V}

\* The windows hold what a trace of timings has for them, in whatever order.
WindowsHold(ws, trace) ==
    \A w \in Windows, V \in SUBSET Nat :
        Cardinality(Within(ws[w], V)) = Cardinality(Within(trace, Having(w, V)))

Pending == IF summary = <<>> THEN timed ELSE <<>>

ProfilerInv ==
    /\ ProfilerTypeOK
    /\ timed \in Seq(Timings)
    /\ summary # <<>> => sinceSummary = 0
    /\ Len(windows["total"]) = sinceSummary
    /\ WindowsHold(windows, Pending)
    /\ EachCycleSummarized
    /\ SummaryOfItsCycles

LEMMA TimingFacts ==
    ASSUME NEW t \in Timings
    PROVE  /\ DOMAIN t \subseteq Windows /\ "total" \in DOMAIN t
           /\ \A w \in DOMAIN t : t[w] \in Nat
<1>1. PICK s \in Samples : t = WithTotal(s)
  BY DEF Timings
<1>2. /\ DOMAIN s \subseteq Stages
      /\ \A w \in DOMAIN s : s[w] \in Nat
  <2>1. s \in [DOMAIN s -> Nat] /\ DOMAIN s \subseteq Stages
    BY ProfilerAssumption
  <2> QED BY <2>1
<1>3. Total(s) \in Nat
  <2> DEFINE Of(name) == IF name \in DOMAIN s THEN s[name] ELSE 0
  <2>1. \A name : Of(name) \in Nat
    BY <1>2
  <2>2. Total(s) = Of("capture") + Of("detect") + Of("embed") + Of("match") + Of("publish")
    BY DEF Total
  <2> HIDE DEF Of
  <2> QED BY <2>1, <2>2
<1>4. /\ DOMAIN t = DOMAIN s \cup {"total"}
      /\ t["total"] = Total(s)
      /\ \A w \in DOMAIN s : w # "total" => t[w] = s[w]
  BY <1>1 DEF WithTotal
<1> QED BY <1>2, <1>3, <1>4 DEF Windows

LEMMA WithinIsFinite ==
    ASSUME NEW S, NEW seq \in Seq(S), NEW V
    PROVE  /\ Within(seq, V) \in SUBSET (1..Len(seq))
           /\ IsFiniteSet(Within(seq, V))
           /\ Cardinality(Within(seq, V)) \in Nat
           /\ Cardinality(Within(seq, V)) <= Len(seq)
<1>1. Len(seq) \in Nat /\ DOMAIN seq = 1..Len(seq)
  OBVIOUS
<1>2. 1 \in Int /\ Len(seq) \in Int
  BY <1>1
<1>3. IsFiniteSet(1..Len(seq)) /\ Cardinality(1..Len(seq)) = Len(seq)
  BY <1>1, <1>2, FS_Interval
<1>4. Within(seq, V) \in SUBSET (1..Len(seq))
  BY <1>1 DEF Within
<1>5. IsFiniteSet(Within(seq, V)) /\ Cardinality(Within(seq, V)) <= Len(seq)
  BY <1>3, <1>4, FS_Subset
<1> QED BY <1>4, <1>5, FS_CardinalityType

LEMMA OneMoreWithin ==
    ASSUME NEW S, NEW seq \in Seq(S), NEW e \in S, NEW V
    PROVE  Cardinality(Within(Append(seq, e), V)) =
               IF e \in V THEN Cardinality(Within(seq, V)) + 1
               ELSE Cardinality(Within(seq, V))
<1>1. /\ Within(seq, V) \in SUBSET (1..Len(seq)) /\ IsFiniteSet(Within(seq, V))
      /\ Len(seq) \in Nat
  BY WithinIsFinite
<1>2. Len(seq) + 1 \notin Within(seq, V)
  BY <1>1
<1>3. /\ DOMAIN Append(seq, e) = 1..(Len(seq) + 1)
      /\ \A k \in 1..Len(seq) : Append(seq, e)[k] = seq[k]
      /\ Append(seq, e)[Len(seq) + 1] = e
      /\ DOMAIN seq = 1..Len(seq)
      /\ 1..(Len(seq) + 1) = 1..Len(seq) \cup {Len(seq) + 1}
  BY <1>1
<1>4. Within(Append(seq, e), V) =
          IF e \in V THEN Within(seq, V) \cup {Len(seq) + 1} ELSE Within(seq, V)
  <2> DEFINE longer == Append(seq, e)
             n == Len(seq)
  <2> HIDE DEF longer, n
  <2>1. /\ DOMAIN longer = (1..n) \cup {n + 1} /\ DOMAIN seq = 1..n
        /\ \A k \in 1..n : longer[k] = seq[k]
        /\ longer[n + 1] = e
    BY <1>3 DEF longer, n
  <2>2. Within(longer, V) = IF e \in V THEN Within(seq, V) \cup {n + 1} ELSE Within(seq, V)
    BY <2>1 DEF Within
  <2> QED BY <2>2 DEF longer, n
<1> QED BY <1>1, <1>2, <1>4, FS_AddElement

\* push gives every window what the cycle has for it.
LEMMA PushKeeps ==
    ASSUME NEW ws \in [Windows -> Seq(Nat)], NEW trace \in Seq(Timings),
           NEW t \in Timings, WindowsHold(ws, trace)
    PROVE  /\ Push(ws, t) \in [Windows -> Seq(Nat)]
           /\ Len(Push(ws, t)["total"]) = Len(ws["total"]) + 1
           /\ WindowsHold(Push(ws, t), Append(trace, t))
<1>1. /\ DOMAIN t \subseteq Windows /\ "total" \in DOMAIN t
      /\ \A w \in DOMAIN t : t[w] \in Nat
  BY TimingFacts
<1>2. \A w \in Windows :
          /\ ws[w] \in Seq(Nat)
          /\ Push(ws, t)[w] = IF w \in DOMAIN t THEN Append(ws[w], t[w]) ELSE ws[w]
  BY DEF Push
<1>3. Push(ws, t) \in [Windows -> Seq(Nat)]
  <2>1. ASSUME NEW w \in Windows PROVE Push(ws, t)[w] \in Seq(Nat)
    <3>1. ws[w] \in Seq(Nat)
      BY <1>2
    <3>2. w \in DOMAIN t => Append(ws[w], t[w]) \in Seq(Nat)
      BY <1>1, <3>1
    <3> QED BY <1>2, <3>1, <3>2
  <2>2. Push(ws, t) = [w \in Windows |-> Push(ws, t)[w]]
    BY DEF Push
  <2> QED BY <2>1, <2>2
<1>4. Len(Push(ws, t)["total"]) = Len(ws["total"]) + 1
  <2>1. "total" \in Windows
    BY DEF Windows
  <2>2. ws["total"] \in Seq(Nat) /\ t["total"] \in Nat
    BY <1>1, <1>2, <2>1
  <2>3. Len(Append(ws["total"], t["total"])) = Len(ws["total"]) + 1
    BY <2>2
  <2> QED BY <1>1, <1>2, <2>1, <2>3
<1>5. WindowsHold(Push(ws, t), Append(trace, t))
  <2> SUFFICES ASSUME NEW w \in Windows, NEW V \in SUBSET Nat
               PROVE  Cardinality(Within(Push(ws, t)[w], V)) =
                          Cardinality(Within(Append(trace, t), Having(w, V)))
    BY DEF WindowsHold
  <2>1. Cardinality(Within(ws[w], V)) = Cardinality(Within(trace, Having(w, V)))
    BY DEF WindowsHold
  <2>2. Cardinality(Within(Append(trace, t), Having(w, V))) =
            IF t \in Having(w, V) THEN Cardinality(Within(trace, Having(w, V))) + 1
            ELSE Cardinality(Within(trace, Having(w, V)))
    BY OneMoreWithin
  <2>3. CASE w \in DOMAIN t
    <3>1. ws[w] \in Seq(Nat) /\ t[w] \in Nat
      BY <1>1, <1>2, <2>3
    <3>2. Cardinality(Within(Append(ws[w], t[w]), V)) =
              IF t[w] \in V THEN Cardinality(Within(ws[w], V)) + 1
              ELSE Cardinality(Within(ws[w], V))
      BY <3>1, OneMoreWithin
    <3>3. t \in Having(w, V) <=> t[w] \in V
      BY <2>3 DEF Having
    <3> QED BY <1>2, <2>1, <2>2, <2>3, <3>2, <3>3
  <2>4. CASE w \notin DOMAIN t
    <3>1. t \notin Having(w, V)
      BY <2>4 DEF Having
    <3> QED BY <1>2, <2>1, <2>2, <2>4, <3>1
  <2> QED BY <2>3, <2>4
<1> QED BY <1>3, <1>4, <1>5

\* Each place is taken by one sample: sorting neither loses nor repeats any.
LEMMA PositionsAreTaken ==
    ASSUME NEW samples \in Seq(Nat), NEW k \in 1..Len(samples)
    PROVE  \E i \in 1..Len(samples) : Position(samples, i) = k
<1> DEFINE n == Len(samples)
           UpTo(i) == {j \in 1..n : samples[j] < samples[i]
                                        \/ (samples[j] = samples[i] /\ j <= i)}
           place == [i \in 1..n |-> Cardinality(UpTo(i))]
<1>1. n \in Nat /\ DOMAIN samples = 1..n /\ \A i \in 1..n : samples[i] \in Nat
  OBVIOUS
<1>2. 1 \in Int /\ n \in Int
  BY <1>1
<1>3. IsFiniteSet(1..n) /\ Cardinality(1..n) = n
  <2> HIDE DEF n
  <2> QED BY <1>1, <1>2, FS_Interval
<1>4. \A i \in 1..n : Position(samples, i) = place[i]
  BY <1>1 DEF Position
<1> HIDE DEF n
<1>5. ASSUME NEW i \in 1..n
      PROVE  /\ UpTo(i) \in SUBSET (1..n) /\ IsFiniteSet(UpTo(i)) /\ i \in UpTo(i)
             /\ Cardinality(UpTo(i)) \in 1..n
  <2>1. UpTo(i) \in SUBSET (1..n) /\ i \in UpTo(i)
    BY <1>1
  <2> HIDE DEF UpTo
  <2>2. IsFiniteSet(UpTo(i)) /\ Cardinality(UpTo(i)) <= n
    BY <1>3, <2>1, FS_Subset
  <2>3. Cardinality(UpTo(i)) \in Nat /\ Cardinality(UpTo(i)) # 0
    BY <2>1, <2>2, FS_CardinalityType, FS_EmptySet
  <2> QED BY <1>1, <2>1, <2>2, <2>3
<1>6. place \in [1..n -> 1..n]
  BY <1>5
<1>7. ASSUME NEW i \in 1..n, NEW j \in 1..n,
             samples[i] < samples[j] \/ (samples[i] = samples[j] /\ i < j)
      PROVE  place[i] # place[j]
  <2>1. UpTo(i) \in SUBSET UpTo(j)
    BY <1>1, <1>7
  <2>2. j \notin UpTo(i)
    BY <1>1, <1>7
  <2>3. UpTo(i) # UpTo(j) /\ IsFiniteSet(UpTo(j))
    BY <1>5, <2>2
  <2>4. Cardinality(UpTo(i)) # Cardinality(UpTo(j))
    <3> HIDE DEF UpTo
    <3> QED BY <2>1, <2>3, FS_Subset
  <2> QED BY <2>4
<1>8. \A i, j \in 1..n : i # j => place[i] # place[j]
  <2> SUFFICES ASSUME NEW i \in 1..n, NEW j \in 1..n, i # j
               PROVE  place[i] # place[j]
    OBVIOUS
  <2>1. \/ samples[i] < samples[j] \/ (samples[i] = samples[j] /\ i < j)
        \/ samples[j] < samples[i] \/ (samples[j] = samples[i] /\ j < i)
    BY <1>1
  <2> QED BY <1>7, <2>1
<1>9. place \in Injection(1..n, 1..n)
  <2>1. DOMAIN place = 1..n
    OBVIOUS
  <2> HIDE DEF place
  <2> QED BY <1>6, <1>8, <2>1 DEF Injection, IsInjective
<1>10. place \in Surjection(1..n, 1..n)
  <2> HIDE DEF place
  <2> QED BY <1>3, <1>9, FS_Injection
<1>11. \E i \in 1..n : place[i] = k
  <2>1. k \in 1..n
    BY DEF n
  <2> HIDE DEF place
  <2> QED BY <1>10, <2>1 DEF Surjection
<1> QED BY <1>4, <1>11 DEF n

\* What sorting puts in a place: so many do not exceed it, fewer fall below it.
LEMMA AscendingFacts ==
    ASSUME NEW samples \in Seq(Nat), NEW k \in 1..Len(samples)
    PROVE  LET v == Ascending(samples)[k]
           IN  /\ v \in Nat
               /\ k <= Cardinality(Within(samples, {u \in Nat : u <= v}))
               /\ Cardinality(Within(samples, {u \in Nat : u < v})) < k
<1> DEFINE v == Ascending(samples)[k]
           n == Len(samples)
           AtMost == Within(samples, {u \in Nat : u <= v})
           Below == Within(samples, {u \in Nat : u < v})
<1>1. n \in Nat /\ DOMAIN samples = 1..n /\ \A i \in 1..n : samples[i] \in Nat
  OBVIOUS
<1>2. PICK i \in 1..n : Position(samples, i) = k /\ v = samples[i]
  <2>1. \E i \in 1..n : Position(samples, i) = k
    BY PositionsAreTaken
  <2> DEFINE j == CHOOSE i \in 1..n : Position(samples, i) = k
  <2>2. j \in 1..n /\ Position(samples, j) = k
    BY <2>1
  <2>3. v = samples[j]
    BY <1>1 DEF Ascending
  <2> QED BY <2>2, <2>3
<1> DEFINE UpTo == {j \in DOMAIN samples :
                       samples[j] < samples[i] \/ (samples[j] = samples[i] /\ j <= i)}
<1>3. Cardinality(UpTo) = k
  BY <1>2 DEF Position
<1>4. v \in Nat
  BY <1>1, <1>2
<1>5. /\ UpTo \in SUBSET AtMost
      /\ Below \in SUBSET UpTo
      /\ i \in UpTo /\ i \notin Below
  BY <1>1, <1>2, <1>4 DEF Within
<1>6. IsFiniteSet(AtMost) /\ Cardinality(AtMost) \in Nat
  BY WithinIsFinite
<1> HIDE DEF UpTo, AtMost, Below
<1>7. IsFiniteSet(UpTo) /\ Cardinality(UpTo) <= Cardinality(AtMost)
  BY <1>5, <1>6, FS_Subset
<1>8. /\ Cardinality(Below) <= Cardinality(UpTo)
      /\ Cardinality(Below) # Cardinality(UpTo)
      /\ IsFiniteSet(Below)
  BY <1>5, <1>7, FS_Subset
<1>9. Cardinality(Below) \in Nat /\ k \in Nat
  BY <1>3, <1>7, <1>8, FS_CardinalityType
<1> QED BY <1>3, <1>4, <1>7, <1>8, <1>9 DEF AtMost, Below

\* What SummaryOfItsCycles says of one window.
SummaryOf(trace, w, stats) ==
    LET ran == {i \in DOMAIN trace : w \in DOMAIN trace[i]}
        AtMost(v) == Cardinality({i \in ran : trace[i][w] <= v})
        Below(v) == Cardinality({i \in ran : trace[i][w] < v})
        Quantile(v, percent) ==
            /\ 100 * AtMost(v) >= percent * Cardinality(ran)
            /\ 100 * Below(v) <= percent * Cardinality(ran)
    IN  /\ stats.n = Cardinality(ran)
        /\ ran # {} =>
               /\ Quantile(stats.p50, 50)
               /\ Quantile(stats.p95, 95)
               /\ AtMost(stats.max) = Cardinality(ran)
               /\ Below(stats.max) < Cardinality(ran)

\* A place of the sorted samples is a quantile: the one Pick takes of its
\* percentage, the last of the whole.
LEMMA PickIsQuantile ==
    ASSUME NEW n \in Nat \ {0}, NEW percent \in {50, 95}, NEW samples \in Seq(Nat),
           Len(samples) = n
    PROVE  LET v == Pick(Ascending(samples), percent)
               atMost == Cardinality(Within(samples, {u \in Nat : u <= v}))
               below == Cardinality(Within(samples, {u \in Nat : u < v}))
           IN  /\ v \in Nat
               /\ 100 * atMost >= percent * n
               /\ 100 * below <= percent * n
<1> DEFINE i == (percent * n) \div 100
           k == IF i < n - 1 THEN i + 1 ELSE n
           v == Ascending(samples)[k]
           atMost == Cardinality(Within(samples, {u \in Nat : u <= v}))
           below == Cardinality(Within(samples, {u \in Nat : u < v}))
<1>1. Len(Ascending(samples)) = n
  <2>1. DOMAIN Ascending(samples) = 1..n
    BY DEF Ascending
  <2>2. Ascending(samples) = [j \in 1..n |-> Ascending(samples)[j]]
    BY <2>1 DEF Ascending
  <2> QED BY <2>2
<1>2. Pick(Ascending(samples), percent) = v
  BY <1>1 DEF Pick
<1>3. /\ i \in Nat /\ 100 * i <= percent * n /\ percent * n < 100 * i + 100
  OBVIOUS
<1>4. k \in 1..n /\ k - 1 <= i /\ (k = i + 1 \/ k = n)
  BY <1>3
<1>5. v \in Nat /\ k <= atMost /\ below < k
  <2>1. k \in 1..Len(samples)
    BY <1>4
  <2>2. PICK place \in 1..Len(samples) : place = k
    BY <2>1
  <2> HIDE DEF k
  <2>3. /\ Ascending(samples)[place] \in Nat
        /\ place <= Cardinality(Within(samples, {u \in Nat : u <= Ascending(samples)[place]}))
        /\ Cardinality(Within(samples, {u \in Nat : u < Ascending(samples)[place]})) < place
    BY AscendingFacts
  <2> QED BY <2>2, <2>3
<1>6. atMost \in Nat /\ below \in Nat
  BY WithinIsFinite
<1> HIDE DEF v, atMost, below, k, i
<1>7. PICK a \in Nat, b \in Nat, kk \in 1..n, ii \in Nat :
          a = atMost /\ b = below /\ kk = k /\ ii = i
  BY <1>3, <1>4, <1>6
<1>8. kk <= a /\ b < kk /\ kk - 1 <= ii /\ (kk = ii + 1 \/ kk = n)
  BY <1>4, <1>5, <1>7
<1>9. 100 * ii <= percent * n /\ percent * n < 100 * ii + 100
  BY <1>3, <1>7
<1>10. 100 * a >= percent * n
  <2>1. CASE percent = 50
    BY <1>8, <1>9, <2>1
  <2>2. CASE percent = 95
    BY <1>8, <1>9, <2>2
  <2> QED BY <2>1, <2>2
<1>11. 100 * b <= percent * n
  <2>1. CASE percent = 50
    BY <1>8, <1>9, <2>1
  <2>2. CASE percent = 95
    BY <1>8, <1>9, <2>2
  <2> QED BY <2>1, <2>2
<1> QED BY <1>2, <1>5, <1>7, <1>10, <1>11 DEF v, atMost, below

LEMMA SummaryIsRight ==
    ASSUME NEW ws \in [Windows -> Seq(Nat)], NEW trace \in Seq(Timings),
           WindowsHold(ws, trace), NEW w \in Windows
    PROVE  SummaryOf(trace, w, Summarize(ws[w]))
<1> DEFINE samples == ws[w]
           n == Len(samples)
           ran == {i \in DOMAIN trace : w \in DOMAIN trace[i]}
           AtMost(v) == Cardinality({i \in ran : trace[i][w] <= v})
           Below(v) == Cardinality({i \in ran : trace[i][w] < v})
<1>1. samples \in Seq(Nat) /\ n \in Nat
  OBVIOUS
<1>2. \A i \in DOMAIN trace : trace[i] \in Timings
  OBVIOUS
<1>3. \A i \in ran : trace[i][w] \in Nat
  BY <1>2, TimingFacts
<1>4. ASSUME NEW V \in SUBSET Nat
      PROVE  Cardinality(Within(samples, V)) =
                 Cardinality({i \in ran : trace[i][w] \in V})
  <2>1. Within(trace, Having(w, V)) = {i \in ran : trace[i][w] \in V}
    BY <1>2 DEF Within, Having
  <2> QED BY <2>1 DEF WindowsHold
<1>5. \A v \in Nat :
          /\ AtMost(v) = Cardinality(Within(samples, {u \in Nat : u <= v}))
          /\ Below(v) = Cardinality(Within(samples, {u \in Nat : u < v}))
  <2> SUFFICES ASSUME NEW v \in Nat
               PROVE  /\ AtMost(v) = Cardinality(Within(samples, {u \in Nat : u <= v}))
                      /\ Below(v) = Cardinality(Within(samples, {u \in Nat : u < v}))
    OBVIOUS
  <2>1. /\ {i \in ran : trace[i][w] <= v} =
               {i \in ran : trace[i][w] \in {u \in Nat : u <= v}}
        /\ {i \in ran : trace[i][w] < v} =
               {i \in ran : trace[i][w] \in {u \in Nat : u < v}}
    BY <1>3
  <2>2. {u \in Nat : u <= v} \in SUBSET Nat /\ {u \in Nat : u < v} \in SUBSET Nat
    OBVIOUS
  <2> HIDE DEF samples, ran
  <2> QED BY <1>4, <2>1, <2>2
<1>6. Cardinality(ran) = n
  <2>1. {i \in ran : trace[i][w] \in Nat} = ran
    BY <1>3
  <2>2. Within(samples, Nat) = 1..n
    BY <1>1 DEF Within
  <2>3. 1 \in Int /\ n \in Int
    BY <1>1
  <2>4. Cardinality(1..n) = n
    <3> HIDE DEF n
    <3> QED BY <1>1, <2>3, FS_Interval
  <2>5. Nat \in SUBSET Nat
    OBVIOUS
  <2> HIDE DEF samples, ran, n
  <2> QED BY <1>4, <2>1, <2>2, <2>4, <2>5
<1>7. CASE samples = <<>>
  <2>1. n = 0 /\ Summarize(samples) = [n |-> 0]
    BY <1>7 DEF Summarize
  <2>2. IsFiniteSet(ran)
    <3>1. ran \in SUBSET (1..Len(trace)) /\ Len(trace) \in Nat
      OBVIOUS
    <3>2. 1 \in Int /\ Len(trace) \in Int
      BY <3>1
    <3>3. IsFiniteSet(1..Len(trace))
      BY <3>2, FS_Interval
    <3> HIDE DEF ran
    <3> QED BY <3>1, <3>3, FS_Subset
  <2>3. ran = {}
    <3> HIDE DEF ran, n
    <3> QED BY <1>6, <2>1, <2>2, FS_EmptySet
  <2> QED BY <1>6, <2>1, <2>3 DEF SummaryOf
<1>8. CASE samples # <<>>
  <2> DEFINE last == Ascending(samples)[n]
             p50 == Pick(Ascending(samples), 50)
             p95 == Pick(Ascending(samples), 95)
  <2>1. n \in Nat \ {0} /\ n \in 1..n
    BY <1>1, <1>8
  <2>2. Len(Ascending(samples)) = n
    <3>1. DOMAIN samples = 1..n
      BY <1>1
    <3> HIDE DEF n, samples
    <3>2. /\ DOMAIN Ascending(samples) = 1..n
          /\ Ascending(samples) = [j \in 1..n |-> Ascending(samples)[j]]
      BY <3>1 DEF Ascending
    <3> QED BY <1>1, <3>2
  <2>3. Summarize(samples) = [n |-> n, p50 |-> p50, p95 |-> p95, max |-> last]
    BY <1>8, <2>2 DEF Summarize
  <2> HIDE DEF samples, n, ran
  <2>4. /\ p50 \in Nat
        /\ 100 * Cardinality(Within(samples, {u \in Nat : u <= p50})) >= 50 * n
        /\ 100 * Cardinality(Within(samples, {u \in Nat : u < p50})) <= 50 * n
    BY <1>1, <2>1, PickIsQuantile DEF n
  <2>5. /\ p95 \in Nat
        /\ 100 * Cardinality(Within(samples, {u \in Nat : u <= p95})) >= 95 * n
        /\ 100 * Cardinality(Within(samples, {u \in Nat : u < p95})) <= 95 * n
    BY <1>1, <2>1, PickIsQuantile DEF n
  <2>6. /\ last \in Nat
        /\ n <= Cardinality(Within(samples, {u \in Nat : u <= last}))
        /\ Cardinality(Within(samples, {u \in Nat : u < last})) < n
    BY <1>1, <2>1, AscendingFacts DEF n
  <2>7. Cardinality(Within(samples, {u \in Nat : u <= last})) = n
    <3>1. /\ Cardinality(Within(samples, {u \in Nat : u <= last})) <= n
          /\ Cardinality(Within(samples, {u \in Nat : u <= last})) \in Nat
      BY <1>1, WithinIsFinite DEF n
    <3> QED BY <2>6, <1>1, <3>1
  <2> HIDE DEF p50, p95, last
  <2>8. /\ 100 * AtMost(p50) >= 50 * Cardinality(ran)
        /\ 100 * Below(p50) <= 50 * Cardinality(ran)
        /\ 100 * AtMost(p95) >= 95 * Cardinality(ran)
        /\ 100 * Below(p95) <= 95 * Cardinality(ran)
        /\ AtMost(last) = Cardinality(ran)
        /\ Below(last) < Cardinality(ran)
    <3> HIDE DEF AtMost, Below
    <3> QED BY <1>5, <1>6, <2>4, <2>5, <2>6, <2>7
  <2>9. /\ Summarize(samples).n = Cardinality(ran)
        /\ Summarize(samples).p50 = p50 /\ Summarize(samples).p95 = p95
        /\ Summarize(samples).max = last
    BY <1>6, <2>3
  <2> QED BY <2>8, <2>9 DEF SummaryOf, samples, ran
<1> QED BY <1>7, <1>8

LEMMA ProfilerStart == ProfilerInit => ProfilerInv
<1> SUFFICES ASSUME ProfilerInit PROVE ProfilerInv
  OBVIOUS
<1> USE DEF ProfilerInit, NoSamples
<1>1. ProfilerTypeOK
  <2>1. windows \in [Windows -> Seq(Nat)]
    OBVIOUS
  <2>2. /\ 0 \in 0..MaxCycles /\ 0 \in 0..MaxRuns /\ 0 \in 0..0
        /\ interval > 0 => 0 < interval
    BY ProfilerAssumption
  <2>3. /\ running \in BOOLEAN /\ csvOpen \in BOOLEAN /\ interval \in Intervals
        /\ cycleIndex \in 0..MaxCycles /\ summarized \in 0..MaxCycles
        /\ runs \in 0..MaxRuns /\ sinceSummary \in 0..cycleIndex
        /\ interval > 0 => sinceSummary < interval
    BY <2>2
  <2> QED BY <2>1, <2>3 DEF ProfilerTypeOK
<1>2. WindowsHold(windows, Pending)
  BY DEF WindowsHold, Pending, Within
<1>3. EachCycleSummarized /\ SummaryOfItsCycles
  BY ProfilerAssumption DEF EachCycleSummarized, SummaryOfItsCycles
<1>4. Len(windows["total"]) = sinceSummary
  BY DEF Windows
<1> QED BY <1>1, <1>2, <1>3, <1>4 DEF ProfilerInv

\* A summary of windows that hold a trace is a summary of the trace, and
\* counts as many cycles as came to the end.
LEMMA EmitSummaryKeeps ==
    ASSUME NEW ws \in [Windows -> Seq(Nat)], timed' \in Seq(Timings),
           WindowsHold(ws, timed'), EmitSummary(ws)
    PROVE  /\ SummaryOfItsCycles'
           /\ summary' # <<>> /\ Pending' = <<>>
           /\ WindowsHold(windows, Pending)'
           /\ windows' \in [Windows -> Seq(Nat)]
           /\ Len(windows["total"])' = 0 /\ sinceSummary' = 0
           /\ summarized' = summarized + Len(ws["total"])
<1>1. /\ summary' = [w \in Windows |-> Summarize(ws[w])]
      /\ windows' = [w \in Windows |-> <<>>]
      /\ sinceSummary' = 0
      /\ summarized' = summarized + summary'["total"].n
      /\ "total" \in Windows
  BY DEF EmitSummary, NoSamples, Windows
<1>2. summary' # <<>>
  <2>1. DOMAIN summary' # {}
    BY <1>1
  <2> QED BY <2>1
<1>3. Pending' = <<>>
  BY <1>2 DEF Pending
<1>4. WindowsHold(windows, Pending)'
  BY <1>1, <1>3 DEF WindowsHold, Within
<1>5. SummaryOfItsCycles'
  <2>1. ASSUME NEW w \in Windows PROVE SummaryOf(timed', w, summary'[w])
    BY <1>1, SummaryIsRight
  <2> QED BY <2>1 DEF SummaryOfItsCycles, SummaryOf
<1>6. summary'["total"].n = Len(ws["total"])
  <2>1. Summarize(ws["total"]).n = Len(ws["total"])
    <3>1. ws["total"] \in Seq(Nat)
      BY <1>1
    <3>2. CASE ws["total"] = <<>>
      BY <3>2 DEF Summarize
    <3>3. CASE ws["total"] # <<>>
      BY <3>3 DEF Summarize
    <3> QED BY <3>2, <3>3
  <2> QED BY <1>1, <2>1
<1> QED BY <1>1, <1>2, <1>3, <1>4, <1>5, <1>6

LEMMA RecordKeeps ==
    ASSUME ProfilerInv, NEW s \in Samples, Record(s)
    PROVE  ProfilerInv'
<1> DEFINE t == WithTotal(s)
           pushed == Push(windows, t)
<1>1. /\ ProfilerTypeOK /\ timed \in Seq(Timings) /\ EachCycleSummarized
      /\ WindowsHold(windows, Pending) /\ Len(windows["total"]) = sinceSummary
  BY DEF ProfilerInv
<1>2. /\ cycleIndex \in Nat /\ sinceSummary \in Nat /\ interval \in Nat
      /\ summarized \in Nat /\ MaxCycles \in Nat /\ cycleIndex < MaxCycles
      /\ sinceSummary <= cycleIndex /\ cycleIndex' = cycleIndex + 1
      /\ interval' = interval /\ running /\ running' = running /\ runs' = runs
      /\ csvOpen' = csvOpen
  BY <1>1, ProfilerAssumption DEF ProfilerTypeOK, Record
<1>3. t \in Timings /\ Pending \in Seq(Timings) /\ timed' = Append(Pending, t)
  BY <1>1 DEF Timings, Pending, Record
<1>4. timed' \in Seq(Timings)
  BY <1>3
<1>5. /\ pushed \in [Windows -> Seq(Nat)]
      /\ Len(pushed["total"]) = sinceSummary + 1
      /\ WindowsHold(pushed, timed')
  BY <1>1, <1>3, PushKeeps DEF ProfilerTypeOK
<1>6. CASE SummaryDue(sinceSummary + 1) /\ EmitSummary(pushed)
  <2>1. /\ SummaryOfItsCycles' /\ WindowsHold(windows, Pending)'
        /\ windows' \in [Windows -> Seq(Nat)]
        /\ Len(windows["total"])' = 0 /\ sinceSummary' = 0
        /\ summarized' = summarized + sinceSummary + 1
    <3>1. summarized' = summarized + Len(pushed["total"])
      BY <1>4, <1>5, <1>6, EmitSummaryKeeps
    <3>2. summarized' = summarized + sinceSummary + 1
      BY <1>2, <1>5, <3>1
    <3> HIDE DEF pushed
    <3> QED BY <1>4, <1>5, <1>6, <3>2, EmitSummaryKeeps
  <2>2. interval > 0
    BY <1>6 DEF SummaryDue
  <2>3. summarized + sinceSummary = cycleIndex
    BY <1>1, <2>2 DEF EachCycleSummarized
  <2>4. summarized' = cycleIndex' /\ summarized' + sinceSummary' = cycleIndex'
    BY <1>2, <2>1, <2>3
  <2>5. ProfilerTypeOK'
    BY <1>1, <1>2, <2>1, <2>4 DEF ProfilerTypeOK
  <2>6. EachCycleSummarized'
    BY <2>4 DEF EachCycleSummarized
  <2> QED BY <1>4, <2>1, <2>5, <2>6 DEF ProfilerInv
<1>7. CASE /\ ~SummaryDue(sinceSummary + 1)
           /\ windows' = pushed /\ sinceSummary' = sinceSummary + 1
           /\ summary' = <<>> /\ UNCHANGED summarized
  <2>1. Pending' = timed'
    BY <1>7 DEF Pending
  <2>2. WindowsHold(windows, Pending)' /\ Len(windows["total"])' = sinceSummary'
    <3> HIDE DEF pushed
    <3> QED BY <1>5, <1>7, <2>1 DEF WindowsHold
  <2>3. EachCycleSummarized'
    BY <1>1, <1>2, <1>7 DEF EachCycleSummarized
  <2>4. ProfilerTypeOK'
    <3>1. interval > 0 => sinceSummary + 1 < interval
      BY <1>2, <1>7 DEF SummaryDue
    <3>2. sinceSummary' \in 0..cycleIndex' /\ cycleIndex' \in 0..MaxCycles
      BY <1>2, <1>7
    <3>3. windows' \in [Windows -> Seq(Nat)]
      BY <1>5, <1>7
    <3> QED BY <1>1, <1>2, <1>7, <3>1, <3>2, <3>3 DEF ProfilerTypeOK
  <2>5. SummaryOfItsCycles'
    BY <1>7 DEF SummaryOfItsCycles
  <2> QED BY <1>4, <1>7, <2>2, <2>3, <2>4, <2>5 DEF ProfilerInv
<1> QED BY <1>6, <1>7 DEF Record

LEMMA ConstructKeeps ==
    ASSUME ProfilerInv, Construct
    PROVE  ProfilerInv'
<1> USE DEF Construct, NoSamples
<1>1. ProfilerTypeOK'
  <2>1. runs' \in 0..MaxRuns
    BY ProfilerAssumption DEF ProfilerInv, ProfilerTypeOK
  <2>2. /\ interval' \in Intervals /\ csvOpen' \in BOOLEAN /\ running' \in BOOLEAN
        /\ cycleIndex' \in 0..MaxCycles /\ summarized' \in 0..MaxCycles
        /\ sinceSummary' \in 0..cycleIndex'
        /\ interval' > 0 => sinceSummary' < interval'
    <3>1. 0 \in 0..MaxCycles /\ 0 \in 0..0 /\ interval' = interval
      BY ProfilerAssumption
    <3>2. interval \in Intervals
      BY DEF ProfilerInv, ProfilerTypeOK
    <3>3. csvOpen' \in BOOLEAN
      OBVIOUS
    <3> QED BY <3>1, <3>2, <3>3
  <2>3. windows' \in [Windows -> Seq(Nat)]
    OBVIOUS
  <2> QED BY <2>1, <2>2, <2>3 DEF ProfilerTypeOK
<1>2. WindowsHold(windows, Pending)'
  BY DEF WindowsHold, Pending, Within
<1>3. EachCycleSummarized' /\ SummaryOfItsCycles'
  BY DEF EachCycleSummarized, SummaryOfItsCycles
<1>4. Len(windows["total"])' = sinceSummary'
  BY DEF Windows
<1> QED BY <1>1, <1>2, <1>3, <1>4 DEF ProfilerInv

LEMMA DestroyKeeps ==
    ASSUME ProfilerInv, DestroyProfiler
    PROVE  ProfilerInv'
<1>1. /\ ProfilerTypeOK /\ timed \in Seq(Timings) /\ EachCycleSummarized
      /\ WindowsHold(windows, Pending) /\ Len(windows["total"]) = sinceSummary
      /\ SummaryOfItsCycles /\ (summary # <<>> => sinceSummary = 0)
  BY DEF ProfilerInv
<1>2. /\ cycleIndex \in Nat /\ sinceSummary \in Nat /\ interval \in Nat
      /\ summarized \in Nat /\ cycleIndex' = cycleIndex /\ interval' = interval
      /\ running' = FALSE /\ csvOpen' = FALSE /\ runs' = runs
      /\ MaxCycles \in Nat
  BY <1>1, ProfilerAssumption DEF ProfilerTypeOK, DestroyProfiler
<1>3. CASE sinceSummary > 0 /\ interval > 0
  <2>1. EmitSummary(windows) /\ timed' = timed
    BY <1>3 DEF DestroyProfiler
  <2>2. Pending = timed
    BY <1>1, <1>3 DEF Pending
  <2>3. /\ windows \in [Windows -> Seq(Nat)] /\ timed' \in Seq(Timings)
        /\ WindowsHold(windows, timed')
    BY <1>1, <2>1, <2>2 DEF ProfilerTypeOK
  <2>4. /\ SummaryOfItsCycles' /\ WindowsHold(windows, Pending)'
        /\ windows' \in [Windows -> Seq(Nat)]
        /\ Len(windows["total"])' = 0 /\ sinceSummary' = 0
        /\ summarized' = summarized + Len(windows["total"])
    BY <2>1, <2>3, EmitSummaryKeeps
  <2>5. summarized' = cycleIndex
    BY <1>1, <1>2, <1>3, <2>4 DEF EachCycleSummarized
  <2>6. EachCycleSummarized'
    BY <1>2, <2>4, <2>5 DEF EachCycleSummarized
  <2>7. ProfilerTypeOK'
    <3>1. cycleIndex \in 0..MaxCycles /\ interval \in Intervals /\ runs \in 0..MaxRuns
      BY <1>1 DEF ProfilerTypeOK
    <3>2. sinceSummary' \in 0..cycleIndex' /\ summarized' \in 0..MaxCycles
      BY <1>2, <2>4, <2>5, <3>1
    <3> QED BY <1>2, <2>4, <3>1, <3>2 DEF ProfilerTypeOK
  <2> QED BY <2>3, <2>4, <2>6, <2>7 DEF ProfilerInv
<1>4. CASE ~(sinceSummary > 0 /\ interval > 0)
  <2>1. UNCHANGED <<summary, windows, sinceSummary, summarized, timed>>
    BY <1>4 DEF DestroyProfiler
  <2>2. WindowsHold(windows, Pending)'
    BY <1>1, <2>1 DEF WindowsHold, Pending
  <2>3. EachCycleSummarized'
    BY <1>1, <1>2, <1>4, <2>1 DEF EachCycleSummarized
  <2>4. SummaryOfItsCycles'
    <3>1. summary # <<>> => \A w \in Windows : SummaryOf(timed, w, summary[w])
      BY <1>1 DEF SummaryOfItsCycles, SummaryOf
    <3>2. summary' # <<>> => \A w \in Windows : SummaryOf(timed', w, summary'[w])
      BY <2>1, <3>1
    <3> QED BY <3>2 DEF SummaryOfItsCycles, SummaryOf
  <2>5. ProfilerTypeOK'
    BY <1>1, <1>2, <2>1 DEF ProfilerTypeOK
  <2> QED BY <1>1, <2>1, <2>2, <2>3, <2>4, <2>5 DEF ProfilerInv
<1> QED BY <1>3, <1>4

LEMMA ProfilerStep == ProfilerInv /\ [ProfilerNext]_profilerVars => ProfilerInv'
<1> SUFFICES ASSUME ProfilerInv, [ProfilerNext]_profilerVars PROVE ProfilerInv'
  OBVIOUS
<1>1. CASE UNCHANGED profilerVars
  <2>1. /\ timed' = timed /\ summary' = summary /\ windows' = windows
        /\ sinceSummary' = sinceSummary
    BY <1>1 DEF profilerVars
  <2>2. ProfilerTypeOK' /\ EachCycleSummarized'
    BY <1>1 DEF ProfilerInv, profilerVars, ProfilerTypeOK, EachCycleSummarized
  <2>3. SummaryOfItsCycles'
    <3>1. summary # <<>> => \A w \in Windows : SummaryOf(timed, w, summary[w])
      BY DEF ProfilerInv, SummaryOfItsCycles, SummaryOf
    <3>2. summary' # <<>> => \A w \in Windows : SummaryOf(timed', w, summary'[w])
      BY <2>1, <3>1
    <3> QED BY <3>2 DEF SummaryOfItsCycles, SummaryOf
  <2>4. WindowsHold(windows, Pending)'
    BY <2>1 DEF ProfilerInv, WindowsHold, Pending
  <2> QED BY <2>1, <2>2, <2>3, <2>4 DEF ProfilerInv
<1> QED BY <1>1, RecordKeeps, ConstructKeeps, DestroyKeeps DEF ProfilerNext

\* The windows are cut where the summaries are: ProfilerTypeOK of StageProfiler.
THEOREM ProfilerTypeCorrect == ProfilerSpec => []ProfilerTypeOK
<1>1. ProfilerInv => ProfilerTypeOK
  BY DEF ProfilerInv
<1> QED BY <1>1, ProfilerStart, ProfilerStep, PTL DEF ProfilerSpec

\* Every cycle is in one summary and only one, also the last ones before the
\* destructor, and the percentiles of a summary are those of its cycles.
THEOREM ProfilesAddUp == ProfilerSpec => []SummariesAddUp
<1>1. ProfilerInv => SummariesAddUp
  BY DEF ProfilerInv, SummariesAddUp
<1> QED BY <1>1, ProfilerStart, ProfilerStep, PTL DEF ProfilerSpec

-----------------------------------------------------------------------------
(* Evaluation: what the CSV file of either mode tells of the images.       *)

\* A probe or a row, with the gallery there is: genuine, and then not of the
\* first image, exactly if the identity is in the gallery.
SoundProbe(p) ==
    /\ p.genuine <=> p.image[1] \in Gallery
    /\ p.genuine <=> p.image[2] # 1

QueuedImages == {probes[k].image : k \in DOMAIN probes}
WrittenImages == {rows[k].image : k \in DOMAIN rows}

\* How many probes an identity of the gallery has.
Share(i) ==
    IF MaxProbes < 0 THEN 0
    ELSE IF Images[i] - 1 < MaxProbes THEN Images[i] - 1 ELSE MaxProbes

ProbeRecords == [image : Identities \X (Nat \ {0}), genuine : BOOLEAN]
RowRecords ==
    [image : Identities \X (Nat \ {0}), genuine : BOOLEAN,
     top1 : Identities \cup {NoOne}]

PairRow(a, b) ==
    [a |-> a, b |-> b, bad |-> {x \in {a, b} : ~results[x]}, distance |-> Comparable(a, b)]
PairRows == {PairRow(x[1], x[2]) : x \in (DOMAIN results) \X (DOMAIN results)}

AllPairs == UNION {{list[k] : k \in DOMAIN list} : list \in PairLists}

EvaluationTypes ==
    /\ work \in {"begin", "enroll", "probe", "embed", "write", "done", "failed"}
    /\ work \in {"enroll", "probe"} => chosen # <<>>
    /\ work \in {"begin", "embed", "write"} => chosen = <<>>
    /\ work \in {"begin", "enroll", "embed"} => rows = <<>>
    /\ work = "begin" =>
           gallery = <<>> /\ probes = <<>> /\ results = <<>> /\ skipped = {}
    /\ work = "done" /\ chosen # <<>> => probes = <<>>
    /\ chosen \in Seq(MultiImage) /\ gallery \in Seq(MultiImage)
    /\ Len(chosen) <= Cardinality(Identities) /\ Len(gallery) <= Cardinality(Identities)
    /\ probes \in Seq(ProbeRecords)
    /\ pairs \in Seq(AllPairs)
    /\ \A x \in DOMAIN results : results[x] \in BOOLEAN
    /\ work = "write" => Mentioned \subseteq DOMAIN results
    /\ rows \in IF chosen = <<>> THEN Seq(PairRows) ELSE Seq(RowRecords)

\* The identities chosen differ; those tried so far are the first of them.
EnrolledAreChosen ==
    /\ \A k, l \in DOMAIN chosen : chosen[k] = chosen[l] => k = l
    /\ Gallery \subseteq {chosen[k] : k \in DOMAIN chosen}
    /\ work = "enroll" =>
           /\ Enrolled <= Len(chosen)
           /\ Gallery \subseteq {chosen[k] : k \in 1..Enrolled}
           /\ skipped \subseteq {<<chosen[k], 1>> : k \in 1..Enrolled}
           /\ \A k \in DOMAIN probes : probes[k].genuine

\* No image is probed twice, and every probe is sound.
ProbesAreSound ==
    chosen # <<>> =>
        /\ \A k \in DOMAIN probes : SoundProbe(probes[k])
        /\ \A k \in DOMAIN rows : SoundProbe(rows[k])
        /\ \A k, l \in DOMAIN probes : probes[k].image = probes[l].image => k = l
        /\ \A k, l \in DOMAIN rows : rows[k].image = rows[l].image => k = l
        /\ QueuedImages \cap WrittenImages = {}

\* Of an identity of the gallery the images of its share, and no others, are
\* to be probed, in a row or skipped.
SharesAreKept ==
    chosen # <<>> =>
        \A i \in Gallery : \A j \in 2..Images[i] :
            <<i, j>> \in skipped \cup QueuedImages \cup WrittenImages <=> j <= Share(i) + 1

EvaluationInv ==
    EvaluationTypes /\ EnrolledAreChosen /\ ProbesAreSound /\ SharesAreKept

LEMMA JoinFacts ==
    ASSUME NEW S, NEW s \in Seq(S), NEW t \in Seq(S)
    PROVE  /\ s \o t \in Seq(S)
           /\ \A k \in DOMAIN (s \o t) :
                  \/ k \in DOMAIN s /\ (s \o t)[k] = s[k]
                  \/ k - Len(s) \in DOMAIN t /\ (s \o t)[k] = t[k - Len(s)]
           /\ \A k \in DOMAIN s : k \in DOMAIN (s \o t) /\ (s \o t)[k] = s[k]
           /\ \A k \in DOMAIN t :
                  k + Len(s) \in DOMAIN (s \o t) /\ (s \o t)[k + Len(s)] = t[k]
           /\ Len(s) \in Nat /\ DOMAIN s \subseteq Nat /\ DOMAIN t \subseteq Nat
  OBVIOUS

LEMMA RestFacts ==
    ASSUME NEW S, NEW s \in Seq(S), s # <<>>
    PROVE  /\ Head(s) = s[1] /\ Head(s) \in S /\ 1 \in DOMAIN s /\ Tail(s) \in Seq(S)
           /\ \A k \in DOMAIN Tail(s) : k + 1 \in DOMAIN s /\ Tail(s)[k] = s[k + 1]
           /\ \A k \in DOMAIN s : k = 1 \/ (k - 1 \in DOMAIN Tail(s) /\ Tail(s)[k - 1] = s[k])
           /\ DOMAIN s \subseteq Nat \ {0} /\ DOMAIN Tail(s) \subseteq Nat \ {0}
  OBVIOUS

LEMMA OneMoreFacts ==
    ASSUME NEW S, NEW s \in Seq(S), NEW e \in S
    PROVE  /\ Append(s, e) \in Seq(S)
           /\ Len(s) \in Nat /\ Len(Append(s, e)) = Len(s) + 1
           /\ DOMAIN s = 1..Len(s) /\ DOMAIN Append(s, e) = DOMAIN s \cup {Len(s) + 1}
           /\ Append(s, e)[Len(s) + 1] = e
           /\ \A k \in DOMAIN s : Append(s, e)[k] = s[k] /\ k # Len(s) + 1
<1>1. Append(s, e) \in Seq(S) /\ Len(s) \in Nat /\ Len(Append(s, e)) = Len(s) + 1
  OBVIOUS
<1>2. DOMAIN s = 1..Len(s) /\ DOMAIN Append(s, e) = 1..(Len(s) + 1)
  BY <1>1
<1>3. /\ Append(s, e)[Len(s) + 1] = e
      /\ \A k \in 1..Len(s) : Append(s, e)[k] = s[k]
  BY <1>1
<1>4. 1..(Len(s) + 1) = 1..Len(s) \cup {Len(s) + 1}
  BY <1>1
<1> QED BY <1>1, <1>2, <1>3, <1>4

\* An order of a set has each element once.
LEMMA OrderOfSet ==
    ASSUME NEW S, IsFiniteSet(S), NEW s \in SetToSeqs(S)
    PROVE  /\ s \in Seq(S) /\ Len(s) = Cardinality(S) /\ DOMAIN s = 1..Cardinality(S)
           /\ \A k, l \in DOMAIN s : s[k] = s[l] => k = l
<1>1. Cardinality(S) \in Nat
  BY FS_CardinalityType
<1>2. /\ s \in [1..Cardinality(S) -> S]
      /\ \A k, l \in 1..Cardinality(S) : k # l => s[k] # s[l]
  BY DEF SetToSeqs
<1> QED BY <1>1, <1>2

LEMMA SetsAreFinite ==
    /\ IsFiniteSet(Identities) /\ Cardinality(Identities) \in Nat
    /\ MultiImage \subseteq Identities
    /\ \A T \in SUBSET Identities :
           IsFiniteSet(T) /\ Cardinality(T) <= Cardinality(Identities)
<1>1. IsFiniteSet(Identities)
  BY EvaluationAssumption
<1> QED BY <1>1, FS_CardinalityType, FS_Subset DEF MultiImage

LEMMA GenuineFacts ==
    ASSUME NEW i \in MultiImage
    PROVE  /\ GenuineProbes(i) \in Seq(ProbeRecords)
           /\ DOMAIN GenuineProbes(i) = 1..Share(i)
           /\ \A j \in 1..Share(i) :
                  GenuineProbes(i)[j] = [image |-> <<i, j + 1>>, genuine |-> TRUE]
           /\ Share(i) \in Nat /\ Share(i) <= Images[i] - 1
           /\ Images[i] \in Nat \ {0}
<1>1. i \in Identities /\ Images[i] \in Nat \ {0} /\ MaxProbes \in Int /\ Images[i] >= 2
  BY EvaluationAssumption DEF MultiImage
<1>2. Share(i) \in Nat /\ Share(i) <= Images[i] - 1
  BY <1>1 DEF Share
<1> DEFINE many == IF Images[i] - 1 < MaxProbes THEN Images[i] - 1 ELSE MaxProbes
<1>3. 1..many = 1..Share(i)
  BY <1>1 DEF Share
<1>4. GenuineProbes(i) = [j \in 1..Share(i) |-> [image |-> <<i, j + 1>>, genuine |-> TRUE]]
  BY <1>3 DEF GenuineProbes
<1>5. \A j \in 1..Share(i) : [image |-> <<i, j + 1>>, genuine |-> TRUE] \in ProbeRecords
  BY <1>1, <1>2 DEF ProbeRecords
<1> HIDE DEF many
<1> QED BY <1>1, <1>2, <1>4, <1>5

LEMMA EvaluationStart == EvaluationInit => EvaluationInv
<1> SUFFICES ASSUME EvaluationInit PROVE EvaluationInv
  OBVIOUS
<1> USE DEF EvaluationInit
<1>1. Gallery = {} /\ QueuedImages = {} /\ WrittenImages = {}
  BY DEF Gallery, QueuedImages, WrittenImages
<1>2. Len(chosen) <= Cardinality(Identities) /\ Len(gallery) <= Cardinality(Identities)
  BY SetsAreFinite
<1>3. EvaluationTypes
  BY <1>2 DEF EvaluationTypes
<1>4. EnrolledAreChosen /\ ProbesAreSound /\ SharesAreKept
  BY <1>1 DEF EnrolledAreChosen, ProbesAreSound, SharesAreKept
<1> QED BY <1>3, <1>4 DEF EvaluationInv

FirstImages == {<<i, 1>> : i \in Identities}

LEMMA EnrolledFacts ==
    ASSUME NEW skip
    PROVE  /\ IsFiniteSet(FirstImages \cap skip) /\ Cardinality(FirstImages \cap skip) \in Nat
           /\ \A i \in Identities : <<i, 1>> \notin skip =>
                  Cardinality(FirstImages \cap (skip \cup {<<i, 1>>})) =
                      Cardinality(FirstImages \cap skip) + 1
<1>1. IsFiniteSet(FirstImages)
  <2>1. FirstImages = Identities \X {1}
    BY DEF FirstImages
  <2>2. IsFiniteSet(Identities) /\ IsFiniteSet({1})
    BY SetsAreFinite, FS_Singleton
  <2> QED BY <2>1, <2>2, FS_Product
<1>2. FirstImages \cap skip \in SUBSET FirstImages
  OBVIOUS
<1>3. IsFiniteSet(FirstImages \cap skip)
  BY <1>1, <1>2, FS_Subset
<1>4. ASSUME NEW i \in Identities, <<i, 1>> \notin skip
      PROVE  Cardinality(FirstImages \cap (skip \cup {<<i, 1>>})) =
                 Cardinality(FirstImages \cap skip) + 1
  <2>1. FirstImages \cap (skip \cup {<<i, 1>>}) = (FirstImages \cap skip) \cup {<<i, 1>>}
    BY DEF FirstImages
  <2>2. <<i, 1>> \notin FirstImages \cap skip
    BY <1>4
  <2> QED BY <1>3, <2>1, <2>2, FS_AddElement
<1> QED BY <1>3, <1>4, FS_CardinalityType

LEMMA BeginScaleKeeps ==
    ASSUME EvaluationInv, NEW n \in EnrollNs, BeginScale(n)
    PROVE  EvaluationInv'
<1>1. PICK s \in kSubset(n, MultiImage) : chosen' \in SetToSeqs(s)
  BY DEF BeginScale
<1>2. /\ s \in SUBSET Identities /\ s \subseteq MultiImage /\ Cardinality(s) = n
      /\ n \in Nat \ {0}
  BY SetsAreFinite, EvaluationAssumption DEF kSubset
<1>3. IsFiniteSet(s) /\ n <= Cardinality(Identities)
  BY <1>2, SetsAreFinite
<1>4. /\ chosen' \in Seq(s) /\ Len(chosen') = n /\ DOMAIN chosen' = 1..n
      /\ \A k, l \in DOMAIN chosen' : chosen'[k] = chosen'[l] => k = l
  BY <1>1, <1>2, <1>3, OrderOfSet
<1>5. chosen' \in Seq(MultiImage) /\ chosen' # <<>>
  BY <1>2, <1>4
<1>6. /\ work = "begin" /\ work' = "enroll" /\ gallery = <<>> /\ probes = <<>> /\ rows = <<>>
      /\ skipped = {} /\ results = <<>>
      /\ UNCHANGED <<gallery, probes, results, pairs, rows, skipped>>
  BY DEF BeginScale, EvaluationInv, EvaluationTypes
<1>7. Gallery' = {} /\ QueuedImages' = {} /\ WrittenImages' = {}
  BY <1>6 DEF Gallery, QueuedImages, WrittenImages
<1>8. EvaluationTypes'
  <2>1. rows' \in Seq(RowRecords) /\ probes' \in Seq(ProbeRecords)
    BY <1>6
  <2>2. pairs' \in Seq(AllPairs) /\ gallery' \in Seq(MultiImage)
    BY <1>6 DEF EvaluationInv, EvaluationTypes
  <2>3. /\ Len(chosen') <= Cardinality(Identities)
        /\ Len(gallery') <= Cardinality(Identities)
    BY <1>3, <1>4, <1>6, SetsAreFinite
  <2>4. \A x \in DOMAIN results' : results'[x] \in BOOLEAN
    BY <1>6
  <2> QED BY <1>5, <1>6, <2>1, <2>2, <2>3, <2>4 DEF EvaluationTypes
<1>9. EnrolledAreChosen'
  <2>1. Enrolled' = 0
    <3>1. FirstImages \cap skipped' = {} /\ Len(gallery') = 0
      BY <1>6
    <3>2. Enrolled' = Len(gallery') + Cardinality(FirstImages \cap skipped')
      BY DEF Enrolled, FirstImages
    <3>3. Cardinality(FirstImages \cap skipped') = 0
      BY <3>1, FS_EmptySet
    <3> QED BY <3>1, <3>2, <3>3
  <2> QED BY <1>2, <1>4, <1>6, <1>7, <2>1 DEF EnrolledAreChosen
<1>10. ProbesAreSound' /\ SharesAreKept'
  BY <1>6, <1>7 DEF ProbesAreSound, SharesAreKept
<1> QED BY <1>8, <1>9, <1>10 DEF EvaluationInv

LEMMA EnrollKeeps ==
    ASSUME EvaluationInv, Enroll
    PROVE  EvaluationInv'
<1> DEFINE i == chosen[Enrolled + 1]
           done == Cardinality({<<x, 1>> : x \in Identities} \cap skipped)
<1>1. /\ work = "enroll" /\ work' = "enroll" /\ Enrolled < Len(chosen)
      /\ UNCHANGED <<work, chosen, results, pairs, rows>>
      /\ \/ /\ gallery' = Append(gallery, i)
            /\ probes' = probes \o GenuineProbes(i)
            /\ UNCHANGED skipped
         \/ /\ skipped' = skipped \cup {<<i, 1>>}
            /\ UNCHANGED <<gallery, probes>>
  BY DEF Enroll, EvaluationInv, EvaluationTypes
<1>2. /\ EvaluationTypes /\ EnrolledAreChosen /\ ProbesAreSound /\ SharesAreKept
      /\ chosen # <<>> /\ rows = <<>>
  BY <1>1 DEF EvaluationInv, EvaluationTypes
<1>3. /\ chosen \in Seq(MultiImage) /\ gallery \in Seq(MultiImage)
      /\ probes \in Seq(ProbeRecords) /\ Len(chosen) \in Nat /\ Len(gallery) \in Nat
      /\ DOMAIN chosen = 1..Len(chosen)
      /\ Len(chosen) <= Cardinality(Identities) /\ Cardinality(Identities) \in Nat
  BY <1>2, SetsAreFinite DEF EvaluationTypes
<1>4. done \in Nat /\ Enrolled = Len(gallery) + done /\ Enrolled \in Nat
  <2>1. done \in Nat
    BY EnrolledFacts DEF FirstImages
  <2> HIDE DEF done
  <2> QED BY <1>3, <2>1 DEF Enrolled, done
<1>5. /\ Enrolled + 1 \in DOMAIN chosen /\ i \in MultiImage /\ i \in Identities
      /\ i \notin Gallery /\ <<i, 1>> \notin skipped
      /\ \A k \in 1..Enrolled : k \in DOMAIN chosen /\ chosen[k] # i
  <2>1. Enrolled + 1 \in DOMAIN chosen
    BY <1>1, <1>3, <1>4
  <2>2. i \in MultiImage
    BY <1>3, <2>1
  <2>3. \A k \in 1..Enrolled : k \in DOMAIN chosen /\ k # Enrolled + 1
    BY <1>1, <1>3, <1>4
  <2>4. \A k \in 1..Enrolled : chosen[k] # i
    BY <1>2, <2>1, <2>3 DEF EnrolledAreChosen
  <2>5. i \notin Gallery /\ <<i, 1>> \notin skipped
    BY <1>1, <1>2, <2>4 DEF EnrolledAreChosen
  <2> QED BY <2>1, <2>2, <2>3, <2>4, <2>5, SetsAreFinite
<1>6. \A k \in 1..(Enrolled + 1) : k \in 1..Enrolled \/ k = Enrolled + 1
  BY <1>4
<1> HIDE DEF i, done
<1>7. CASE /\ gallery' = Append(gallery, i)
           /\ probes' = probes \o GenuineProbes(i)
           /\ UNCHANGED skipped
  <2> DEFINE new == GenuineProbes(i)
  <2>1. /\ new \in Seq(ProbeRecords) /\ DOMAIN new = 1..Share(i)
        /\ \A j \in 1..Share(i) : new[j] = [image |-> <<i, j + 1>>, genuine |-> TRUE]
        /\ Share(i) \in Nat /\ Share(i) <= Images[i] - 1 /\ Images[i] \in Nat \ {0}
    BY <1>5, GenuineFacts
  <2> HIDE DEF new
  <2>2. /\ probes' \in Seq(ProbeRecords)
        /\ \A k \in DOMAIN probes' :
               \/ k \in DOMAIN probes /\ probes'[k] = probes[k]
               \/ k - Len(probes) \in DOMAIN new /\ probes'[k] = new[k - Len(probes)]
        /\ \A k \in DOMAIN probes : k \in DOMAIN probes' /\ probes'[k] = probes[k]
        /\ \A k \in DOMAIN new :
               k + Len(probes) \in DOMAIN probes' /\ probes'[k + Len(probes)] = new[k]
        /\ Len(probes) \in Nat /\ DOMAIN probes \subseteq Nat /\ DOMAIN new \subseteq Nat
    <3> DEFINE joined == probes \o new
    <3>1. /\ joined \in Seq(ProbeRecords)
          /\ \A k \in DOMAIN joined :
                 \/ k \in DOMAIN probes /\ joined[k] = probes[k]
                 \/ k - Len(probes) \in DOMAIN new /\ joined[k] = new[k - Len(probes)]
          /\ \A k \in DOMAIN probes : k \in DOMAIN joined /\ joined[k] = probes[k]
          /\ \A k \in DOMAIN new :
                 k + Len(probes) \in DOMAIN joined /\ joined[k + Len(probes)] = new[k]
          /\ Len(probes) \in Nat /\ DOMAIN probes \subseteq Nat /\ DOMAIN new \subseteq Nat
      BY <1>3, <2>1, JoinFacts
    <3>2. probes' = joined
      BY <1>7 DEF new
    <3> HIDE DEF joined
    <3> QED BY <3>1, <3>2
  <2>3. /\ gallery' \in Seq(MultiImage) /\ Len(gallery') = Len(gallery) + 1
        /\ Gallery' = Gallery \cup {i}
    <3>1. /\ gallery' \in Seq(MultiImage) /\ Len(gallery') = Len(gallery) + 1
          /\ DOMAIN gallery' = DOMAIN gallery \cup {Len(gallery) + 1}
          /\ gallery'[Len(gallery) + 1] = i
          /\ \A k \in DOMAIN gallery : gallery'[k] = gallery[k]
      BY <1>3, <1>5, <1>7, OneMoreFacts
    <3> QED BY <3>1 DEF Gallery
  <2>4. Enrolled' = Enrolled + 1
    <3>1. Enrolled' = Len(gallery') + done
      BY <1>7 DEF Enrolled, done
    <3> QED BY <1>3, <1>4, <2>3, <3>1
  <2>5. \A k \in DOMAIN probes :
            probes[k].genuine /\ probes[k].image[1] \in Gallery /\ probes[k].image[2] # 1
    BY <1>1, <1>2 DEF EnrolledAreChosen, ProbesAreSound, SoundProbe
  <2>6. \A k \in DOMAIN new :
            /\ new[k].genuine /\ new[k].image = <<i, k + 1>>
            /\ new[k].image[1] = i /\ new[k].image[2] = k + 1 /\ new[k].image[2] # 1
    BY <2>1
  <2>7. QueuedImages' = QueuedImages \cup {<<i, k + 1>> : k \in 1..Share(i)}
    <3>1. ASSUME NEW x \in QueuedImages'
          PROVE  x \in QueuedImages \cup {<<i, k + 1>> : k \in 1..Share(i)}
      <4>1. PICK k \in DOMAIN probes' : x = probes'[k].image
        BY DEF QueuedImages
      <4> QED BY <2>1, <2>2, <2>6, <4>1 DEF QueuedImages
    <3>2. QueuedImages \subseteq QueuedImages'
      BY <2>2 DEF QueuedImages
    <3>3. ASSUME NEW k \in 1..Share(i) PROVE <<i, k + 1>> \in QueuedImages'
      <4>1. probes'[k + Len(probes)].image = <<i, k + 1>> /\ k + Len(probes) \in DOMAIN probes'
        BY <2>1, <2>2, <2>6
      <4> QED BY <4>1 DEF QueuedImages
    <3> QED BY <3>1, <3>2, <3>3
  <2>8. EvaluationTypes'
    <3>1. Len(gallery') <= Cardinality(Identities)
      BY <1>1, <1>3, <1>4, <2>3
    <3>2. rows' = <<>> /\ chosen' # <<>> /\ rows' \in Seq(RowRecords)
      BY <1>1, <1>2
    <3> QED BY <1>1, <1>2, <1>3, <2>2, <2>3, <3>1, <3>2 DEF EvaluationTypes
  <2>9. EnrolledAreChosen'
    <3>1. Enrolled' <= Len(chosen') /\ \A k \in 1..Enrolled : k \in 1..Enrolled'
      BY <1>1, <1>3, <1>4, <2>4
    <3>2. Enrolled + 1 \in 1..Enrolled'
      BY <1>4, <2>4
    <3>3. /\ Gallery' \subseteq {chosen[k] : k \in 1..Enrolled'}
          /\ Gallery' \subseteq {chosen[k] : k \in DOMAIN chosen}
      BY <1>1, <1>2, <1>5, <2>3, <3>1, <3>2 DEF EnrolledAreChosen, i
    <3>4. skipped' \subseteq {<<chosen[k], 1>> : k \in 1..Enrolled'}
      BY <1>1, <1>2, <1>7, <3>1 DEF EnrolledAreChosen
    <3>5. \A k \in DOMAIN probes' : probes'[k].genuine
      BY <2>2, <2>5, <2>6
    <3> QED BY <1>1, <1>2, <3>1, <3>3, <3>4, <3>5 DEF EnrolledAreChosen
  <2>10. ProbesAreSound'
    <3>1. (\A k \in DOMAIN probes : SoundProbe(probes[k]))'
      <4>1. \A k \in DOMAIN probes' :
                /\ probes'[k].genuine /\ probes'[k].image[1] \in Gallery'
                /\ probes'[k].image[2] # 1
        BY <2>2, <2>3, <2>5, <2>6
      <4> QED BY <4>1 DEF SoundProbe
    <3>2. ASSUME NEW k \in DOMAIN probes', NEW l \in DOMAIN probes',
                 probes'[k].image = probes'[l].image
          PROVE  k = l
      <4>1. CASE k \in DOMAIN probes /\ probes'[k] = probes[k]
        <5>1. l \in DOMAIN probes /\ probes'[l] = probes[l]
          BY <1>5, <2>2, <2>5, <2>6, <3>2, <4>1
        <5> QED BY <1>2, <3>2, <4>1, <5>1 DEF ProbesAreSound
      <4>2. CASE k - Len(probes) \in DOMAIN new /\ probes'[k] = new[k - Len(probes)]
        <5>1. l - Len(probes) \in DOMAIN new /\ probes'[l] = new[l - Len(probes)]
          BY <1>5, <2>2, <2>5, <2>6, <3>2, <4>2
        <5>2. (k - Len(probes)) + 1 = (l - Len(probes)) + 1
          BY <2>6, <3>2, <4>2, <5>1
        <5>3. k \in Nat /\ l \in Nat
          <6>1. DOMAIN probes' = 1..Len(probes')
            BY <2>2
          <6> QED BY <6>1
        <5> QED BY <2>2, <5>2, <5>3
      <4> QED BY <2>2, <4>1, <4>2
    <3>3. rows' = <<>> /\ WrittenImages' = {}
      BY <1>1, <1>2 DEF WrittenImages
    <3> QED BY <3>1, <3>2, <3>3 DEF ProbesAreSound
  <2>11. SharesAreKept'
    <3> SUFFICES ASSUME NEW g \in Gallery', NEW j \in 2..Images[g]
                 PROVE  <<g, j>> \in skipped' \cup QueuedImages' \cup WrittenImages'
                            <=> j <= Share(g) + 1
      BY DEF SharesAreKept
    <3>1. WrittenImages' = WrittenImages /\ WrittenImages = {}
      BY <1>1, <1>2 DEF WrittenImages
    <3>2. CASE g = i
      <4>1. <<i, j>> \notin QueuedImages
        BY <1>5, <2>5 DEF QueuedImages
      <4>2. j # 1 /\ j \in Nat
        BY <2>1, <3>2
      <4>3. <<i, j>> \notin skipped
        BY <1>1, <1>2, <4>2 DEF EnrolledAreChosen
      <4>4. (\E k \in 1..Share(i) : j = k + 1) <=> j <= Share(i) + 1
        <5>1. ASSUME j <= Share(i) + 1 PROVE j - 1 \in 1..Share(i) /\ j = (j - 1) + 1
          BY <2>1, <3>2, <5>1
        <5>2. ASSUME NEW k \in 1..Share(i), j = k + 1 PROVE j <= Share(i) + 1
          BY <2>1, <5>2
        <5> QED BY <5>1, <5>2
      <4> QED BY <1>7, <2>7, <3>1, <3>2, <4>1, <4>3, <4>4
    <3>3. CASE g # i
      <4>1. g \in Gallery
        BY <2>3, <3>3
      <4>2. <<g, j>> \in QueuedImages' <=> <<g, j>> \in QueuedImages
        BY <2>7, <3>3
      <4> QED BY <1>2, <1>7, <3>1, <4>1, <4>2 DEF SharesAreKept
    <3> QED BY <3>2, <3>3
  <2> QED BY <2>8, <2>9, <2>10, <2>11 DEF EvaluationInv
<1>8. CASE /\ skipped' = skipped \cup {<<i, 1>>}
           /\ UNCHANGED <<gallery, probes>>
  <2>1. /\ Gallery' = Gallery /\ QueuedImages' = QueuedImages
        /\ WrittenImages' = WrittenImages
    BY <1>1, <1>8 DEF Gallery, QueuedImages, WrittenImages
  <2>2. Enrolled' = Enrolled + 1
    <3>1. Enrolled' = Len(gallery) + Cardinality(FirstImages \cap skipped')
      BY <1>8 DEF Enrolled, FirstImages
    <3>2. Cardinality(FirstImages \cap skipped') = Cardinality(FirstImages \cap skipped) + 1
      BY <1>5, <1>8, EnrolledFacts
    <3>3. done = Cardinality(FirstImages \cap skipped)
      BY DEF done, FirstImages
    <3> QED BY <1>3, <1>4, <3>1, <3>2, <3>3
  <2>3. EvaluationTypes'
    BY <1>1, <1>2, <1>8 DEF EvaluationTypes
  <2>4. EnrolledAreChosen'
    <3>1. Enrolled' <= Len(chosen') /\ \A k \in 1..Enrolled : k \in 1..Enrolled'
      BY <1>1, <1>3, <1>4, <2>2
    <3>2. Enrolled + 1 \in 1..Enrolled'
      BY <1>4, <2>2
    <3>3. Gallery' \subseteq {chosen[k] : k \in 1..Enrolled'}
      BY <1>1, <1>2, <2>1, <3>1 DEF EnrolledAreChosen
    <3>4. skipped' \subseteq {<<chosen[k], 1>> : k \in 1..Enrolled'}
      BY <1>1, <1>2, <1>8, <3>1, <3>2 DEF EnrolledAreChosen, i
    <3> QED BY <1>1, <1>2, <1>8, <2>1, <3>1, <3>3, <3>4 DEF EnrolledAreChosen
  <2>5. ProbesAreSound'
    BY <1>1, <1>2, <1>8, <2>1 DEF ProbesAreSound, SoundProbe
  <2>6. SharesAreKept'
    <3> SUFFICES ASSUME NEW g \in Gallery', NEW j \in 2..Images[g]
                 PROVE  <<g, j>> \in skipped' \cup QueuedImages' \cup WrittenImages'
                            <=> j <= Share(g) + 1
      BY DEF SharesAreKept
    <3>1. j # 1 /\ g \in Gallery
      <4>1. g \in Gallery
        BY <2>1
      <4>2. g \in Identities
        BY <1>3, <4>1, SetsAreFinite DEF Gallery
      <4>3. Images[g] \in Nat
        BY <4>2, EvaluationAssumption
      <4> QED BY <4>1, <4>3
    <3>2. <<g, j>> \in skipped' <=> <<g, j>> \in skipped
      BY <1>8, <3>1
    <3> QED BY <1>2, <2>1, <3>1, <3>2 DEF SharesAreKept
  <2> QED BY <2>3, <2>4, <2>5, <2>6 DEF EvaluationInv
<1> QED BY <1>1, <1>7, <1>8

LEMMA QueueImpostorsKeeps ==
    ASSUME EvaluationInv, QueueImpostors
    PROVE  EvaluationInv'
<1>1. PICK s \in kSubset(Take, Candidates) : \E order \in SetToSeqs(s) :
          probes' = probes \o [k \in DOMAIN order |->
                                  [image |-> <<order[k], 1>>, genuine |-> FALSE]]
  BY DEF QueueImpostors
<1>0. PICK order \in SetToSeqs(s) :
          probes' = probes \o [k \in DOMAIN order |->
                                  [image |-> <<order[k], 1>>, genuine |-> FALSE]]
  BY <1>1
<1> DEFINE new == [k \in DOMAIN order |-> [image |-> <<order[k], 1>>, genuine |-> FALSE]]
<1>2. /\ work = "enroll" /\ work' = "probe"
      /\ UNCHANGED <<chosen, gallery, results, pairs, rows, skipped>>
      /\ EvaluationTypes /\ EnrolledAreChosen /\ ProbesAreSound /\ SharesAreKept
  BY DEF QueueImpostors, EvaluationInv
<1>3. chosen # <<>> /\ rows = <<>> /\ probes \in Seq(ProbeRecords)
  BY <1>2 DEF EvaluationTypes
<1>4. s \in SUBSET Identities /\ IsFiniteSet(s) /\ s \subseteq Candidates
  BY SetsAreFinite DEF kSubset, Candidates
<1>5. /\ order \in Seq(s)
      /\ \A k, l \in DOMAIN order : order[k] = order[l] => k = l
  BY <1>4, OrderOfSet
<1>6. \A k \in DOMAIN order : order[k] \in Identities /\ order[k] \notin Gallery
  <2>1. \A i \in s : i \in Identities /\ i \notin Gallery
    BY <1>2, <1>4 DEF EnrolledAreChosen, Candidates
  <2> QED BY <1>5, <2>1
<1>7. /\ new \in Seq(ProbeRecords) /\ DOMAIN new = DOMAIN order
      /\ \A k \in DOMAIN new :
             /\ ~new[k].genuine /\ new[k].image = <<order[k], 1>>
             /\ new[k].image[1] \notin Gallery /\ new[k].image[2] = 1
  <2>1. \A k \in DOMAIN order : [image |-> <<order[k], 1>>, genuine |-> FALSE] \in ProbeRecords
    BY <1>6 DEF ProbeRecords
  <2>2. new \in Seq(ProbeRecords)
    BY <1>5, <2>1
  <2> QED BY <1>6, <2>2
<1>8. \A k, l \in DOMAIN new : new[k].image = new[l].image => k = l
  BY <1>5, <1>7
<1>9. \A k \in DOMAIN probes :
          probes[k].genuine /\ probes[k].image[1] \in Gallery /\ probes[k].image[2] # 1
  BY <1>2, <1>3 DEF EnrolledAreChosen, ProbesAreSound, SoundProbe
<1> HIDE DEF new
<1>10. /\ probes' \in Seq(ProbeRecords)
       /\ \A k \in DOMAIN probes' :
              \/ k \in DOMAIN probes /\ probes'[k] = probes[k]
              \/ k - Len(probes) \in DOMAIN new /\ probes'[k] = new[k - Len(probes)]
       /\ \A k \in DOMAIN probes : k \in DOMAIN probes' /\ probes'[k] = probes[k]
       /\ Len(probes) \in Nat /\ DOMAIN probes' \subseteq Nat
  <2> DEFINE joined == probes \o new
  <2>1. /\ joined \in Seq(ProbeRecords)
        /\ \A k \in DOMAIN joined :
               \/ k \in DOMAIN probes /\ joined[k] = probes[k]
               \/ k - Len(probes) \in DOMAIN new /\ joined[k] = new[k - Len(probes)]
        /\ \A k \in DOMAIN probes : k \in DOMAIN joined /\ joined[k] = probes[k]
        /\ Len(probes) \in Nat
    BY <1>3, <1>7, JoinFacts
  <2>2. probes' = joined
    BY <1>0 DEF new
  <2> HIDE DEF joined
  <2>3. DOMAIN joined \subseteq Nat
    <3>1. DOMAIN joined = 1..Len(joined)
      BY <2>1
    <3> QED BY <3>1
  <2> QED BY <2>1, <2>2, <2>3
<1>11. Gallery' = Gallery /\ WrittenImages' = {} /\ WrittenImages = {}
  BY <1>2, <1>3 DEF Gallery, WrittenImages
<1>12. EvaluationTypes'
  <2>1. rows' = <<>> /\ chosen' # <<>> /\ rows' \in Seq(RowRecords)
    BY <1>2, <1>3
  <2> QED BY <1>2, <1>10, <2>1 DEF EvaluationTypes
<1>13. EnrolledAreChosen'
  BY <1>2, <1>11 DEF EnrolledAreChosen
<1>14. ProbesAreSound'
  <2>1. (\A k \in DOMAIN probes : SoundProbe(probes[k]))'
    <3>1. \A k \in DOMAIN probes' :
              \/ /\ probes'[k].genuine /\ probes'[k].image[1] \in Gallery
                 /\ probes'[k].image[2] # 1
              \/ /\ ~probes'[k].genuine /\ probes'[k].image[1] \notin Gallery
                 /\ probes'[k].image[2] = 1
      <4> SUFFICES ASSUME NEW k \in DOMAIN probes'
                   PROVE  \/ /\ probes'[k].genuine /\ probes'[k].image[1] \in Gallery
                             /\ probes'[k].image[2] # 1
                          \/ /\ ~probes'[k].genuine /\ probes'[k].image[1] \notin Gallery
                             /\ probes'[k].image[2] = 1
        OBVIOUS
      <4>1. CASE k \in DOMAIN probes /\ probes'[k] = probes[k]
        BY <1>9, <4>1
      <4>2. CASE k - Len(probes) \in DOMAIN new /\ probes'[k] = new[k - Len(probes)]
        BY <1>7, <4>2
      <4> QED BY <1>10, <4>1, <4>2
    <3> QED BY <1>11, <3>1 DEF SoundProbe
  <2>2. ASSUME NEW k \in DOMAIN probes', NEW l \in DOMAIN probes',
               probes'[k].image = probes'[l].image
        PROVE  k = l
    <3>1. CASE k \in DOMAIN probes /\ probes'[k] = probes[k]
      <4>1. l \in DOMAIN probes /\ probes'[l] = probes[l]
        BY <1>7, <1>9, <1>10, <2>2, <3>1
      <4> QED BY <1>2, <1>3, <2>2, <3>1, <4>1 DEF ProbesAreSound
    <3>2. CASE k - Len(probes) \in DOMAIN new /\ probes'[k] = new[k - Len(probes)]
      <4>1. l - Len(probes) \in DOMAIN new /\ probes'[l] = new[l - Len(probes)]
        BY <1>7, <1>9, <1>10, <2>2, <3>2
      <4>2. k - Len(probes) = l - Len(probes)
        BY <1>8, <2>2, <3>2, <4>1
      <4>3. k \in Nat /\ l \in Nat
        BY <1>10
      <4> QED BY <1>10, <4>2, <4>3
    <3> QED BY <1>10, <3>1, <3>2
  <2>3. rows' = <<>>
    BY <1>2, <1>3
  <2> QED BY <1>11, <2>1, <2>2, <2>3 DEF ProbesAreSound
<1>15. SharesAreKept'
  <2> SUFFICES ASSUME NEW g \in Gallery, NEW j \in 2..Images[g]
               PROVE  <<g, j>> \in skipped \cup QueuedImages' \cup WrittenImages'
                          <=> j <= Share(g) + 1
    BY <1>2, <1>11 DEF SharesAreKept
  <2>1. j # 1
    <3>1. g \in Identities
      BY <1>2, SetsAreFinite DEF EvaluationTypes, Gallery
    <3>2. Images[g] \in Nat
      BY <3>1, EvaluationAssumption
    <3> QED BY <3>2
  <2>2. <<g, j>> \in QueuedImages' <=> <<g, j>> \in QueuedImages
    <3>1. QueuedImages \subseteq QueuedImages'
      BY <1>10 DEF QueuedImages
    <3>2. ASSUME <<g, j>> \in QueuedImages' PROVE <<g, j>> \in QueuedImages
      <4>1. PICK k \in DOMAIN probes' : <<g, j>> = probes'[k].image
        BY <3>2 DEF QueuedImages
      <4>2. k \in DOMAIN probes /\ probes'[k] = probes[k]
        BY <1>7, <1>10, <2>1, <4>1
      <4> QED BY <4>1, <4>2 DEF QueuedImages
    <3> QED BY <3>1, <3>2
  <2> QED BY <1>2, <1>3, <1>11, <2>2 DEF SharesAreKept
<1> QED BY <1>12, <1>13, <1>14, <1>15 DEF EvaluationInv

LEMMA ProbeKeeps ==
    ASSUME EvaluationInv, Probe
    PROVE  EvaluationInv'
<1> DEFINE p == Head(probes)
<1>1. /\ work = "probe" /\ work' = "probe" /\ probes # <<>> /\ probes' = Tail(probes)
      /\ UNCHANGED <<work, chosen, gallery, results, pairs>>
      /\ EvaluationTypes /\ EnrolledAreChosen /\ ProbesAreSound /\ SharesAreKept
  BY DEF Probe, EvaluationInv
<1>2. chosen # <<>> /\ probes \in Seq(ProbeRecords) /\ rows \in Seq(RowRecords)
  BY <1>1 DEF EvaluationTypes
<1>3. /\ p = probes[1] /\ p \in ProbeRecords /\ 1 \in DOMAIN probes
      /\ probes' \in Seq(ProbeRecords)
      /\ \A k \in DOMAIN probes' : k + 1 \in DOMAIN probes /\ probes'[k] = probes[k + 1]
      /\ \A k \in DOMAIN probes :
             k = 1 \/ (k - 1 \in DOMAIN probes' /\ probes'[k - 1] = probes[k])
      /\ DOMAIN probes \subseteq Nat \ {0} /\ DOMAIN probes' \subseteq Nat \ {0}
  <2> DEFINE rest == Tail(probes)
  <2>1. /\ p = probes[1] /\ p \in ProbeRecords /\ 1 \in DOMAIN probes
        /\ rest \in Seq(ProbeRecords)
        /\ \A k \in DOMAIN rest : k + 1 \in DOMAIN probes /\ rest[k] = probes[k + 1]
        /\ \A k \in DOMAIN probes :
               k = 1 \/ (k - 1 \in DOMAIN rest /\ rest[k - 1] = probes[k])
        /\ DOMAIN probes \subseteq Nat \ {0} /\ DOMAIN rest \subseteq Nat \ {0}
    BY <1>1, <1>2, RestFacts
  <2>2. probes' = rest
    BY <1>1
  <2> HIDE DEF rest, p
  <2> QED BY <2>1, <2>2
<1>4. \/ skipped' = skipped \cup {p.image} /\ UNCHANGED rows
      \/ /\ \E top1 \in Gallery \cup {NoOne} :
               rows' = Append(rows, [image |-> p.image, genuine |-> p.genuine, top1 |-> top1])
         /\ UNCHANGED skipped
  BY DEF Probe, Gallery
<1> HIDE DEF p
<1>5. Gallery' = Gallery /\ Gallery \subseteq Identities
  BY <1>1, SetsAreFinite DEF Gallery, EvaluationTypes
<1>6. \A k, l \in DOMAIN probes : probes[k].image = probes[l].image => k = l
  BY <1>1, <1>2 DEF ProbesAreSound
<1>7. QueuedImages' = QueuedImages \ {p.image} /\ p.image \in QueuedImages
  <2>1. ASSUME NEW x \in QueuedImages' PROVE x \in QueuedImages \ {p.image}
    <3>1. PICK k \in DOMAIN probes' : x = probes'[k].image
      BY DEF QueuedImages
    <3>2. k + 1 \in DOMAIN probes /\ k + 1 # 1 /\ x = probes[k + 1].image
      BY <1>3, <3>1
    <3>3. probes[k + 1].image # probes[1].image
      BY <1>3, <1>6, <3>2
    <3> QED BY <1>3, <3>2, <3>3 DEF QueuedImages
  <2>2. ASSUME NEW x \in QueuedImages \ {p.image} PROVE x \in QueuedImages'
    <3>1. PICK k \in DOMAIN probes : x = probes[k].image
      BY DEF QueuedImages
    <3>2. k # 1
      BY <1>3, <3>1
    <3> QED BY <1>3, <3>1, <3>2 DEF QueuedImages
  <2>3. p.image \in QueuedImages
    BY <1>3 DEF QueuedImages
  <2> QED BY <2>1, <2>2, <2>3
<1>8. /\ (\A k \in DOMAIN probes : SoundProbe(probes[k]))'
      /\ \A k, l \in DOMAIN probes' : probes'[k].image = probes'[l].image => k = l
  <2>1. \A k \in DOMAIN probes : SoundProbe(probes[k])
    BY <1>1, <1>2 DEF ProbesAreSound
  <2>2. (\A k \in DOMAIN probes : SoundProbe(probes[k]))'
    BY <1>3, <1>5, <2>1 DEF SoundProbe
  <2>3. ASSUME NEW k \in DOMAIN probes', NEW l \in DOMAIN probes',
               probes'[k].image = probes'[l].image
        PROVE  k = l
    <3>1. k + 1 = l + 1
      BY <1>3, <1>6, <2>3
    <3> QED BY <1>3, <3>1
  <2> QED BY <2>2, <2>3
<1>9. SoundProbe(p) /\ \A k \in DOMAIN rows : SoundProbe(rows[k])
  BY <1>1, <1>2, <1>3 DEF ProbesAreSound
<1>10. CASE skipped' = skipped \cup {p.image} /\ UNCHANGED rows
  <2>1. WrittenImages' = WrittenImages
    BY <1>10 DEF WrittenImages
  <2>2. EvaluationTypes'
    BY <1>1, <1>2, <1>3, <1>10 DEF EvaluationTypes
  <2>3. EnrolledAreChosen'
    BY <1>1, <1>5 DEF EnrolledAreChosen
  <2>4. ProbesAreSound'
    <3>1. (\A k \in DOMAIN rows : SoundProbe(rows[k]))'
      BY <1>5, <1>9, <1>10 DEF SoundProbe
    <3>2. (\A k, l \in DOMAIN rows : rows[k].image = rows[l].image => k = l)'
      BY <1>1, <1>2, <1>10 DEF ProbesAreSound
    <3>3. QueuedImages' \cap WrittenImages' = {}
      BY <1>1, <1>2, <1>7, <2>1 DEF ProbesAreSound
    <3> QED BY <1>8, <3>1, <3>2, <3>3 DEF ProbesAreSound
  <2>5. skipped' \cup QueuedImages' \cup WrittenImages' =
            skipped \cup QueuedImages \cup WrittenImages
    BY <1>7, <1>10, <2>1
  <2>6. SharesAreKept'
    BY <1>1, <1>2, <1>5, <2>5 DEF SharesAreKept
  <2> QED BY <2>2, <2>3, <2>4, <2>6 DEF EvaluationInv
<1>11. CASE /\ \E top1 \in Gallery \cup {NoOne} :
                   rows' = Append(rows, [image |-> p.image, genuine |-> p.genuine,
                                         top1 |-> top1])
            /\ UNCHANGED skipped
  <2>1. PICK top1 \in Gallery \cup {NoOne} :
            rows' = Append(rows, [image |-> p.image, genuine |-> p.genuine, top1 |-> top1])
    BY <1>11
  <2> DEFINE row == [image |-> p.image, genuine |-> p.genuine, top1 |-> top1]
  <2>2. row \in RowRecords /\ row.image = p.image /\ row.genuine = p.genuine
    BY <1>3, <1>5 DEF RowRecords, ProbeRecords
  <2> HIDE DEF row
  <2>3. /\ rows' \in Seq(RowRecords)
        /\ DOMAIN rows' = DOMAIN rows \cup {Len(rows) + 1}
        /\ rows'[Len(rows) + 1] = row
        /\ \A k \in DOMAIN rows : rows'[k] = rows[k] /\ k # Len(rows) + 1
    BY <1>2, <2>1, <2>2, OneMoreFacts DEF row
  <2>4. WrittenImages' = WrittenImages \cup {p.image}
    BY <2>2, <2>3 DEF WrittenImages
  <2>5. EvaluationTypes'
    BY <1>1, <1>2, <1>3, <2>3 DEF EvaluationTypes
  <2>6. EnrolledAreChosen'
    BY <1>1, <1>5 DEF EnrolledAreChosen
  <2>7. QueuedImages \cap WrittenImages = {}
    BY <1>1, <1>2 DEF ProbesAreSound
  <2>8. ProbesAreSound'
    <3>1. (\A k \in DOMAIN rows : SoundProbe(rows[k]))'
      BY <1>5, <1>9, <2>2, <2>3 DEF SoundProbe
    <3>2. \A k \in DOMAIN rows : rows[k].image # p.image
      BY <1>7, <2>7 DEF WrittenImages
    <3>3. \A k, l \in DOMAIN rows : rows[k].image = rows[l].image => k = l
      BY <1>1, <1>2 DEF ProbesAreSound
    <3>4. \A k, l \in DOMAIN rows' : rows'[k].image = rows'[l].image => k = l
      BY <2>2, <2>3, <3>2, <3>3
    <3>5. QueuedImages' \cap WrittenImages' = {}
      BY <1>7, <2>4, <2>7
    <3> QED BY <1>8, <3>1, <3>4, <3>5 DEF ProbesAreSound
  <2>9. skipped' \cup QueuedImages' \cup WrittenImages' =
            skipped \cup QueuedImages \cup WrittenImages
    BY <1>7, <1>11, <2>4
  <2>10. SharesAreKept'
    BY <1>1, <1>2, <1>5, <2>9 DEF SharesAreKept
  <2> QED BY <2>5, <2>6, <2>8, <2>10 DEF EvaluationInv
<1> QED BY <1>4, <1>10, <1>11

\* The steps that leave what was enrolled and probed alone.
LEMMA OthersKeep ==
    ASSUME EvaluationInv,
           \/ EvaluationFails \/ EndScale \/ EmbeddedAll \/ EndPairs
           \/ \E list \in PairLists : BeginPairs(list)
           \/ \E image \in Mentioned, ok \in BOOLEAN : EmbedImage(image, ok)
           \/ WritePair \/ UNCHANGED evaluationVars
    PROVE  EvaluationInv'
<1>1. /\ EvaluationTypes /\ EnrolledAreChosen /\ ProbesAreSound /\ SharesAreKept
  BY DEF EvaluationInv
<1>2. CASE \/ EvaluationFails \/ EndScale \/ EmbeddedAll \/ EndPairs
           \/ UNCHANGED evaluationVars
  <2>1. /\ UNCHANGED <<chosen, gallery, probes, results, pairs, rows, skipped>>
        /\ work' \in {"failed", "done", "write", work}
        /\ work' = "write" => chosen = <<>> /\ Mentioned \subseteq DOMAIN results
        /\ work' = "done" => chosen = <<>> \/ probes = <<>>
    BY <1>1, <1>2 DEF EvaluationFails, EndScale, EmbeddedAll, EndPairs, evaluationVars,
                      EvaluationTypes
  <2>2. /\ Gallery' = Gallery /\ QueuedImages' = QueuedImages
        /\ WrittenImages' = WrittenImages /\ Mentioned' = Mentioned /\ PairRows' = PairRows
        /\ Enrolled' = Enrolled
    BY <2>1 DEF Gallery, QueuedImages, WrittenImages, Mentioned, PairRows, PairRow,
                Comparable, Enrolled
  <2>3. EvaluationTypes'
    BY <1>1, <2>1, <2>2 DEF EvaluationTypes
  <2>4. EnrolledAreChosen'
    BY <1>1, <2>1, <2>2 DEF EnrolledAreChosen
  <2>5. ProbesAreSound' /\ SharesAreKept'
    BY <1>1, <2>1, <2>2 DEF ProbesAreSound, SharesAreKept, SoundProbe
  <2> QED BY <2>3, <2>4, <2>5 DEF EvaluationInv
<1>3. ASSUME NEW list \in PairLists, BeginPairs(list) PROVE EvaluationInv'
  <2>1. /\ UNCHANGED <<chosen, gallery, probes, results, rows, skipped>>
        /\ work' = "embed" /\ pairs' = list /\ chosen = <<>> /\ rows = <<>>
    BY <1>1, <1>3 DEF BeginPairs, EvaluationTypes
  <2>2. list \in Seq(AllPairs)
    <3>1. list \in Seq({list[k] : k \in DOMAIN list})
      BY EvaluationAssumption
    <3>2. {list[k] : k \in DOMAIN list} \subseteq AllPairs
      BY DEF AllPairs
    <3> HIDE DEF AllPairs
    <3> QED BY <3>1, <3>2
  <2>3. Gallery' = Gallery
    BY <2>1 DEF Gallery
  <2>4. rows' \in Seq(PairRows')
    BY <2>1
  <2>5. EvaluationTypes'
    BY <1>1, <2>1, <2>2, <2>4 DEF EvaluationTypes
  <2>6. EnrolledAreChosen' /\ ProbesAreSound' /\ SharesAreKept'
    BY <1>1, <2>1, <2>3 DEF EnrolledAreChosen, ProbesAreSound, SharesAreKept
  <2> QED BY <2>5, <2>6 DEF EvaluationInv
<1>4. ASSUME NEW image, NEW ok \in BOOLEAN, EmbedImage(image, ok) PROVE EvaluationInv'
  <2>1. /\ UNCHANGED <<work, chosen, gallery, probes, pairs, rows, skipped>>
        /\ work = "embed" /\ chosen = <<>> /\ rows = <<>>
        /\ results' = [x \in DOMAIN results \cup {image} |->
                          IF x = image THEN ok ELSE results[x]]
    BY <1>1, <1>4 DEF EmbedImage, EvaluationTypes
  <2>2. \A x \in DOMAIN results' : results'[x] \in BOOLEAN
    <3>1. \A x \in DOMAIN results : results[x] \in BOOLEAN
      BY <1>1 DEF EvaluationTypes
    <3> SUFFICES ASSUME NEW x \in DOMAIN results' PROVE results'[x] \in BOOLEAN
      OBVIOUS
    <3>2. CASE x = image
      BY <2>1, <3>2
    <3>3. CASE x # image
      <4>1. x \in DOMAIN results /\ results'[x] = results[x]
        BY <2>1, <3>3
      <4> QED BY <3>1, <4>1
    <3> QED BY <3>2, <3>3
  <2>3. Gallery' = Gallery
    BY <2>1 DEF Gallery
  <2>4. rows' \in Seq(PairRows')
    BY <2>1
  <2>5. EvaluationTypes'
    BY <1>1, <2>1, <2>2, <2>4 DEF EvaluationTypes
  <2>6. EnrolledAreChosen' /\ ProbesAreSound' /\ SharesAreKept'
    BY <1>1, <2>1, <2>3 DEF EnrolledAreChosen, ProbesAreSound, SharesAreKept
  <2> QED BY <2>5, <2>6 DEF EvaluationInv
<1>5. CASE WritePair
  <2> DEFINE a == Head(pairs)[1]
             b == Head(pairs)[2]
  <2>1. /\ UNCHANGED <<work, chosen, gallery, probes, results, skipped>>
        /\ work = "write" /\ chosen = <<>> /\ pairs # <<>> /\ pairs' = Tail(pairs)
        /\ rows' = Append(rows, PairRow(a, b))
        /\ pairs \in Seq(AllPairs) /\ rows \in Seq(PairRows)
        /\ Mentioned \subseteq DOMAIN results
    BY <1>1, <1>5 DEF WritePair, EvaluationTypes, PairRow
  <2>2. /\ Head(pairs) = pairs[1] /\ 1 \in DOMAIN pairs /\ pairs' \in Seq(AllPairs)
        /\ \A k \in DOMAIN pairs' : k + 1 \in DOMAIN pairs /\ pairs'[k] = pairs[k + 1]
    <3> DEFINE rest == Tail(pairs)
    <3>1. /\ Head(pairs) = pairs[1] /\ 1 \in DOMAIN pairs /\ rest \in Seq(AllPairs)
          /\ \A k \in DOMAIN rest : k + 1 \in DOMAIN pairs /\ rest[k] = pairs[k + 1]
      BY <2>1, RestFacts
    <3>2. pairs' = rest
      BY <2>1
    <3> HIDE DEF rest
    <3> QED BY <3>1, <3>2
  <2>3. a \in DOMAIN results /\ b \in DOMAIN results
    BY <2>1, <2>2 DEF Mentioned
  <2>4. PairRow(a, b) \in PairRows
    <3> HIDE DEF a, b
    <3>1. <<a, b>> \in (DOMAIN results) \X (DOMAIN results)
      BY <2>3
    <3> QED BY <3>1 DEF PairRows
  <2>5. rows' \in Seq(PairRows) /\ PairRows' = PairRows
    <3>1. rows' \in Seq(PairRows)
      BY <2>1, <2>4, OneMoreFacts
    <3>2. PairRows' = PairRows
      BY <2>1 DEF PairRows, PairRow, Comparable
    <3> QED BY <3>1, <3>2
  <2>6. Mentioned' \subseteq DOMAIN results'
    <3>1. \A k \in DOMAIN pairs' : {pairs'[k][1], pairs'[k][2]} \subseteq Mentioned
      BY <2>2 DEF Mentioned
    <3>2. Mentioned' \subseteq Mentioned
      BY <3>1 DEF Mentioned
    <3> QED BY <2>1, <3>2
  <2>7. Gallery' = Gallery
    BY <2>1 DEF Gallery
  <2>8. EvaluationTypes'
    BY <1>1, <2>1, <2>2, <2>5, <2>6 DEF EvaluationTypes
  <2>9. EnrolledAreChosen' /\ ProbesAreSound' /\ SharesAreKept'
    BY <1>1, <2>1, <2>7 DEF EnrolledAreChosen, ProbesAreSound, SharesAreKept
  <2> QED BY <2>8, <2>9 DEF EvaluationInv
<1> QED BY <1>2, <1>3, <1>4, <1>5

LEMMA EvaluationStep ==
    EvaluationInv /\ [EvaluationNext]_evaluationVars => EvaluationInv'
<1> SUFFICES ASSUME EvaluationInv, [EvaluationNext]_evaluationVars PROVE EvaluationInv'
  OBVIOUS
<1>1. ASSUME NEW n \in EnrollNs, BeginScale(n) PROVE EvaluationInv'
  BY <1>1, BeginScaleKeeps
<1> QED BY <1>1, EnrollKeeps, QueueImpostorsKeeps, ProbeKeeps, OthersKeep
        DEF EvaluationNext

\* The parts of the report, from the invariant.
LEMMA RowsSound == EvaluationInv => RowsAreSound
<1> SUFFICES ASSUME EvaluationInv, work = "probe" \/ (work = "done" /\ chosen # <<>>),
                    NEW k \in DOMAIN rows
             PROVE  /\ rows[k].genuine <=> rows[k].image[1] \in Gallery
                    /\ ~(rows[k].image[2] = 1 /\ rows[k].image[1] \in Gallery)
                    /\ \A l \in DOMAIN rows : rows[l].image = rows[k].image => l = k
  BY DEF RowsAreSound
<1>1. chosen # <<>>
  BY DEF EvaluationInv, EvaluationTypes
<1> QED BY <1>1 DEF EvaluationInv, ProbesAreSound, SoundProbe

LEMMA SharesAddUp == EvaluationInv => ProbesAccountedFor
<1> SUFFICES ASSUME EvaluationInv, work = "done", chosen # <<>>, NEW i \in Gallery
             PROVE  Cardinality({j \in 2..Images[i] :
                        \/ <<i, j>> \in skipped
                        \/ \E k \in DOMAIN rows : rows[k].image = <<i, j>>}) = Share(i)
  BY DEF ProbesAccountedFor, Share
<1>1. i \in MultiImage
  BY DEF EvaluationInv, EvaluationTypes, Gallery
<1>2. Share(i) \in Nat /\ Share(i) <= Images[i] - 1 /\ Images[i] \in Nat
  BY <1>1, GenuineFacts
<1>3. QueuedImages = {}
  BY DEF EvaluationInv, EvaluationTypes, QueuedImages
<1>4. {j \in 2..Images[i] : \/ <<i, j>> \in skipped
                            \/ \E k \in DOMAIN rows : rows[k].image = <<i, j>>}
          = 2..(Share(i) + 1)
  <2>1. \A j \in 2..Images[i] :
            (\/ <<i, j>> \in skipped
             \/ \E k \in DOMAIN rows : rows[k].image = <<i, j>>) <=> j <= Share(i) + 1
    BY <1>3 DEF EvaluationInv, SharesAreKept, WrittenImages
  <2>2. \A j \in 2..(Share(i) + 1) : j \in 2..Images[i] /\ j <= Share(i) + 1
    BY <1>2
  <2>3. \A j \in 2..Images[i] : j <= Share(i) + 1 => j \in 2..(Share(i) + 1)
    BY <1>2
  <2> QED BY <2>1, <2>2, <2>3
<1>5. PICK n \in Nat : n = Share(i)
  BY <1>2
<1>6. 2 \in Int /\ n + 1 \in Int
  BY <1>5
<1>7. Cardinality(2..(n + 1)) = n
  <2>1. Cardinality(2..(n + 1)) = IF 2 > n + 1 THEN 0 ELSE (n + 1) - 2 + 1
    BY <1>6, FS_Interval
  <2> QED BY <1>5, <2>1
<1> QED BY <1>4, <1>5, <1>7

LEMMA PairsSound == EvaluationInv => PairsAgree
<1> SUFFICES ASSUME EvaluationInv, work \in {"write", "done"}, chosen = <<>>,
                    NEW k \in DOMAIN rows, NEW l \in DOMAIN rows
             PROVE  /\ rows[k].distance <=> rows[k].bad = {}
                    /\ rows[k].bad \cap {rows[l].a, rows[l].b} \subseteq rows[l].bad
  BY DEF PairsAgree
<1>1. rows \in Seq(PairRows) /\ \A x \in DOMAIN results : results[x] \in BOOLEAN
  BY DEF EvaluationInv, EvaluationTypes
<1>2. rows[k] \in PairRows /\ rows[l] \in PairRows
  BY <1>1
<1>3. PICK x \in (DOMAIN results) \X (DOMAIN results) : rows[k] = PairRow(x[1], x[2])
  BY <1>2 DEF PairRows
<1>4. PICK y \in (DOMAIN results) \X (DOMAIN results) : rows[l] = PairRow(y[1], y[2])
  BY <1>2 DEF PairRows
<1>5. /\ rows[k].bad = {z \in {x[1], x[2]} : ~results[z]}
      /\ rows[k].distance = Comparable(x[1], x[2])
      /\ rows[l].a = y[1] /\ rows[l].b = y[2]
      /\ rows[l].bad = {z \in {y[1], y[2]} : ~results[z]}
  BY <1>3, <1>4 DEF PairRow
<1>6. rows[k].distance <=> rows[k].bad = {}
  <2>1. Comparable(x[1], x[2]) <=> results[x[1]] /\ results[x[2]]
    BY DEF Comparable
  <2>2. rows[k].bad = {} <=> results[x[1]] /\ results[x[2]]
    BY <1>5
  <2>3. rows[k].distance <=> Comparable(x[1], x[2])
    BY <1>5
  <2> QED BY <2>1, <2>2, <2>3, Zenon
<1> QED BY <1>5, <1>6

\* The evaluation keeps to its types.
THEOREM EvaluationTypeCorrect == EvaluationSpec => []EvaluationTypeOK
<1>1. EvaluationInv => EvaluationTypeOK
  <2> SUFFICES ASSUME EvaluationTypes PROVE EvaluationTypeOK
    BY DEF EvaluationInv
  <2>1. \A i \in DOMAIN gallery : Images[gallery[i]] >= 2
    BY DEF EvaluationTypes, MultiImage
  <2> QED BY <2>1 DEF EvaluationTypes, EvaluationTypeOK
<1> QED BY <1>1, EvaluationStart, EvaluationStep, PTL DEF EvaluationSpec

\* The report of either mode is sound and complete: ReportIsSound of Evaluation,
\* for any dataset, caps and lists of pairs, whatever cannot be embedded.
THEOREM ReportsAreSound == EvaluationSpec => []ReportIsSound
<1>1. EvaluationInv => ReportIsSound
  BY RowsSound, SharesAddUp, PairsSound DEF ReportIsSound
<1> QED BY <1>1, EvaluationStart, EvaluationStep, PTL DEF EvaluationSpec

-----------------------------------------------------------------------------
(* The parts together.                                                     *)

\* A behaviour of the seven parts is one of each: what is proved of a part
\* holds of them together.
THEOREM EdgePartsImplemented ==
    EdgeSpec =>
        /\ Init /\ [][Next]_vars
        /\ CameraInit /\ [][CameraNext]_cameraVars
        /\ ProfilerSpec /\ MatcherSpec /\ VisionSpec /\ ProgramSpec /\ EvaluationSpec
<1>1. EdgeInit =>
          /\ Init /\ CameraInit /\ ProfilerInit /\ MatcherInit /\ VisionInit
          /\ ProgramInit /\ EvaluationInit
  BY DEF EdgeInit
<1>2. [EdgeNext]_<<part, edgeVars>> =>
          /\ [Next]_vars /\ [CameraNext]_cameraVars /\ [ProfilerNext]_profilerVars
          /\ [MatcherNext]_matcherVars /\ [VisionNext]_visionVars
          /\ [ProgramNext]_programVars /\ [EvaluationNext]_evaluationVars
  BY DEF EdgeNext, LedPart, CameraPart, ProfilerPart, MatcherPart, VisionPart, ProgramPart,
         EvaluationPart, edgeVars
<1> QED
  BY <1>1, <1>2, PTL
     DEF EdgeSpec, ProfilerSpec, MatcherSpec, VisionSpec, ProgramSpec, EvaluationSpec

\* EdgeTypeOK for any colours, frames, cycles, vectors, faces, files and
\* datasets: a window of the profiler is cut before it reaches its interval,
\* a gallery never outgrows the dataset, and the threads, buffers, caches and
\* counters of the seven parts keep to their types.
THEOREM EdgeIsTyped == EdgeSpec => []EdgeTypeOK
<1>1. CameraInv => CameraTypeOK
  BY DEF CameraInv
<1>2. Init /\ [][Next]_vars => []TypeOK
  BY TypeInit, TypeNext, PTL
<1>3. CameraInit /\ [][CameraNext]_cameraVars => []CameraInv
  BY CameraStart, CameraStep, PTL
<1> QED
  BY <1>1, <1>2, <1>3, EdgePartsImplemented, ProfilerTypeCorrect, MatcherTypeCorrect,
     VisionTypeCorrect, ProgramTypeCorrect, EvaluationTypeCorrect, PTL DEF EdgeTypeOK

=============================================================================
