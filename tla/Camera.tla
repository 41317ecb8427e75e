------------------------------- MODULE Camera -------------------------------
(***************************************************************************)
(* The camera: capture_loop reads frames into a local cv::Mat on a thread  *)
(* of its own and publishes it as latest_frame_ under frame_mutex_;        *)
(* capture() clones latest_frame_ under the same mutex.                    *)
(*                                                                         *)
(* latest_frame_ = frame copies a header, not pixels: from then on both    *)
(* name one buffer, and the next cap.read writes into it without the mutex *)
(* while a clone may be reading.  A buffer is its rows, each holding the   *)
(* number of the read that wrote it; rows are written and copied one at a  *)
(* time and in any order.                                                  *)
(*                                                                         *)
(* cap.read has no timeout: with a source on the network it may never      *)
(* return (DESIGN.md:199), and then the thread is hung for good.           *)
(***************************************************************************)
EXTENDS Naturals

CONSTANTS
    Rows,      \* the parts of a frame that are copied separately
    NoFrame,   \* an empty cv::Mat, an empty optional
    MaxReads   \* bound: frames the device ever delivers

\* One buffer is latest_frame_'s, the other serves a read after a failure.
Buffers == {1, 2}

ASSUME CameraAssumption ==
    /\ NoFrame \notin Buffers
    /\ MaxReads \in Nat

VARIABLES
    pixels,     \* the memory of the buffers: buffer -> row -> read
    frame,      \* capture_loop's local frame: the buffer it names
    latest,     \* latest_frame_; NoFrame while has_frame_ is false
    reads,      \* frames delivered so far
    capturer,   \* what capture_loop does next
    unwritten,  \* rows cap.read has still to write
    halt,       \* stop_
    client,     \* the thread that calls capture() and the destructor
    clone,      \* rows copied so far by the clone in progress
    got,        \* what the last capture() returned
    published   \* history: which read was last published

captureVars == <<pixels, frame, latest, reads, capturer, unwritten, published>>
clientVars == <<halt, client, clone, got>>
cameraVars == <<captureVars, clientVars>>

Reads == 0..MaxReads

CameraTypeOK ==
    /\ pixels \in [Buffers -> [Rows -> Reads]]
    /\ frame \in Buffers \cup {NoFrame}
    /\ latest \in Buffers \cup {NoFrame}
    /\ reads \in Reads
    /\ capturer \in {"check", "read", "publish", "hung", "done"}
    /\ unwritten \subseteq Rows
    /\ halt \in BOOLEAN
    /\ client \in {"idle", "clone", "join", "gone"}
    /\ clone \in [Rows -> Reads]
    /\ got \in [Rows -> Reads]
    /\ published \in Reads
    /\ client = "clone" => latest # NoFrame

Blank == [r \in Rows |-> 0]

CameraInit ==
    /\ pixels = [b \in Buffers |-> Blank]
    /\ frame = NoFrame
    /\ latest = NoFrame
    /\ reads = 0
    /\ capturer = "check"
    /\ unwritten = {}
    /\ halt = FALSE
    /\ client = "idle"
    /\ clone = Blank
    /\ got = Blank
    /\ published = 0

-----------------------------------------------------------------------------
(* capture_loop.                                                           *)

\* while (!stop_.load())
LoopEnds ==
    /\ capturer = "check"
    /\ halt
    /\ capturer' = "done"
    /\ UNCHANGED <<pixels, frame, latest, reads, unwritten, published, clientVars>>

\* cap.read fails and leaves an empty frame; 10 ms later it is tried again.
ReadFails ==
    /\ capturer = "check"
    /\ ~halt
    /\ frame' = NoFrame
    /\ UNCHANGED <<pixels, latest, reads, capturer, unwritten, published, clientVars>>

\* cap.read takes a new buffer if frame has none, else the one it has.
ReadBegins ==
    /\ capturer = "check"
    /\ ~halt
    /\ reads < MaxReads
    /\ reads' = reads + 1
    /\ frame' \in IF frame = NoFrame THEN Buffers \ {latest} ELSE {frame}
    /\ unwritten' = Rows
    /\ capturer' = "read"
    /\ UNCHANGED <<pixels, latest, published, clientVars>>

\* The source falls silent before a read or in its middle.
ReadHangs ==
    /\ capturer = "read" \/ (capturer = "check" /\ ~halt)
    /\ capturer' = "hung"
    /\ UNCHANGED <<pixels, frame, latest, reads, unwritten, published, clientVars>>

WriteRow(r) ==
    /\ capturer = "read"
    /\ r \in unwritten
    /\ pixels' = [pixels EXCEPT ![frame][r] = reads]
    /\ unwritten' = unwritten \ {r}
    /\ capturer' = IF unwritten' = {} THEN "publish" ELSE "read"
    /\ UNCHANGED <<frame, latest, reads, published, clientVars>>

FrameMutexFree == client # "clone"

\* A plausible bug: the mutex is not taken.
Publish_NoLock ==
    /\ capturer = "publish"
    /\ latest' = frame
    /\ published' = reads
    /\ capturer' = "check"
    /\ UNCHANGED <<pixels, frame, reads, unwritten, clientVars>>

\* latest_frame_ = frame, has_frame_ = true, under the mutex.
Publish ==
    /\ capturer = "publish"
    /\ FrameMutexFree
    /\ latest' = frame
    /\ published' = reads
    /\ capturer' = "check"
    /\ UNCHANGED <<pixels, frame, reads, unwritten, clientVars>>

CaptureLoop ==
    LoopEnds \/ ReadFails \/ ReadBegins \/ (\E r \in Rows : WriteRow(r)) \/ Publish

-----------------------------------------------------------------------------
(* The client: Pipeline::main_loop or the enrolment program.               *)

\* capture() with the mutex: nullopt before the first frame is no step.
CloneBegins ==
    /\ client = "idle"
    /\ latest # NoFrame
    /\ client' = "clone"
    /\ clone' = Blank
    /\ UNCHANGED <<captureVars, halt, got>>

CopyRow(r) ==
    /\ client = "clone"
    /\ clone[r] = 0
    /\ clone' = [clone EXCEPT ![r] = pixels[latest][r]]
    /\ UNCHANGED <<captureVars, halt, client, got>>

CloneEnds ==
    /\ client = "clone"
    /\ \A r \in Rows : clone[r] # 0
    /\ client' = "idle"
    /\ got' = clone
    /\ UNCHANGED <<captureVars, halt, clone>>

\* A plausible bug: the destructor waits without having asked to stop.
Destroy_NoStop ==
    /\ client = "idle"
    /\ client' = "join"
    /\ UNCHANGED <<captureVars, halt, clone, got>>

\* ~Camera, called when nobody captures any more.
Destroy ==
    /\ client = "idle"
    /\ halt' = TRUE
    /\ client' = "join"
    /\ UNCHANGED <<captureVars, clone, got>>

\* The thread is joined, then cap is released.
Joined ==
    /\ client = "join"
    /\ capturer = "done"
    /\ client' = "gone"
    /\ UNCHANGED <<captureVars, halt, clone, got>>

Client ==
    CloneBegins \/ (\E r \in Rows : CopyRow(r)) \/ CloneEnds \/ Destroy \/ Joined

Gone == client = "gone" /\ UNCHANGED cameraVars

\* join() waits for the thread that hangs, until somebody ends the process.
JoinHangs == client = "join" /\ capturer = "hung" /\ UNCHANGED cameraVars

CameraNext == CaptureLoop \/ ReadHangs \/ Client \/ Gone \/ JoinHangs

\* Both threads run, and a read that does not hang returns; nobody has to
\* capture, nor to destroy the camera.
CameraFairness ==
    /\ WF_cameraVars(CaptureLoop)
    /\ WF_cameraVars((\E r \in Rows : CopyRow(r)) \/ CloneEnds \/ Joined)

CameraSpec == CameraInit /\ [][CameraNext]_cameraVars /\ CameraFairness

-----------------------------------------------------------------------------
(* Properties.                                                             *)

\* What capture() returns is the frame published last, or parts of it with
\* parts of the one being read meanwhile: never older, never a mixture of
\* frames further apart, although reads are not synchronized with clones.
FrameIsCurrent ==
    [][client = "clone" /\ client' = "idle" =>
         \A r \in Rows : got'[r] \in {published, published + 1}]_cameraVars

\* The destructor returns, however reads fail and whatever the loop is at, unless
\* a read hangs: then it never does, which DESIGN.md:199 accepts.
DestructorReturns == client = "join" ~> client = "gone" \/ capturer = "hung"

=============================================================================
