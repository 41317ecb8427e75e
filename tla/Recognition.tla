---------------------------- MODULE Recognition ----------------------------
(***************************************************************************)
(* Pipeline::main_loop: from the faces in front of the camera to the       *)
(* decisions (gate, LED, buzzer, AccessEvent), with the stabilization of   *)
(* the detection, the deduplication of the events and the windows in which *)
(* the loop does not look.                                                 *)
(*                                                                         *)
(* All of it depends on time.  A time_point of the code is kept as its age *)
(* (or, for block_until, the time left), cut off where no comparison tells *)
(* the difference any more.  An iteration reads its clocks at one tick.    *)
(* Who stands in front of the camera is the environment; what the vision   *)
(* stages make of a frame is right except for glitches, of the kinds in    *)
(* Glitches and never in two consecutive iterations.                       *)
(*                                                                         *)
(* Handing the event to MqttPublisher is EventDelivery, the worker behind  *)
(* grant_access is Turnstile.                                              *)
(***************************************************************************)
EXTENDS Naturals

CONSTANTS
    Employees,  \* people the matcher knows
    Strangers,  \* people it does not
    Nobody,     \* no face, no match, no decision
    Unknown,    \* AccessStatus::Unknown
    Settings,   \* the settings tried: hold, open_hold_ (servo_open_ms); idle,
                \* idle_reset_; glitches, the stages that may fail on a frame
    Cooldown,   \* denied_cooldown_
    Stab,       \* face_stabilization_
    Grace,      \* kStreakGapGrace
    Throttle,   \* unknown_throttle_
    Beep,       \* buzzer_beep_ms: beep_denied blocks main_loop
    Patience    \* bound: how long a stay is timed

GlitchKinds == {"detect", "embed", "match"}

ASSUME PeopleAssumption ==
    /\ Employees \cap Strangers = {}
    /\ Nobody \notin Employees \cup Strangers \cup {Unknown}
    /\ Unknown \notin Employees \cup Strangers

ASSUME TimesAssumption ==
    /\ \A s \in Settings :
           s.hold \in Nat \ {0} /\ s.idle \in Nat /\ s.glitches \subseteq GlitchKinds
    /\ Cooldown \in Nat
    /\ Stab \in Nat
    /\ Grace \in Nat
    /\ Throttle \in Nat
    /\ Beep \in Nat
    /\ Patience \in Nat

People == Employees \cup Strangers
Decisions == Employees \cup {Unknown, Nobody}

VARIABLES
    settings,    \* the configuration
    view,        \* environment: who is in front of the camera
    last,        \* last_status and last_employee: Nobody, Unknown, or whom
                 \* the last Granted was for
    blockLeft,   \* time left until block_until
    faceAge,     \* time since last_face_seen_at
    unknownAge,  \* time since last_unknown_emitted_at
    streakAge,   \* time since streak_start
    detectAge,   \* time since last_detect_at
    busy,        \* time until the next iteration begins
    glitched,    \* the last iteration that looked had a glitch
    event,       \* the AccessEvent the iteration just finished has emitted
    viewFor,     \* history: how long the same person has been there
    grants,      \* history: Granted events during this stay, up to 2
    presentFor,  \* history: since when there is a face, gaps <= Grace apart
    emptyFor,    \* history: length of the present gap
    unknownGap   \* history: time since the last Unknown event of this stay

Hold == settings.hold
Idle == settings.idle
Glitches == settings.glitches

loopVars == <<settings, last, blockLeft, faceAge, unknownAge, streakAge, detectAge>>
historyVars == <<viewFor, grants, presentFor, emptyFor, unknownGap>>
vars == <<view, loopVars, busy, glitched, event, historyVars>>

TypeOK ==
    /\ settings \in Settings
    /\ view \in People \cup {Nobody}
    /\ last \in Decisions
    /\ blockLeft \in 0..(Hold + Cooldown)
    /\ faceAge \in 0..(Idle + 1)
    /\ unknownAge \in 0..Throttle
    /\ streakAge \in 0..Stab
    /\ detectAge \in 0..(Grace + 1)
    /\ busy \in 0..(Beep + 1)
    /\ glitched \in BOOLEAN
    /\ event \in Decisions
    /\ viewFor \in 0..Patience
    /\ grants \in 0..2
    /\ presentFor \in 0..Stab
    /\ emptyFor \in 0..(Grace + 1)
    /\ unknownGap \in 0..Throttle

\* The time_points start at the epoch, long ago.  (ever_seen_face only keeps
\* an empty last from being emptied.)
Init ==
    /\ settings \in Settings
    /\ view = Nobody
    /\ last = Nobody
    /\ blockLeft = 0
    /\ faceAge = Idle + 1
    /\ unknownAge = Throttle
    /\ streakAge = Stab
    /\ detectAge = Grace + 1
    /\ busy = 0
    /\ glitched = FALSE
    /\ event = Nobody
    /\ viewFor = 0
    /\ grants = 0
    /\ presentFor = 0
    /\ emptyFor = 0
    /\ unknownGap = Throttle

-----------------------------------------------------------------------------
(* The environment and the clock.                                          *)

\* Somebody comes, leaves, or takes somebody else's place.
Move(who) ==
    /\ view # who
    /\ view' = who
    /\ viewFor' = 0
    /\ grants' = 0
    /\ unknownGap' = Throttle
    /\ event' = Nobody
    /\ emptyFor' = 0
    /\ UNCHANGED <<loopVars, busy, glitched, presentFor>>

Later(age, limit) == IF age < limit THEN age + 1 ELSE limit
Sooner(left) == IF left > 0 THEN left - 1 ELSE 0

\* Time passes while the loop sleeps, beeps or computes.
Tick ==
    /\ busy > 0
    /\ busy' = busy - 1
    /\ blockLeft' = Sooner(blockLeft)
    /\ faceAge' = Later(faceAge, Idle + 1)
    /\ unknownAge' = Later(unknownAge, Throttle)
    /\ streakAge' = Later(streakAge, Stab)
    /\ detectAge' = Later(detectAge, Grace + 1)
    /\ viewFor' = Later(viewFor, Patience)
    /\ emptyFor' = IF view = Nobody THEN Later(emptyFor, Grace + 1)
                                   ELSE emptyFor
    /\ presentFor' = IF emptyFor' > Grace THEN 0 ELSE Later(presentFor, Stab)
    /\ unknownGap' = Later(unknownGap, Throttle)
    /\ event' = Nobody
    /\ UNCHANGED <<settings, view, last, glitched, grants>>

-----------------------------------------------------------------------------
(* The ways through an iteration of main_loop.                             *)

Looks == busy = 0 /\ blockLeft = 0
Glitch(kind) == kind \in Glitches /\ ~glitched

\* Within the granted window or the denied cooldown: the loop only sleeps.
Blocked ==
    /\ busy = 0
    /\ blockLeft > 0
    /\ busy' = 1
    /\ UNCHANGED <<view, loopVars, glitched, event, historyVars>>

\* No frame from the camera, or no face found in it.
NoDetection ==
    /\ Looks
    /\ \/ view = Nobody /\ glitched' = FALSE
       \/ view # Nobody /\ Glitch("detect") /\ glitched' = TRUE
    /\ busy' = 1
    /\ UNCHANGED <<view, loopVars, event, historyVars>>

\* A plausible bug: the streak is not restarted after a long gap.
Detected_OneStreak ==
    /\ Looks
    /\ view # Nobody
    /\ streakAge' = streakAge
    /\ detectAge' = 0

\* A face is found; a gap longer than the grace begins a new streak.
Detected ==
    /\ Looks
    /\ view # Nobody
    /\ streakAge' = IF detectAge > Grace THEN 0 ELSE streakAge
    /\ detectAge' = 0

Stabilizing ==
    /\ Detected
    /\ streakAge' < Stab
    /\ busy' = 1
    /\ glitched' = FALSE
    /\ UNCHANGED <<settings, view, last, blockLeft, faceAge, unknownAge, event,
                   historyVars>>

Stabilized == Detected /\ streakAge' = Stab

\* FaceEmbedder::extract fails: a DeviceFault is published, nothing else.
EmbedFailure ==
    /\ Stabilized
    /\ Glitch("embed")
    /\ glitched' = TRUE
    /\ busy' = 1
    /\ UNCHANGED <<settings, view, last, blockLeft, faceAge, unknownAge, event,
                   historyVars>>

\* What find_match returns: the employee, or Unknown for nullopt.
Matches(result) ==
    \/ /\ result = IF view \in Employees THEN view ELSE Unknown
       /\ glitched' = FALSE
    \/ /\ view \in Employees
       /\ Glitch("match")
       /\ result = Unknown
       /\ glitched' = TRUE

\* A plausible bug: the idle reset is missing.
Remembered_Forever == last

\* The last decision, forgotten if no face was seen for idle_reset_.
Remembered == IF faceAge > Idle THEN Nobody ELSE last

\* The end of every iteration that came to a match.
Seen ==
    /\ faceAge' = 0
    /\ UNCHANGED <<settings, view>>

\* A plausible bug: the decision is emitted again for the same employee.
Grant_Always ==
    /\ Stabilized
    /\ \E e \in Employees : Matches(e) /\ last' = e /\ event' = e
    /\ blockLeft' = Hold
    /\ busy' = 1
    /\ grants' = IF grants < 2 THEN grants + 1 ELSE 2
    /\ Seen
    /\ UNCHANGED <<unknownAge, viewFor, presentFor, emptyFor, unknownGap>>

\* grant_access, show_granted, the window, an AccessEvent(Granted): on the
\* first sighting, for another employee, or after an Unknown.
Grant ==
    /\ Stabilized
    /\ \E e \in Employees :
           /\ Matches(e)
           /\ Remembered # e
           /\ last' = e
           /\ event' = e
    /\ blockLeft' = Hold
    /\ busy' = 1
    /\ grants' = IF grants < 2 THEN grants + 1 ELSE 2
    /\ Seen
    /\ UNCHANGED <<unknownAge, viewFor, presentFor, emptyFor, unknownGap>>

\* The same employee held in view: nothing is emitted.
SameEmployee ==
    /\ Stabilized
    /\ \E e \in Employees : Matches(e) /\ Remembered = e
    /\ busy' = 1
    /\ Seen
    /\ UNCHANGED <<last, blockLeft, unknownAge, event, historyVars>>

\* A plausible bug: the throttle expires one tick early.
Throttled_Early == Remembered = Unknown /\ unknownAge + 1 < Throttle

\* An Unknown is kept back until unknown_throttle_ after the last one.
Throttled == Remembered = Unknown /\ unknownAge < Throttle

\* A plausible bug: last_employee is set to whoever is there although there
\* is no match.
Deny_KeepsPerson ==
    /\ Stabilized
    /\ Matches(Unknown)
    /\ ~Throttled
    /\ last' = view
    /\ unknownAge' = 0
    /\ event' = Unknown
    /\ blockLeft' = Cooldown
    /\ busy' = Beep + 1
    /\ unknownGap' = 0
    /\ Seen
    /\ UNCHANGED <<viewFor, grants, presentFor, emptyFor>>

\* show_denied, the cooldown, beep_denied (which blocks), an
\* AccessEvent(Unknown): on the first one, on a transition, or throttled.
Deny ==
    /\ Stabilized
    /\ Matches(Unknown)
    /\ ~Throttled
    /\ last' = Unknown
    /\ unknownAge' = 0
    /\ event' = Unknown
    /\ blockLeft' = Cooldown
    /\ busy' = Beep + 1
    /\ unknownGap' = 0
    /\ Seen
    /\ UNCHANGED <<viewFor, grants, presentFor, emptyFor>>

StillUnknown ==
    /\ Stabilized
    /\ Matches(Unknown)
    /\ Throttled
    /\ busy' = 1
    /\ Seen
    /\ last' = Remembered
    /\ UNCHANGED <<blockLeft, unknownAge, event, historyVars>>

Iteration ==
    \/ Blocked \/ NoDetection \/ Stabilizing \/ EmbedFailure
    \/ Grant \/ SameEmployee \/ Deny \/ StillUnknown

Next ==
    \/ \E who \in People \cup {Nobody} : Move(who)
    \/ Tick
    \/ Iteration

Spec == Init /\ [][Next]_vars

-----------------------------------------------------------------------------
(* Properties.                                                             *)

\* No decision on a face that has just come into view: when an event is
\* emitted there has been a face in front of the camera for all of
\* face_stabilization_, but for gaps of at most kStreakGapGrace.
DecidesOnSteadyFace == event # Nobody => presentFor = Stab

\* A stranger who stays gives at most one Unknown event per
\* unknown_throttle_seconds.
UnknownThrottled ==
    [][event = Nobody /\ event' = Unknown /\ view \in Strangers
         => unknownGap = Throttle]_vars

\* An employee who comes is granted access when her stay has lasted Patience,
\* whoever was there before and whatever the loop remembers of it, if the
\* window outlasts idle_reset_, as by default.  Otherwise one who comes back
\* before she is forgotten is not, for as long as she stays.
ServedInTime ==
    Hold >= Idle /\ view \in Employees /\ viewFor = Patience => grants > 0

\* DESIGN.md:527: an employee who is recognized and stays gives one Granted
\* event.  The defaults, with a window longer than idle_reset_, do not do that;
OneGrantPerStay == grants <= 1

\* an idle_reset_ that outlasts the window and the stabilization does, as long
\* as nobody is misread.
OneGrantIfIdleIsLong ==
    Idle > Hold + Stab + Grace /\ "match" \notin Glitches => grants <= 1

=============================================================================
