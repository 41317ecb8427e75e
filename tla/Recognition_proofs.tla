------------------------- MODULE Recognition_proofs -------------------------
(***************************************************************************)
(* Proofs about Recognition, for every setting of the times, any people    *)
(* and any glitches.                                                       *)
(***************************************************************************)
EXTENDS Recognition, TLAPS

USE TimesAssumption

-----------------------------------------------------------------------------
(* The clocks.                                                             *)

LEMMA LaterIsBounded ==
    ASSUME NEW limit \in Nat, NEW age \in 0..limit
    PROVE  Later(age, limit) \in 0..limit
BY DEF Later

LEMMA SoonerIsBounded ==
    ASSUME NEW limit \in Nat, NEW left \in 0..limit
    PROVE  Sooner(left) \in 0..limit
BY DEF Sooner

-----------------------------------------------------------------------------
(* The settings.                                                           *)

LEMMA SettingsAreTimes ==
    ASSUME settings \in Settings
    PROVE  Hold \in Nat /\ Idle \in Nat
BY DEF Hold, Idle

LEMMA SettingsAreKept == [Next]_vars => settings' = settings /\ Hold' = Hold /\ Idle' = Idle
<1> SUFFICES ASSUME [Next]_vars PROVE settings' = settings
  BY DEF Hold, Idle
<1>1. CASE \E who \in People \cup {Nobody} : Move(who)
  BY <1>1 DEF Move, loopVars
<1>2. CASE Tick
  BY <1>2 DEF Tick
<1>3. CASE Iteration
  BY <1>3 DEF Iteration, Blocked, NoDetection, Stabilizing, EmbedFailure, Grant,
              SameEmployee, Deny, StillUnknown, Seen, loopVars
<1>4. CASE UNCHANGED vars
  BY <1>4 DEF vars, loopVars
<1> QED BY <1>1, <1>2, <1>3, <1>4 DEF Next

-----------------------------------------------------------------------------
(* Type correctness.                                                       *)

LEMMA TypeInit == Init => TypeOK
<1> SUFFICES ASSUME Init PROVE TypeOK
  OBVIOUS
<1>s. settings \in Settings /\ Hold \in Nat /\ Idle \in Nat
  BY SettingsAreTimes DEF Init
<1>1. /\ Idle + 1 \in 0..(Idle + 1) /\ Grace + 1 \in 0..(Grace + 1)
      /\ Throttle \in 0..Throttle /\ Stab \in 0..Stab
      /\ 0 \in 0..(Hold + Cooldown) /\ 0 \in 0..(Beep + 1)
      /\ 0 \in 0..Patience /\ 0 \in 0..Stab /\ 0 \in 0..(Grace + 1)
      /\ 0 \in 0..2
  BY <1>s
<1>2. /\ view \in People \cup {Nobody}
      /\ last \in Decisions /\ event \in Decisions
      /\ glitched \in BOOLEAN
  BY DEF Init, Decisions
<1> QED BY <1>s, <1>1, <1>2, Zenon DEF Init, TypeOK

\* What the iterations with a face in view do to the streak.
LEMMA DetectedTypes ==
    ASSUME TypeOK, Detected
    PROVE  streakAge' \in 0..Stab /\ detectAge' \in 0..(Grace + 1)
BY DEF TypeOK, Detected

LEMMA TypeNext == TypeOK /\ [Next]_vars => TypeOK'
<1> SUFFICES ASSUME TypeOK, [Next]_vars PROVE TypeOK'
  OBVIOUS
<1> USE DEF TypeOK
<1>s. /\ Hold \in Nat /\ Idle \in Nat
      /\ settings' \in Settings /\ Hold' = Hold /\ Idle' = Idle
  BY SettingsAreTimes, SettingsAreKept
<1>1. CASE \E who \in People \cup {Nobody} : Move(who)
  BY <1>1, <1>s DEF Move, loopVars, Decisions
<1>2. CASE Tick
  <2>1. /\ faceAge' \in 0..(Idle + 1) /\ unknownAge' \in 0..Throttle
        /\ streakAge' \in 0..Stab /\ detectAge' \in 0..(Grace + 1)
    BY <1>2, <1>s, LaterIsBounded DEF Tick
  <2>2. blockLeft' \in 0..(Hold + Cooldown) /\ busy' \in 0..(Beep + 1)
    <3>1. Hold + Cooldown \in Nat
      BY <1>s
    <3>2. blockLeft' \in 0..(Hold + Cooldown)
      BY <1>2, <1>s, <3>1, SoonerIsBounded DEF Tick
    <3>3. busy' \in 0..(Beep + 1)
      BY <1>2 DEF Tick
    <3> QED BY <3>2, <3>3
  <2>3. /\ viewFor' \in 0..Patience /\ unknownGap' \in 0..Throttle
        /\ emptyFor' \in 0..(Grace + 1)
    <3>1. Grace + 1 \in Nat
      OBVIOUS
    <3>2. Later(emptyFor, Grace + 1) \in 0..(Grace + 1)
      BY <3>1, LaterIsBounded
    <3>3. emptyFor' \in 0..(Grace + 1)
      BY <1>2, <3>2 DEF Tick
    <3>4. viewFor' \in 0..Patience /\ unknownGap' \in 0..Throttle
      BY <1>2, LaterIsBounded DEF Tick
    <3> QED BY <3>3, <3>4
  <2>4. presentFor' \in 0..Stab
    <3>1. Later(presentFor, Stab) \in 0..Stab /\ 0 \in 0..Stab
      BY LaterIsBounded
    <3> QED BY <1>2, <3>1 DEF Tick
  <2> QED BY <1>2, <1>s, <2>1, <2>2, <2>3, <2>4 DEF Tick, Decisions
<1>3. CASE Iteration
  <2>1. CASE Blocked
    BY <2>1, <1>s DEF Blocked, loopVars, historyVars
  <2>2. CASE NoDetection
    <3>1. 1 \in 0..(Beep + 1)
      OBVIOUS
    <3>2. glitched' \in BOOLEAN /\ busy' = 1
      BY <2>2 DEF NoDetection
    <3> QED BY <2>2, <1>s, <3>1, <3>2 DEF NoDetection, loopVars, historyVars
  <2>3. CASE Stabilizing
    <3>1. /\ streakAge' \in 0..Stab /\ detectAge' \in 0..(Grace + 1)
      BY <2>3, DetectedTypes DEF Stabilizing
    <3>2. 1 \in 0..(Beep + 1)
      OBVIOUS
    <3> QED BY <2>3, <1>s, <3>1, <3>2 DEF Stabilizing, historyVars
  <2>4. CASE EmbedFailure
    BY <2>4, <1>s, DetectedTypes DEF EmbedFailure, Stabilized, historyVars
  <2>5. CASE Grant
    <3>1. /\ streakAge' \in 0..Stab /\ detectAge' \in 0..(Grace + 1)
      BY <2>5, DetectedTypes DEF Grant, Stabilized
    <3>2. /\ last' \in Decisions /\ event' \in Decisions
          /\ glitched' \in BOOLEAN
      BY <2>5 DEF Grant, Matches, Decisions
    <3> QED BY <2>5, <1>s, <3>1, <3>2 DEF Grant, Seen
  <2>6. CASE SameEmployee
    <3>1. /\ streakAge' \in 0..Stab /\ detectAge' \in 0..(Grace + 1)
      BY <2>6, DetectedTypes DEF SameEmployee, Stabilized
    <3>2. glitched' \in BOOLEAN
      BY <2>6 DEF SameEmployee, Matches
    <3> QED BY <2>6, <1>s, <3>1, <3>2 DEF SameEmployee, Seen, historyVars
  <2>7. CASE Deny
    <3>1. /\ streakAge' \in 0..Stab /\ detectAge' \in 0..(Grace + 1)
      BY <2>7, DetectedTypes DEF Deny, Stabilized
    <3>2. /\ last' \in Decisions /\ event' \in Decisions
          /\ glitched' \in BOOLEAN
      BY <2>7 DEF Deny, Matches, Decisions
    <3> QED BY <2>7, <1>s, <3>1, <3>2 DEF Deny, Seen
  <2>8. CASE StillUnknown
    <3>1. /\ streakAge' \in 0..Stab /\ detectAge' \in 0..(Grace + 1)
      BY <2>8, DetectedTypes DEF StillUnknown, Stabilized
    <3>2. last' \in Decisions /\ glitched' \in BOOLEAN
      BY <2>8 DEF StillUnknown, Matches, Remembered, Decisions
    <3> QED BY <2>8, <1>s, <3>1, <3>2 DEF StillUnknown, Seen, historyVars
  <2> QED BY <1>3, <2>1, <2>2, <2>3, <2>4, <2>5, <2>6, <2>7, <2>8 DEF Iteration
<1>4. CASE UNCHANGED vars
  BY <1>4, <1>s DEF vars, loopVars, historyVars
<1> QED BY <1>1, <1>2, <1>3, <1>4 DEF Next

\* The dedup state never holds a decision that was not taken.
THEOREM RecognitionTypeCorrect == Spec => []TypeOK
BY TypeInit, TypeNext, PTL DEF Spec

-----------------------------------------------------------------------------
(* Stabilization.                                                          *)

\* While the streak of the code lives, the presence it stands for is at least
\* as old, and the present gap began after the last detection.
StreakInv ==
    /\ TypeOK
    /\ view # Nobody => emptyFor = 0
    /\ detectAge <= Grace => streakAge <= presentFor /\ emptyFor <= detectAge
    /\ DecidesOnSteadyFace

LEMMA StreakInit == Init => StreakInv
<1> SUFFICES ASSUME Init PROVE StreakInv
  OBVIOUS
<1>1. TypeOK
  BY TypeInit
<1>2. ~(Grace + 1 <= Grace)
  OBVIOUS
<1> QED BY <1>1, <1>2 DEF Init, StreakInv, DecidesOnSteadyFace

\* An iteration that finds a face changes neither the presence nor the gap.
LEMMA DetectedKeepsStreak ==
    ASSUME StreakInv, Detected, UNCHANGED <<view, presentFor, emptyFor>>
    PROVE  /\ view' # Nobody => emptyFor' = 0
           /\ detectAge' <= Grace
                => streakAge' <= presentFor' /\ emptyFor' <= detectAge'
           /\ streakAge' = Stab => presentFor' = Stab
BY DEF StreakInv, TypeOK, Detected

LEMMA StreakNext == StreakInv /\ [Next]_vars => StreakInv'
<1> SUFFICES ASSUME StreakInv, [Next]_vars PROVE StreakInv'
  OBVIOUS
<1>t. TypeOK /\ TypeOK'
  BY TypeNext DEF StreakInv
<1>1. CASE \E who \in People \cup {Nobody} : Move(who)
  BY <1>1, <1>t DEF Move, StreakInv, TypeOK, DecidesOnSteadyFace, loopVars
<1>2. CASE Tick
  <2>1. view' = view /\ event' = Nobody
    BY <1>2 DEF Tick
  <2>2. view' # Nobody => emptyFor' = 0
    BY <1>2 DEF Tick, StreakInv
  <2>3. ASSUME detectAge' <= Grace
        PROVE  streakAge' <= presentFor' /\ emptyFor' <= detectAge'
    <3>1. detectAge < Grace /\ detectAge' = detectAge + 1
      BY <1>2, <1>t, <2>3 DEF Tick, Later, TypeOK
    <3>2. emptyFor' <= emptyFor + 1
      BY <1>2, <1>t DEF Tick, Later, TypeOK
    <3>3. emptyFor' <= detectAge'
      BY <1>t, <3>1, <3>2 DEF StreakInv, TypeOK
    <3>4. presentFor' = Later(presentFor, Stab)
      BY <1>2, <1>t, <2>3, <3>3 DEF Tick, TypeOK
    <3>5. streakAge' <= presentFor'
      BY <1>2, <1>t, <3>1, <3>4 DEF Tick, Later, StreakInv, TypeOK
    <3> QED BY <3>3, <3>5
  <2> QED BY <1>t, <2>1, <2>2, <2>3 DEF StreakInv, DecidesOnSteadyFace
<1>3. CASE Blocked \/ NoDetection
  BY <1>3, <1>t DEF Blocked, NoDetection, StreakInv, DecidesOnSteadyFace,
                    loopVars, historyVars
<1>4. CASE Stabilizing \/ EmbedFailure \/ SameEmployee \/ StillUnknown
  <2>1. Detected /\ UNCHANGED <<view, presentFor, emptyFor, event>>
    BY <1>4 DEF Stabilizing, EmbedFailure, SameEmployee, StillUnknown,
                Stabilized, Seen, historyVars
  <2> QED BY <1>t, <2>1, DetectedKeepsStreak DEF StreakInv, DecidesOnSteadyFace
<1>5. CASE Grant \/ Deny
  <2>1. /\ Detected /\ streakAge' = Stab
        /\ UNCHANGED <<view, presentFor, emptyFor>>
    BY <1>5 DEF Grant, Deny, Stabilized, Seen
  <2> QED BY <1>t, <2>1, DetectedKeepsStreak DEF StreakInv, DecidesOnSteadyFace
<1>6. CASE UNCHANGED vars
  BY <1>6, <1>t DEF vars, loopVars, historyVars, StreakInv, DecidesOnSteadyFace
<1> QED BY <1>1, <1>2, <1>3, <1>4, <1>5, <1>6 DEF Next, Iteration

\* For every setting of the times, whatever the glitches: an event is only
\* emitted after a face was there for the whole stabilization time.
THEOREM DecidesAfterStabilization == Spec => []DecidesOnSteadyFace
<1>1. StreakInv => DecidesOnSteadyFace
  BY DEF StreakInv
<1> QED BY <1>1, StreakInit, StreakNext, PTL DEF Spec

-----------------------------------------------------------------------------
(* The memory of the last decision outlasts the way to the next one.       *)

Longer(a, b) == IF a < b THEN b ELSE a

\* How long main_loop will not look.
Waits == Longer(busy, blockLeft)

\* The streak survives until the next look, and one failure more if one may
\* come then.
StreakHolds == detectAge + Waits + (IF glitched THEN 0 ELSE 1) <= Grace

\* The time after which the face in view has been stabilized, at the latest:
\* what is missing of the streak, or a whole stabilization after a failure.
MatchDue ==
    IF StreakHolds THEN Longer(Waits, Stab - streakAge)
    ELSE Waits + Stab + (IF glitched THEN 0 ELSE 1)

\* The last iteration failed, so the next one that looks matches, rightly.
MatchesNext == glitched /\ StreakHolds /\ Stab - streakAge <= Waits

\* The face that is being watched will be matched again before idle_reset_
\* has passed since the last match, with a failure at the end as well.
MatchedInTime == faceAge + MatchDue + (IF MatchesNext THEN 0 ELSE 1) <= Idle

\* After a match the loop may stay away for so long.
LEMMA MatchedAgain ==
    ASSUME TypeOK, TypeOK', Grace >= 2, Idle' = Idle, glitched' = FALSE,
           faceAge' = 0, detectAge' = 0, streakAge' = Stab,
           NEW w \in Nat, w + Stab + 2 <= Idle, Waits' = w
    PROVE  MatchedInTime'
<1>1. Idle \in Nat
  BY SettingsAreTimes DEF TypeOK
<1> QED BY <1>1 DEF MatchedInTime, MatchDue, MatchesNext, StreakHolds, Longer

LEMMA MatchedInTimeMeans ==
    ASSUME TypeOK, MatchedInTime
    PROVE  faceAge <= Idle
<1>1. /\ Idle \in Nat /\ faceAge \in Nat /\ Waits \in Nat /\ detectAge \in Nat
      /\ Stab - streakAge \in Nat
  BY SettingsAreTimes DEF TypeOK, Waits, Longer
<1> QED BY <1>1 DEF MatchedInTime, MatchDue, MatchesNext, StreakHolds, Longer

\* Time and iterations without a match keep the promise.
LEMMA MatchedInTimeKept ==
    ASSUME TypeOK, MatchedInTime, Grace >= 2, view # Nobody, Idle' = Idle,
           Tick \/ Blocked \/ NoDetection \/ Stabilizing \/ EmbedFailure
    PROVE  MatchedInTime'
<1>1. /\ Idle \in Nat /\ Stab \in Nat /\ Grace \in Nat
      /\ faceAge \in 0..Idle
      /\ detectAge \in 0..(Grace + 1)
      /\ streakAge \in 0..Stab
      /\ busy \in Nat /\ blockLeft \in Nat
  BY SettingsAreTimes, MatchedInTimeMeans DEF TypeOK
<1>2. CASE Tick
  <2>1. /\ busy > 0 /\ busy' = busy - 1
        /\ blockLeft' = IF blockLeft > 0 THEN blockLeft - 1 ELSE 0
        /\ faceAge' = faceAge + 1
        /\ streakAge' = IF streakAge < Stab THEN streakAge + 1 ELSE Stab
        /\ detectAge' = IF detectAge < Grace + 1 THEN detectAge + 1 ELSE Grace + 1
        /\ glitched' = glitched
    BY <1>1, <1>2 DEF Tick, Later, Sooner
  <2> QED BY <1>1, <2>1 DEF MatchedInTime, MatchDue, MatchesNext, StreakHolds, Longer, Waits
<1>3. CASE Blocked
  <2>1. /\ busy = 0 /\ blockLeft > 0 /\ busy' = 1
        /\ UNCHANGED <<blockLeft, faceAge, streakAge, detectAge, glitched>>
    BY <1>3 DEF Blocked, loopVars
  <2> QED BY <1>1, <2>1 DEF MatchedInTime, MatchDue, MatchesNext, StreakHolds, Longer, Waits
<1>4. CASE NoDetection
  <2>1. /\ busy = 0 /\ blockLeft = 0 /\ busy' = 1
        /\ glitched = FALSE /\ glitched' = TRUE
        /\ UNCHANGED <<blockLeft, faceAge, streakAge, detectAge>>
    BY <1>4 DEF NoDetection, Looks, Glitch, loopVars, TypeOK
  <2> QED BY <1>1, <2>1 DEF MatchedInTime, MatchDue, MatchesNext, StreakHolds, Longer, Waits
<1>5. CASE Stabilizing
  <2>1. /\ busy = 0 /\ blockLeft = 0 /\ busy' = 1 /\ blockLeft' = 0
        /\ faceAge' = faceAge /\ glitched' = FALSE /\ detectAge' = 0
        /\ streakAge' = IF detectAge > Grace THEN 0 ELSE streakAge
        /\ streakAge' < Stab
    BY <1>5 DEF Stabilizing, Detected, Looks
  <2> QED BY <1>1, <2>1 DEF MatchedInTime, MatchDue, MatchesNext, StreakHolds, Longer, Waits
<1>6. CASE EmbedFailure
  <2>1. /\ busy = 0 /\ blockLeft = 0 /\ busy' = 1 /\ blockLeft' = 0
        /\ faceAge' = faceAge /\ glitched = FALSE /\ glitched' = TRUE
        /\ detectAge' = 0 /\ streakAge' = Stab
    BY <1>6 DEF EmbedFailure, Stabilized, Detected, Looks, Glitch, TypeOK
  <2> QED BY <1>1, <2>1 DEF MatchedInTime, MatchDue, MatchesNext, StreakHolds, Longer, Waits
<1> QED BY <1>2, <1>3, <1>4, <1>5, <1>6

-----------------------------------------------------------------------------
(* The throttle of Unknown events.                                         *)

\* idle_reset_ outlasts what follows a denial (the cooldown or the beep), the
\* stabilization and a failure before and after it; the grace bridges a
\* failure.
IdleOutlastsDenial ==
    /\ Grace >= 2
    /\ \A s \in Settings : Longer(Beep + 1, Cooldown) + Stab + 2 <= s.idle

\* While the throttle of a stranger's event runs, the loop remembers it.
ThrottleInv ==
    /\ TypeOK
    /\ (view \in Strangers /\ unknownGap < Throttle) =>
            /\ last = Unknown
            /\ unknownAge = unknownGap
            /\ MatchedInTime

LEMMA ThrottleStep ==
    ASSUME IdleOutlastsDenial, ThrottleInv, [Next]_vars
    PROVE  /\ ThrottleInv'
           /\ (event = Nobody /\ event' = Unknown /\ view \in Strangers) => unknownGap = Throttle
<1>0. /\ TypeOK /\ TypeOK' /\ Idle' = Idle /\ Idle \in Nat /\ Grace >= 2
      /\ Longer(Beep + 1, Cooldown) + Stab + 2 <= Idle
      /\ unknownGap \in 0..Throttle
      /\ view \in Strangers => view # Nobody /\ view \notin Employees
      /\ Unknown # Nobody
  BY TypeNext, SettingsAreKept, SettingsAreTimes, PeopleAssumption
     DEF ThrottleInv, IdleOutlastsDenial, TypeOK, Idle
<1>1. CASE \E who \in People \cup {Nobody} : Move(who)
  <2>1. unknownGap' = Throttle /\ event' = Nobody
    BY <1>1 DEF Move
  <2> QED BY <1>0, <2>1 DEF ThrottleInv
<1>2. CASE Tick
  <2>1. view' = view /\ last' = last /\ event' = Nobody
    BY <1>2 DEF Tick
  <2>2. /\ unknownGap' = Later(unknownGap, Throttle)
        /\ unknownAge' = Later(unknownAge, Throttle)
    BY <1>2 DEF Tick
  <2>3. unknownGap' < Throttle => unknownGap < Throttle
    BY <1>0, <2>2 DEF Later
  <2>4. view \in Strangers /\ unknownGap < Throttle => unknownAge' = unknownGap' /\ MatchedInTime'
    BY <1>0, <1>2, <2>2, MatchedInTimeKept DEF ThrottleInv
  <2> QED BY <1>0, <2>1, <2>3, <2>4 DEF ThrottleInv
<1>3. CASE Blocked \/ NoDetection \/ Stabilizing \/ EmbedFailure
  <2>1. UNCHANGED <<view, last, event, unknownAge, unknownGap>>
    BY <1>3 DEF Blocked, NoDetection, Stabilizing, EmbedFailure, loopVars, historyVars
  <2> QED BY <1>0, <1>3, <2>1, MatchedInTimeKept DEF ThrottleInv
<1>4. CASE Grant \/ SameEmployee
  <2>1. view = view' /\ view \notin Strangers
    <3>1. \E e \in Employees : Matches(e)
      BY <1>4 DEF Grant, SameEmployee
    <3>2. view \in Employees
      BY <3>1, PeopleAssumption DEF Matches
    <3> QED BY <1>4, <3>2, <1>0 DEF Grant, SameEmployee, Seen
  <2> QED BY <1>0, <2>1 DEF ThrottleInv
<1>5. ASSUME view \in Strangers, Stabilized, Matches(Unknown)
      PROVE  /\ glitched' = FALSE /\ detectAge' = 0 /\ streakAge' = Stab
             /\ busy = 0 /\ blockLeft = 0
  BY <1>0, <1>5 DEF Stabilized, Detected, Looks, Matches
<1>6. ASSUME view \in Strangers, unknownGap < Throttle
      PROVE  Remembered = Unknown /\ unknownAge < Throttle
  <2>1. faceAge <= Idle
    BY <1>0, <1>6, MatchedInTimeMeans DEF ThrottleInv
  <2>2. ~(faceAge > Idle)
    BY <1>0, <2>1 DEF TypeOK
  <2> QED BY <1>6, <2>2 DEF ThrottleInv, Remembered
<1>7. CASE Deny
  <2>1. /\ Stabilized /\ Matches(Unknown) /\ ~Throttled
        /\ last' = Unknown /\ unknownAge' = 0 /\ unknownGap' = 0
        /\ blockLeft' = Cooldown /\ busy' = Beep + 1
        /\ faceAge' = 0 /\ view' = view
    BY <1>7 DEF Deny, Seen
  <2>2. Longer(Beep + 1, Cooldown) \in Nat /\ Waits' = Longer(Beep + 1, Cooldown)
    BY <2>1 DEF Waits, Longer
  <2>3. view \in Strangers => MatchedInTime'
    BY <1>0, <1>5, <2>1, <2>2, MatchedAgain
  <2>4. view \in Strangers => unknownGap = Throttle
    BY <1>0, <1>6, <2>1 DEF Throttled
  <2> QED BY <1>0, <2>1, <2>3, <2>4 DEF ThrottleInv
<1>8. CASE StillUnknown
  <2>1. /\ Stabilized /\ Matches(Unknown)
        /\ last' = Remembered
        /\ UNCHANGED <<view, unknownAge, unknownGap, blockLeft, event>>
        /\ busy' = 1 /\ faceAge' = 0
    BY <1>8 DEF StillUnknown, Seen, historyVars
  <2>2. view \in Strangers => Waits' = 1
    BY <1>5, <2>1 DEF Waits, Longer
  <2>3. 1 + Stab + 2 <= Idle
    BY <1>0 DEF Longer
  <2>4. view \in Strangers => MatchedInTime'
    BY <1>0, <1>5, <2>1, <2>2, <2>3, MatchedAgain
  <2> QED BY <1>0, <1>6, <2>1, <2>4 DEF ThrottleInv
<1>9. CASE UNCHANGED vars
  <2>1. UNCHANGED <<view, last, event, unknownAge, unknownGap, faceAge, streakAge,
                    detectAge, busy, blockLeft, glitched>>
    BY <1>9 DEF vars, loopVars, historyVars
  <2> QED BY <1>0, <2>1 DEF ThrottleInv, MatchedInTime, MatchDue, MatchesNext,
                                StreakHolds, Waits
<1> QED BY <1>1, <1>2, <1>3, <1>4, <1>7, <1>8, <1>9 DEF Next, Iteration

\* A stranger who stays gives one Unknown event per unknown_throttle_seconds,
\* for every throttle and whatever the glitches, provided idle_reset_ outlasts
\* a denial: otherwise the loop forgets it and emits the next one at once.
THEOREM UnknownsAreThrottled == IdleOutlastsDenial => (Spec => UnknownThrottled)
<1> SUFFICES ASSUME IdleOutlastsDenial PROVE Spec => UnknownThrottled
  OBVIOUS
<1>1. Init => ThrottleInv
  BY TypeInit DEF Init, ThrottleInv
<1>2. ThrottleInv /\ [Next]_vars => ThrottleInv'
  BY ThrottleStep
<1>3. ThrottleInv /\ [Next]_vars =>
        [event = Nobody /\ event' = Unknown /\ view \in Strangers => unknownGap = Throttle]_vars
  BY ThrottleStep
<1> QED BY <1>1, <1>2, <1>3, PTL DEF Spec, UnknownThrottled

-----------------------------------------------------------------------------
(* One Granted event in a stay.                                            *)

\* The settings OneGrantIfIdleIsLong is about.
GrantsOnce == Idle > Hold + Stab + Grace /\ "match" \notin Glitches

\* An employee who has been granted access is remembered as long as she stays.
GrantInv ==
    /\ TypeOK
    /\ GrantsOnce /\ grants > 0 =>
            /\ grants = 1
            /\ view \in Employees
            /\ last = view
            /\ MatchedInTime

LEMMA GrantStep ==
    ASSUME Grace >= 2, GrantInv, [Next]_vars
    PROVE  GrantInv'
<1>0. /\ TypeOK /\ TypeOK' /\ Idle' = Idle /\ Idle \in Nat /\ Hold \in Nat \ {0}
      /\ GrantsOnce' = GrantsOnce
      /\ grants \in 0..2
      /\ view \in Employees => view # Nobody /\ view # Unknown
  BY TypeNext, SettingsAreKept, PeopleAssumption
     DEF GrantInv, TypeOK, Idle, Hold, GrantsOnce, Glitches
<1> SUFFICES ASSUME GrantsOnce, grants' > 0
             PROVE  grants' = 1 /\ view' \in Employees /\ last' = view' /\ MatchedInTime'
  BY <1>0 DEF GrantInv
<1>1. Hold + Stab + 2 <= Idle /\ 1 + Stab + 2 <= Idle
  BY <1>0 DEF GrantsOnce
<1>2. CASE \E who \in People \cup {Nobody} : Move(who)
  BY <1>2 DEF Move
<1>3. CASE Tick \/ Blocked \/ NoDetection \/ Stabilizing \/ EmbedFailure
  <2>1. UNCHANGED <<view, last, grants>>
    BY <1>3 DEF Tick, Blocked, NoDetection, Stabilizing, EmbedFailure, loopVars,
                historyVars
  <2> QED BY <1>0, <1>3, <2>1, MatchedInTimeKept DEF GrantInv
<1>4. ASSUME NEW r, Stabilized, Matches(r), r \in Employees \/ view \in Employees
      PROVE  /\ r = view /\ view \in Employees /\ glitched' = FALSE
             /\ detectAge' = 0 /\ streakAge' = Stab /\ busy = 0 /\ blockLeft = 0
  BY <1>0, <1>4, PeopleAssumption
     DEF Stabilized, Detected, Looks, Matches, GrantsOnce, Glitch
<1>5. ASSUME grants > 0
      PROVE  Remembered = view
  <2>1. faceAge <= Idle /\ last = view
    BY <1>0, <1>5, MatchedInTimeMeans DEF GrantInv
  <2>2. ~(faceAge > Idle)
    BY <1>0, <2>1 DEF TypeOK
  <2> QED BY <2>1, <2>2 DEF Remembered
<1>6. CASE Grant
  <2>1. PICK e \in Employees : Matches(e) /\ Remembered # e /\ last' = e
    BY <1>6 DEF Grant
  <2>2. /\ Stabilized /\ view' = view /\ faceAge' = 0
        /\ blockLeft' = Hold /\ busy' = 1
        /\ grants' = IF grants < 2 THEN grants + 1 ELSE 2
    BY <1>6 DEF Grant, Seen
  <2>3. /\ e = view /\ view \in Employees /\ glitched' = FALSE
        /\ detectAge' = 0 /\ streakAge' = Stab
    BY <1>4, <2>1, <2>2
  <2>4. grants = 0
    BY <1>0, <1>5, <2>1, <2>3
  <2>5. Waits' = Hold
    BY <1>0, <2>2 DEF Waits, Longer
  <2>6. MatchedInTime'
    BY <1>0, <1>1, <2>2, <2>3, <2>5, MatchedAgain
  <2> QED BY <2>1, <2>2, <2>3, <2>4, <2>6
<1>7. CASE SameEmployee
  <2>1. /\ Stabilized /\ \E e \in Employees : Matches(e)
        /\ UNCHANGED <<view, last, grants, blockLeft>>
        /\ faceAge' = 0 /\ busy' = 1
    BY <1>7 DEF SameEmployee, Seen, historyVars
  <2>2. /\ glitched' = FALSE /\ detectAge' = 0 /\ streakAge' = Stab /\ blockLeft = 0
    BY <1>4, <2>1
  <2>3. Waits' = 1
    BY <2>1, <2>2 DEF Waits, Longer
  <2>4. MatchedInTime'
    BY <1>0, <1>1, <2>1, <2>2, <2>3, MatchedAgain
  <2> QED BY <1>0, <2>1, <2>4 DEF GrantInv
<1>8. CASE Deny \/ StillUnknown
  <2>1. Stabilized /\ Matches(Unknown) /\ grants' = grants
    BY <1>8 DEF Deny, StillUnknown, historyVars
  <2>2. view \notin Employees
    BY <1>0, <1>4, <2>1
  <2> QED BY <2>1, <2>2 DEF GrantInv
<1>9. CASE UNCHANGED vars
  <2>1. UNCHANGED <<view, last, grants, faceAge, streakAge, detectAge, busy,
                    blockLeft, glitched>>
    BY <1>9 DEF vars, loopVars, historyVars
  <2> QED BY <1>0, <2>1 DEF GrantInv, MatchedInTime, MatchDue, MatchesNext,
                                StreakHolds, Waits
<1> QED BY <1>2, <1>3, <1>6, <1>7, <1>8, <1>9 DEF Next, Iteration

\* An employee who stays gives one Granted event if idle_reset_ outlasts the
\* window, the stabilization and the grace, as long as nobody is misread and
\* the grace bridges a frame on which the detection failed.
THEOREM OneGrantWhenIdleIsLong == Grace >= 2 => (Spec => []OneGrantIfIdleIsLong)
<1> SUFFICES ASSUME Grace >= 2 PROVE Spec => []OneGrantIfIdleIsLong
  OBVIOUS
<1>1. Init => GrantInv
  BY TypeInit DEF Init, GrantInv
<1>2. GrantInv /\ [Next]_vars => GrantInv'
  BY GrantStep
<1>3. GrantInv => OneGrantIfIdleIsLong
  BY DEF GrantInv, TypeOK, GrantsOnce, OneGrantIfIdleIsLong
<1> QED BY <1>1, <1>2, <1>3, PTL DEF Spec

-----------------------------------------------------------------------------
(* An employee who stays is let in.                                        *)

\* When the match falls due does not move while there is no match, unless the
\* next look brings it.
LEMMA MatchDueKept ==
    ASSUME TypeOK, Grace >= 2, view # Nobody,
           Tick \/ Blocked \/ NoDetection \/ Stabilizing \/ EmbedFailure
    PROVE  /\ Tick => MatchDue > 0 /\ MatchDue' <= MatchDue - 1
           /\ Tick /\ MatchesNext => MatchesNext' /\ Waits > 0 /\ Waits' = Waits - 1
           /\ ~Tick => MatchDue' <= MatchDue \/ (MatchesNext' /\ Waits' = 1)
           /\ ~Tick /\ MatchesNext => MatchesNext' /\ Waits' = Waits
<1> USE DEF MatchDue, MatchesNext, StreakHolds, Longer, Waits
<1>1. /\ detectAge \in 0..(Grace + 1)
      /\ streakAge \in 0..Stab
      /\ busy \in Nat /\ blockLeft \in Nat
  BY SettingsAreTimes DEF TypeOK
<1>2. CASE Tick
  <2>1. /\ busy > 0 /\ busy' = busy - 1
        /\ blockLeft' = IF blockLeft > 0 THEN blockLeft - 1 ELSE 0
        /\ streakAge' = IF streakAge < Stab THEN streakAge + 1 ELSE Stab
        /\ detectAge' = IF detectAge < Grace + 1 THEN detectAge + 1 ELSE Grace + 1
        /\ glitched' = glitched
    BY <1>1, <1>2 DEF Tick, Later, Sooner
  <2> QED BY <1>1, <1>2, <2>1
<1>3. CASE Blocked
  <2>1. /\ busy = 0 /\ blockLeft > 0 /\ busy' = 1
        /\ UNCHANGED <<blockLeft, streakAge, detectAge, glitched>>
    BY <1>3 DEF Blocked, loopVars
  <2>2. ~Tick
    BY <2>1 DEF Tick
  <2> QED BY <1>1, <2>1, <2>2
<1>4. CASE NoDetection
  <2>1. /\ busy = 0 /\ blockLeft = 0 /\ busy' = 1
        /\ glitched = FALSE /\ glitched' = TRUE
        /\ UNCHANGED <<blockLeft, streakAge, detectAge>>
    BY <1>4 DEF NoDetection, Looks, Glitch, loopVars, TypeOK
  <2>2. ~Tick
    BY <2>1 DEF Tick
  <2> QED BY <1>1, <2>1, <2>2
<1>5. CASE Stabilizing
  <2>1. /\ busy = 0 /\ blockLeft = 0 /\ busy' = 1 /\ blockLeft' = 0
        /\ glitched' = FALSE /\ detectAge' = 0
        /\ streakAge' = IF detectAge > Grace THEN 0 ELSE streakAge
        /\ streakAge' < Stab
    BY <1>5 DEF Stabilizing, Detected, Looks
  <2>2. ~Tick
    BY <2>1 DEF Tick
  <2> QED BY <1>1, <2>1, <2>2
<1>6. CASE EmbedFailure
  <2>1. /\ busy = 0 /\ blockLeft = 0 /\ busy' = 1 /\ blockLeft' = 0
        /\ glitched = FALSE /\ glitched' = TRUE
        /\ detectAge' = 0 /\ streakAge' = Stab
    BY <1>6 DEF EmbedFailure, Stabilized, Detected, Looks, Glitch, TypeOK
  <2>2. ~Tick
    BY <2>1 DEF Tick
  <2> QED BY <1>1, <2>1, <2>2
<1> QED BY <1>2, <1>3, <1>4, <1>5, <1>6

\* How long the loop may look away after a denial.
Denial == Longer(Beep + 1, Cooldown)

\* The settings under which ServedInTime is proved: the grace bridges a
\* failure, a face is stabilized at all, idle_reset_ and the throttle outlast a
\* denial and a stabilization, the window outlasts the grace, and the stay is
\* long enough for the window or the denial of somebody else, a misreading and
\* two stabilizations.
StaysLongEnough ==
    /\ Grace >= 2
    /\ Stab > 0
    /\ Denial + Stab < Throttle
    /\ \A s \in Settings :
        /\ Denial + Stab <= s.idle
        /\ s.hold > Grace
        /\ Longer(s.hold, Denial) + Denial + 2 * Stab + 2 < Patience

\* The loop looks away no longer than after a decision.
WaitsAreBounded == Waits <= Longer(Hold, Denial)

\* With a window that outlasts idle_reset_, an employee is forgotten before she
\* can be matched again.
ForgotBeforeMatch ==
    last \in Employees =>
        \/ faceAge > Idle
        \/ faceAge + blockLeft >= Idle /\ detectAge + blockLeft > Grace
        \/ faceAge >= Idle /\ busy > 0

\* The stay of an employee who has not been let in ends in time: the match is
\* due, and after a misreading a second one; or the misreading has been
\* reported and the next one will be throttled; or the next match is right.
GrantDue ==
    \/ viewFor + MatchDue + Denial + Stab + 1 < Patience
    \/ /\ last = Unknown
       /\ faceAge + MatchDue <= Idle
       /\ unknownAge + MatchDue < Throttle
       /\ viewFor + MatchDue + 1 < Patience
    \/ MatchesNext /\ viewFor + Waits < Patience

ServiceInv ==
    /\ TypeOK
    /\ Hold >= Idle =>
        /\ WaitsAreBounded
        /\ ForgotBeforeMatch
        /\ view \in Employees /\ grants = 0 => GrantDue

LEMMA WaitsStep ==
    ASSUME TypeOK, WaitsAreBounded, [Next]_vars
    PROVE  WaitsAreBounded'
<1> USE DEF WaitsAreBounded, Waits, Longer
<1>0. /\ Hold \in Nat \ {0} /\ Hold' = Hold /\ Denial' = Denial
      /\ Denial \in Nat /\ Denial >= Beep + 1 /\ Denial >= Cooldown
      /\ busy \in Nat /\ blockLeft \in Nat
  BY SettingsAreKept, SettingsAreTimes DEF TypeOK, Denial, Hold
<1>1. CASE \E who \in People \cup {Nobody} : Move(who)
  BY <1>0, <1>1 DEF Move, loopVars
<1>2. CASE Tick
  <2>1. busy' = busy - 1 /\ blockLeft' = IF blockLeft > 0 THEN blockLeft - 1 ELSE 0
    BY <1>2 DEF Tick, Sooner
  <2> QED BY <1>0, <2>1
<1>3. CASE Blocked \/ NoDetection \/ Stabilizing \/ EmbedFailure \/ SameEmployee \/ StillUnknown
  <2>1. busy' = 1 /\ blockLeft' = blockLeft
    BY <1>3 DEF Blocked, NoDetection, Stabilizing, EmbedFailure, SameEmployee,
                StillUnknown, loopVars
  <2> QED BY <1>0, <2>1
<1>4. CASE Grant
  <2>1. busy' = 1 /\ blockLeft' = Hold
    BY <1>4 DEF Grant
  <2> QED BY <1>0, <2>1
<1>5. CASE Deny
  <2>1. busy' = Beep + 1 /\ blockLeft' = Cooldown
    BY <1>5 DEF Deny
  <2> QED BY <1>0, <2>1
<1>6. CASE UNCHANGED vars
  BY <1>0, <1>6 DEF vars, loopVars
<1> QED BY <1>1, <1>2, <1>3, <1>4, <1>5, <1>6 DEF Next, Iteration

\* What matching says about the memory.
LEMMA NeverSameEmployee ==
    ASSUME TypeOK, Stab > 0, ForgotBeforeMatch, Stabilized
    PROVE  Remembered \notin Employees
<1>1. /\ busy = 0 /\ blockLeft = 0 /\ detectAge <= Grace
  BY DEF TypeOK, Stabilized, Detected, Looks
<1>2. last \in Employees => faceAge > Idle
  BY <1>1 DEF ForgotBeforeMatch, TypeOK
<1> QED BY <1>2, PeopleAssumption DEF Remembered

LEMMA ForgotStep ==
    ASSUME TypeOK, Stab > 0, Hold >= Idle, Hold > Grace, ForgotBeforeMatch, [Next]_vars
    PROVE  ForgotBeforeMatch'
<1>0. /\ Hold \in Nat /\ Idle \in Nat /\ Idle' = Idle
      /\ busy \in Nat /\ blockLeft \in Nat
      /\ faceAge \in 0..(Idle + 1) /\ detectAge \in 0..(Grace + 1)
      /\ streakAge \in 0..Stab
  BY SettingsAreKept, SettingsAreTimes DEF TypeOK
<1>1. CASE \E who \in People \cup {Nobody} : Move(who)
  BY <1>0, <1>1 DEF Move, loopVars, ForgotBeforeMatch
<1>2. CASE Tick
  <2>1. /\ busy > 0 /\ busy' = busy - 1 /\ last' = last
        /\ blockLeft' = IF blockLeft > 0 THEN blockLeft - 1 ELSE 0
        /\ faceAge' = IF faceAge < Idle + 1 THEN faceAge + 1 ELSE Idle + 1
        /\ detectAge' = IF detectAge < Grace + 1 THEN detectAge + 1 ELSE Grace + 1
    BY <1>2 DEF Tick, Later, Sooner
  <2> QED BY <1>0, <2>1 DEF ForgotBeforeMatch
<1>3. CASE Blocked \/ NoDetection
  <2>1. /\ busy = 0 /\ busy' = 1
        /\ UNCHANGED <<last, blockLeft, faceAge, detectAge>>
    BY <1>3 DEF Blocked, NoDetection, Looks, loopVars
  <2> QED BY <1>0, <2>1 DEF ForgotBeforeMatch
<1>4. CASE Stabilizing
  <2>1. /\ busy = 0 /\ blockLeft = 0 /\ busy' = 1 /\ UNCHANGED <<last, faceAge>>
    BY <1>4 DEF Stabilizing, Detected, Looks
  <2> QED BY <1>0, <2>1 DEF ForgotBeforeMatch
<1>5. CASE EmbedFailure
  <2>1. /\ busy = 0 /\ blockLeft = 0 /\ UNCHANGED <<last, faceAge>>
        /\ detectAge <= Grace
    BY <1>0, <1>5 DEF EmbedFailure, Stabilized, Detected, Looks
  <2> QED BY <1>0, <2>1 DEF ForgotBeforeMatch
<1>6. CASE Grant
  <2>1. blockLeft' = Hold /\ faceAge' = 0 /\ detectAge' = 0
    BY <1>6 DEF Grant, Seen, Stabilized, Detected
  <2> QED BY <1>0, <2>1 DEF ForgotBeforeMatch
<1>7. ~SameEmployee
  BY NeverSameEmployee DEF SameEmployee
<1>8. CASE Deny \/ StillUnknown
  <2>1. last' = Unknown
    BY <1>8 DEF Deny, StillUnknown, Throttled
  <2> QED BY <2>1, PeopleAssumption DEF ForgotBeforeMatch
<1>9. CASE UNCHANGED vars
  BY <1>0, <1>9 DEF vars, loopVars, ForgotBeforeMatch
<1> QED BY <1>1, <1>2, <1>3, <1>4, <1>5, <1>6, <1>7, <1>8, <1>9 DEF Next, Iteration

LEMMA GrantDueStep ==
    ASSUME StaysLongEnough, ServiceInv, Hold >= Idle, [Next]_vars,
           view' \in Employees, grants' = 0
    PROVE  GrantDue'
<1>0. /\ TypeOK /\ TypeOK' /\ Grace >= 2 /\ Stab > 0
      /\ Hold \in Nat /\ Idle \in Nat /\ Idle' = Idle
      /\ Denial \in Nat /\ Denial' = Denial /\ Denial > 0
      /\ Denial + Stab < Throttle /\ Denial + Stab <= Idle
      /\ Longer(Hold, Denial) + Denial + 2 * Stab + 2 < Patience
      /\ \A e \in Employees : e # Nobody /\ e # Unknown
  BY TypeNext, SettingsAreKept, SettingsAreTimes, PeopleAssumption
     DEF ServiceInv, StaysLongEnough, TypeOK, Hold, Idle, Denial, Longer
<1>1. /\ busy \in Nat /\ blockLeft \in Nat /\ Waits \in Nat
      /\ faceAge \in Nat /\ unknownAge \in 0..Throttle /\ viewFor \in 0..Patience
      /\ detectAge \in Nat /\ streakAge \in 0..Stab
      /\ MatchDue \in Nat /\ Waits <= MatchDue
  BY <1>0 DEF TypeOK, Waits, MatchDue, Longer
<1>m. MatchDue' \in Nat
  <2>1. /\ busy' \in Nat /\ blockLeft' \in Nat
        /\ streakAge' \in 0..Stab /\ Stab \in Nat
    BY <1>0 DEF TypeOK
  <2>2. PICK w \in Nat : Waits' = w
    BY <2>1 DEF Waits, Longer
  <2>3. PICK s \in 0..Stab : streakAge' = s
    BY <2>1
  <2>4. Stab \in Nat /\ Stab - s \in Nat
    BY <2>1
  <2>5. MatchDue' \in {w, Stab - s, w + Stab, w + Stab + 1}
    BY <2>2, <2>3 DEF MatchDue, Longer
  <2> QED BY <2>4, <2>5
<1>2. CASE \E who \in People \cup {Nobody} : Move(who)
  <2>1. viewFor' = 0 /\ MatchDue' = MatchDue
    BY <1>2 DEF Move, loopVars, MatchDue, StreakHolds, Waits
  <2>2. Waits <= Longer(Hold, Denial)
    BY DEF ServiceInv, WaitsAreBounded
  <2>3. MatchDue <= Longer(Hold, Denial) + Stab + 1
    BY <1>0, <1>1, <2>2 DEF MatchDue, Longer
  <2>4. Longer(Hold, Denial) \in Nat
    BY <1>0 DEF Longer
  <2> QED BY <1>0, <1>1, <2>1, <2>3, <2>4 DEF GrantDue
<1>3. ASSUME view' = view, grants' = grants
      PROVE  GrantDue /\ view # Nobody
  BY <1>0, <1>3 DEF ServiceInv
<1>4. CASE Tick
  <2>1. view' = view /\ grants' = grants /\ last' = last
    BY <1>4 DEF Tick
  <2>2. /\ faceAge' <= faceAge + 1 /\ unknownAge' <= unknownAge + 1
        /\ viewFor' <= viewFor + 1
        /\ faceAge' \in Nat /\ unknownAge' \in Nat /\ viewFor' \in Nat
    BY <1>0, <1>1, <1>4 DEF Tick, Later, TypeOK
  <2>3. MatchDue > 0 /\ MatchDue' <= MatchDue - 1
    BY <1>0, <1>3, <1>4, <2>1, MatchDueKept
  <2>4. MatchesNext => MatchesNext' /\ Waits > 0 /\ Waits' = Waits - 1
    BY <1>0, <1>3, <1>4, <2>1, MatchDueKept
  <2>5. PICK f, u, v, m \in Nat :
          /\ faceAge' = f /\ unknownAge' = u /\ viewFor' = v /\ MatchDue' = m
          /\ f <= faceAge + 1 /\ u <= unknownAge + 1 /\ v <= viewFor + 1
          /\ m <= MatchDue - 1
    BY <1>m, <2>2, <2>3
  <2> HIDE DEF MatchDue
  <2>6. CASE viewFor + MatchDue + Denial + Stab + 1 < Patience
    BY <1>0, <1>1, <2>3, <2>5, <2>6 DEF GrantDue
  <2>7. CASE /\ last = Unknown
             /\ faceAge + MatchDue <= Idle
             /\ unknownAge + MatchDue < Throttle
             /\ viewFor + MatchDue + 1 < Patience
    BY <1>0, <1>1, <2>1, <2>3, <2>5, <2>7 DEF GrantDue
  <2>8. CASE MatchesNext /\ viewFor + Waits < Patience
    BY <1>1, <2>4, <2>5, <2>8 DEF GrantDue
  <2> QED BY <1>3, <2>1, <2>6, <2>7, <2>8 DEF GrantDue
<1>5. CASE Blocked \/ NoDetection \/ Stabilizing \/ EmbedFailure
  <2>1. /\ UNCHANGED <<view, grants, last, faceAge, unknownAge, viewFor>>
        /\ ~Tick
    BY <1>5 DEF Blocked, NoDetection, Stabilizing, EmbedFailure, loopVars, historyVars,
                Tick, Looks, Stabilized, Detected
  <2>2. \/ MatchDue' <= MatchDue
        \/ MatchesNext' /\ Waits' = 1
    BY <1>0, <1>3, <1>5, <2>1, MatchDueKept
  <2>3. MatchesNext => MatchesNext' /\ Waits' = Waits
    BY <1>0, <1>3, <1>5, <2>1, MatchDueKept
  <2>4. CASE MatchesNext' /\ Waits' = 1 /\ ~MatchesNext
    BY <1>0, <1>1, <1>3, <2>1, <2>4 DEF GrantDue
  <2>5. CASE MatchDue' <= MatchDue
    <3>1. PICK m \in Nat : MatchDue' = m /\ m <= MatchDue
      BY <1>m, <2>5
    <3> QED BY <1>0, <1>1, <1>3, <2>1, <2>3, <3>1 DEF GrantDue
  <2>6. CASE MatchesNext
    BY <1>0, <1>1, <1>3, <2>1, <2>2, <2>3, <2>5, <2>6 DEF GrantDue
  <2> QED BY <2>2, <2>4, <2>5, <2>6
<1>6. ~Grant
  BY <1>0 DEF Grant, TypeOK
<1>7. ~SameEmployee
  BY <1>0, NeverSameEmployee DEF SameEmployee, ServiceInv
<1>8. CASE Deny \/ StillUnknown
  <2>1. /\ Stabilized /\ Matches(Unknown) /\ view' = view /\ grants' = grants
        /\ faceAge' = 0 /\ viewFor' = viewFor
    BY <1>8 DEF Deny, StillUnknown, Seen, historyVars
  <2>2. GrantDue /\ view \in Employees /\ ~glitched /\ glitched' = TRUE
    BY <1>0, <1>3, <2>1 DEF Matches, Glitch
  <2>3. /\ busy = 0 /\ blockLeft = 0 /\ detectAge' = 0 /\ streakAge' = Stab
    BY <2>1 DEF Stabilized, Detected, Looks
  <2>4. CASE StillUnknown
    <3>1. busy' = 1 /\ blockLeft' = 0
      BY <2>3, <2>4 DEF StillUnknown
    <3>2. MatchesNext' /\ Waits' = 1
      BY <1>0, <2>2, <2>3, <3>1 DEF MatchesNext, StreakHolds, Waits, Longer
    <3>3. ~MatchesNext
      BY <2>2 DEF MatchesNext
    <3> QED BY <1>0, <1>1, <2>1, <2>2, <3>2, <3>3 DEF GrantDue
  <2>5. CASE Deny
    <3>1. /\ busy' = Beep + 1 /\ blockLeft' = Cooldown /\ last' = Unknown
          /\ unknownAge' = 0 /\ ~Throttled
      BY <2>5 DEF Deny
    <3>2. ~(last = Unknown /\ faceAge + MatchDue <= Idle /\ unknownAge + MatchDue < Throttle)
      BY <1>0, <1>1, <3>1 DEF Throttled, Remembered
    <3>3. viewFor + MatchDue + Denial + Stab + 1 < Patience
      BY <2>2, <3>2 DEF GrantDue, MatchesNext
    <3>4. Waits' = Denial
      BY <3>1 DEF Waits, Denial
    <3>5. MatchDue' <= Denial + Stab
      BY <1>0, <2>2, <2>3, <3>4 DEF MatchDue, Longer
    <3>6. PICK m \in Nat : MatchDue' = m /\ m <= Denial + Stab
      BY <1>m, <3>5
    <3> QED BY <1>0, <1>1, <2>1, <3>1, <3>3, <3>6 DEF GrantDue
  <2> QED BY <1>8, <2>4, <2>5
<1>9. CASE UNCHANGED vars
  <2>1. UNCHANGED <<view, grants, last, faceAge, unknownAge, viewFor, streakAge,
                    detectAge, busy, blockLeft, glitched>>
    BY <1>9 DEF vars, loopVars, historyVars
  <2> QED BY <1>0, <1>3, <2>1 DEF GrantDue, MatchDue, MatchesNext, StreakHolds, Waits
<1> QED BY <1>2, <1>4, <1>5, <1>6, <1>7, <1>8, <1>9 DEF Next, Iteration

\* An employee who comes is let in while she stays, within the window or the
\* denial of whoever was there before, one misreading and two stabilizations,
\* whatever the glitches, if the window outlasts idle_reset_.
THEOREM EmployeesAreServed == StaysLongEnough => (Spec => []ServedInTime)
<1> SUFFICES ASSUME StaysLongEnough PROVE Spec => []ServedInTime
  OBVIOUS
<1>1. ASSUME Init PROVE ServiceInv
  <2>1. TypeOK /\ view \notin Employees /\ last \notin Employees
    BY <1>1, TypeInit, PeopleAssumption DEF Init
  <2>2. WaitsAreBounded
    <3>1. Hold \in Nat /\ Denial \in Nat
      BY <2>1, SettingsAreTimes DEF TypeOK, Denial, Longer
    <3> QED BY <1>1, <3>1 DEF Init, WaitsAreBounded, Waits, Longer
  <2> QED BY <2>1, <2>2 DEF ServiceInv, ForgotBeforeMatch
<1>2. ASSUME ServiceInv, [Next]_vars PROVE ServiceInv'
  <2>1. TypeOK /\ TypeOK' /\ Hold' = Hold /\ Idle' = Idle
    BY <1>2, TypeNext, SettingsAreKept DEF ServiceInv
  <2>2. Stab > 0 /\ Hold > Grace
    BY <2>1 DEF StaysLongEnough, TypeOK, Hold
  <2>3. Hold >= Idle => WaitsAreBounded' /\ ForgotBeforeMatch'
    BY <1>2, <2>1, <2>2, WaitsStep, ForgotStep DEF ServiceInv
  <2>4. Hold >= Idle /\ view' \in Employees /\ grants' = 0 => GrantDue'
    BY <1>2, GrantDueStep
  <2> QED BY <2>1, <2>3, <2>4 DEF ServiceInv
<1>3. ASSUME ServiceInv PROVE ServedInTime
  <2> SUFFICES ASSUME Hold >= Idle, view \in Employees, viewFor = Patience, ~(grants > 0)
               PROVE  FALSE
    BY DEF ServedInTime
  <2>1. TypeOK /\ grants = 0
    BY <1>3 DEF ServiceInv, TypeOK
  <2>2. GrantDue
    BY <1>3, <2>1 DEF ServiceInv
  <2>3. MatchDue \in Nat /\ Waits \in Nat /\ Denial \in Nat
    BY <2>1 DEF TypeOK, MatchDue, Waits, Denial, Longer
  <2> QED BY <2>2, <2>3 DEF GrantDue
<1> QED BY <1>1, <1>2, <1>3, PTL DEF Spec

=============================================================================
