-------------------------- MODULE Turnstile_proofs --------------------------
(***************************************************************************)
(* Proofs about Turnstile, for every duration.  Those of the first four    *)
(* parts hold for any timing of the two threads (Prompt or not), those of  *)
(* the last three when no thread is delayed (Prompt).                      *)
(***************************************************************************)
EXTENDS Turnstile, TLAPS

USE DurationsAssumption

-----------------------------------------------------------------------------
(* The clock.                                                              *)

LEMMA LessIsBounded ==
    ASSUME NEW limit \in Nat, NEW left \in 0..limit
    PROVE  Less(left) \in 0..limit
BY DEF Less

LEMMA LessIsMonotonic ==
    ASSUME NEW a \in Nat, NEW b \in Nat, a <= b
    PROVE  Less(a) <= Less(b)
BY DEF Less

LEMMA LessVanishes ==
    ASSUME NEW a \in Nat, a = 0
    PROVE  Less(a) = 0
BY DEF Less

LEMMA MoreIsBounded ==
    ASSUME NEW limit \in Nat, NEW time \in 0..limit
    PROVE  More(time, limit) \in 0..limit
BY DEF More

-----------------------------------------------------------------------------
(* Type correctness.                                                       *)

LEMMA TypeInit == Init => TypeOK
<1> SUFFICES ASSUME Init PROVE TypeOK
  OBVIOUS
<1>1. /\ 0 \in 0..Hold /\ Hold \in 0..Hold
      /\ 0 \in 0..Close /\ Close \in 0..Close
      /\ 0 \in 0..Pulse /\ 0 \in 0..(Close + Pulse)
  OBVIOUS
<1> QED BY <1>1 DEF Init, TypeOK, WorkerSteps, CallerSteps

LEMMA ClosingLeftIsShort == TypeOK => ClosingLeft \in 0..(Close + Pulse)
BY DEF TypeOK, ClosingLeft

LEMMA TypeNext == TypeOK /\ [Next]_vars => TypeOK'
<1> SUFFICES ASSUME TypeOK, [Next]_vars PROVE TypeOK'
  OBVIOUS
<1> USE DEF TypeOK, WorkerSteps, CallerSteps
<1>1. CASE Worker
  <2>1. CASE ClosingTest \/ LoopTest \/ Opened
    BY <2>1 DEF ClosingTest, LoopTest, Opened, UnlessStopped, timeVars, historyVars
  <2>2. CASE ClosingClock \/ ClosingPulseEnd \/ Block
    BY <2>2 DEF ClosingClock, ClosingPulseEnd, Block, timeVars, historyVars
  <2>3. CASE ClosingEdge \/ OpenEdge
    <3>1. late' \in Nat /\ closedFor' \in 0..Close
      BY <2>3 DEF ClosingEdge, OpenEdge, StartPulse
    <3> QED BY <2>3, <3>1 DEF ClosingEdge, OpenEdge, StartPulse
  <2>4. CASE EvaluatePredicate \/ OpenPulseEnd
    BY <2>4 DEF EvaluatePredicate, OpenPulseEnd, historyVars
  <2>5. CASE OpenTest \/ OpenClock
    BY <2>5 DEF OpenTest, OpenClock, StartClosing, historyVars
  <2> QED BY <1>1, <2>1, <2>2, <2>3, <2>4, <2>5 DEF Worker
<1>2. CASE SpuriousWakeup
  BY <1>2 DEF SpuriousWakeup, timeVars, historyVars
<1>3. CASE Caller
  <2>1. CASE GrantAccess
    BY <2>1 DEF GrantAccess, historyVars
  <2>2. CASE ArmWindow
    BY <2>2, ClosingLeftIsShort DEF ArmWindow
  <2>3. CASE NotifyGrant
    BY <2>3 DEF NotifyGrant, NotifyAll, timeVars, historyVars
  <2>4. CASE StoreStop
    BY <2>4 DEF StoreStop, timeVars, historyVars
  <2>5. CASE NotifyStop
    BY <2>5 DEF NotifyStop, NotifyAll, timeVars, historyVars
  <2>6. CASE Join
    BY <2>6 DEF Join, timeVars, historyVars
  <2> QED BY <1>3, <2>1, <2>2, <2>3, <2>4, <2>5, <2>6 DEF Caller
<1>4. CASE Tick
  <2>1. /\ windowLeft' \in 0..Hold
        /\ targetLeft' \in 0..Hold
        /\ deadlineLeft' \in 0..Close
        /\ pulseLeft' \in 0..Pulse
        /\ newLeft' \in 0..Hold
    BY <1>4, LessIsBounded DEF Tick
  <2>2. closedFor' \in 0..Close /\ openFor' \in 0..Hold
    BY <1>4, MoreIsBounded DEF Tick
  <2> QED BY <1>4, <2>1, <2>2 DEF Tick
<1>5. CASE Terminated \/ UNCHANGED vars
  BY <1>5 DEF Terminated, vars, timeVars, historyVars
<1> QED BY <1>1, <1>2, <1>3, <1>4, <1>5 DEF Next

\* The time points never lie further ahead than the durations they were
\* computed from: in particular repeated grants do not pile up.
THEOREM TurnstileTypeCorrect == Spec => []TypeOK
BY TypeInit, TypeNext, PTL DEF Spec

-----------------------------------------------------------------------------
(* Wakeups and windows.                                                    *)

\* The worker that found the predicate false still holds the mutex, so no
\* window can be armed before it is on the queue of cv_.
NotBlindedByLock == worker = "blocking" => windowLeft = 0

WindowInv == TypeOK /\ NotBlindedByLock /\ NoLostGrant /\ TargetInWindow

LEMMA WindowInit == Init => WindowInv
BY TypeInit DEF Init, WindowInv, NotBlindedByLock, NoLostGrant, TargetInWindow

LEMMA WindowNext == WindowInv /\ [Next]_vars => WindowInv'
<1> SUFFICES ASSUME WindowInv, [Next]_vars
             PROVE  (NotBlindedByLock /\ NoLostGrant /\ TargetInWindow)'
  BY TypeNext DEF WindowInv
<1>t. TypeOK
  BY DEF WindowInv
<1>n. /\ windowLeft \in Nat /\ targetLeft \in Nat
      /\ Hold \in Nat
  BY <1>t DEF TypeOK
<1> USE DEF WindowInv, NotBlindedByLock, NoLostGrant, TargetInWindow
<1>1. CASE Worker
  <2>1. CASE ClosingTest \/ LoopTest \/ Opened
    BY <2>1 DEF ClosingTest, LoopTest, Opened, UnlessStopped, timeVars
  <2>2. CASE ClosingClock \/ ClosingPulseEnd \/ Block
    BY <2>2 DEF ClosingClock, ClosingPulseEnd, Block, timeVars
  <2>3. CASE ClosingEdge \/ OpenEdge
    BY <2>3 DEF ClosingEdge, OpenEdge, StartPulse
  <2>4. CASE EvaluatePredicate \/ OpenPulseEnd
    BY <2>4, <1>n DEF EvaluatePredicate, OpenPulseEnd
  <2>5. CASE OpenTest \/ OpenClock
    BY <2>5 DEF OpenTest, OpenClock, StartClosing
  <2> QED BY <1>1, <2>1, <2>2, <2>3, <2>4, <2>5 DEF Worker
<1>2. CASE SpuriousWakeup
  BY <1>2 DEF SpuriousWakeup, timeVars
<1>3. CASE Caller
  <2>1. CASE GrantAccess
    BY <2>1 DEF GrantAccess
  <2>2. CASE ArmWindow
    <3>1. windowLeft' >= windowLeft
      BY <2>2, <1>n, <1>t DEF ArmWindow, TypeOK
    <3>2. /\ worker' = worker /\ worker # "blocking"
          /\ targetLeft' = targetLeft /\ stop' = stop
          /\ caller' = "notify"
          /\ windowLeft' \in Nat
      BY <2>2, <1>n, <1>t DEF ArmWindow, TypeOK
    <3> QED BY <3>1, <3>2, <1>n
  <2>3. CASE NotifyGrant \/ NotifyStop
    BY <2>3 DEF NotifyGrant, NotifyStop, NotifyAll, timeVars
  <2>4. CASE StoreStop \/ Join
    BY <2>4 DEF StoreStop, Join, timeVars
  <2> QED BY <1>3, <2>1, <2>2, <2>3, <2>4 DEF Caller
<1>4. CASE Tick
  <2>1. targetLeft <= windowLeft => targetLeft' <= windowLeft'
    BY <1>4, <1>n, LessIsMonotonic DEF Tick
  <2>2. windowLeft = 0 => windowLeft' = 0
    BY <1>4, <1>n, LessVanishes DEF Tick
  <2>3. windowLeft' > 0 => windowLeft > 0
    BY <2>2, <1>n, <1>4 DEF Tick, Less
  <2> QED BY <1>4, <2>1, <2>2, <2>3 DEF Tick
<1>5. CASE Terminated \/ UNCHANGED vars
  BY <1>5 DEF Terminated, vars, timeVars
<1> QED BY <1>1, <1>2, <1>3, <1>4, <1>5 DEF Next

LEMMA WindowInvariant == Spec => []WindowInv
BY WindowInit, WindowNext, PTL DEF Spec

\* grant_access never loses a wakeup, for every interleaving and any delay.
THEOREM GrantIsNotLost == Spec => []NoLostGrant
<1>1. WindowInv => NoLostGrant
  BY DEF WindowInv
<1> QED BY <1>1, WindowInvariant, PTL

-----------------------------------------------------------------------------
(* The stop.                                                               *)

\* Steps of the worker between a test of stop_ that let it go on and the pulse.
Cleared == {"closing_clock", "closing_edge", "open_clock", "open_edge"}

\* No pulse is late before the stop; after it none has begun while the worker
\* is still on its way from a test of stop_ to a pulse, and no test lets it on
\* that way again.
StopInv ==
    /\ TypeOK
    /\ ~stop => late = 0
    /\ stop /\ worker \in Cleared => late = 0
    /\ StopEndsPulses

LEMMA StopInit == Init => StopInv
BY TypeInit DEF Init, StopInv, StopEndsPulses

LEMMA StopNext == StopInv /\ [Next]_vars => StopInv'
<1> SUFFICES ASSUME StopInv, [Next]_vars
             PROVE  (/\ ~stop => late = 0
                     /\ stop /\ worker \in Cleared => late = 0
                     /\ StopEndsPulses)'
  BY TypeNext DEF StopInv
<1> USE DEF StopInv, StopEndsPulses, Cleared
<1>1. CASE Worker
  <2>1. CASE ClosingTest \/ LoopTest \/ Opened
    BY <2>1 DEF ClosingTest, LoopTest, Opened, UnlessStopped, historyVars
  <2>2. CASE ClosingClock \/ ClosingPulseEnd \/ Block
    BY <2>2 DEF ClosingClock, ClosingPulseEnd, Block, historyVars
  <2>3. CASE ClosingEdge \/ OpenEdge
    BY <2>3 DEF ClosingEdge, OpenEdge, StartPulse
  <2>4. CASE EvaluatePredicate \/ OpenPulseEnd
    BY <2>4 DEF EvaluatePredicate, OpenPulseEnd, historyVars
  <2>5. CASE OpenTest \/ OpenClock
    BY <2>5 DEF OpenTest, OpenClock, StartClosing, historyVars
  <2> QED BY <1>1, <2>1, <2>2, <2>3, <2>4, <2>5 DEF Worker
<1>2. CASE SpuriousWakeup
  BY <1>2 DEF SpuriousWakeup, historyVars
<1>3. CASE Caller
  <2>1. CASE GrantAccess \/ ArmWindow
    BY <2>1 DEF GrantAccess, ArmWindow, historyVars
  <2>2. CASE NotifyGrant \/ NotifyStop
    BY <2>2 DEF NotifyGrant, NotifyStop, NotifyAll, historyVars
  <2>3. CASE StoreStop
    <3>1. late' = late /\ worker' = worker /\ (~stop => late = 0)
      BY <2>3 DEF StoreStop, historyVars
    <3>2. CASE stop
      BY <2>3, <3>1, <3>2 DEF StoreStop
    <3>3. CASE ~stop
      BY <2>3, <3>1, <3>3 DEF StoreStop
    <3> QED BY <3>2, <3>3
  <2>4. CASE Join
    BY <2>4 DEF Join, historyVars
  <2> QED BY <1>3, <2>1, <2>2, <2>3, <2>4 DEF Caller
<1>4. CASE Tick
  BY <1>4 DEF Tick
<1>5. CASE Terminated \/ UNCHANGED vars
  BY <1>5 DEF Terminated, vars, historyVars
<1> QED BY <1>1, <1>2, <1>3, <1>4, <1>5 DEF Next

LEMMA StopInvariant == Spec => []StopInv
BY StopInit, StopNext, PTL DEF Spec

\* After the store of stop_ at most one pulse begins, however the threads are
\* delayed and wherever the worker is when the destructor comes.
THEOREM StopEndsThePulses == Spec => []StopEndsPulses
<1>1. StopInv => StopEndsPulses
  BY DEF StopInv
<1> QED BY <1>1, StopInvariant, PTL

-----------------------------------------------------------------------------
(* The gate rests closed.                                                  *)

\* During the closing phase the closed angle has been commanded for all of the
\* phase that is over; the phase ends complete unless stop_ is set, and whoever
\* stop_ lets out of it early does not come back to cv_.wait.
ClosesBeforeRest ==
    /\ worker \in {"closing", "closing_clock", "closing_edge", "closing_pulse"}
         => closedFor + deadlineLeft >= Close
    /\ worker = "loop" /\ ~stop => closedFor = Close
    /\ worker \in {"predicate", "blocking", "waiting"} => closedFor = Close

RestInv == TypeOK /\ ClosesBeforeRest

LEMMA RestInit == Init => RestInv
BY TypeInit DEF Init, RestInv, ClosesBeforeRest

LEMMA RestNext == Prompt /\ RestInv /\ [Next]_vars => RestInv'
<1> SUFFICES ASSUME Prompt, RestInv, [Next]_vars
             PROVE  ClosesBeforeRest'
  BY TypeNext DEF RestInv
<1>t. /\ deadlineLeft \in Nat /\ closedFor \in Nat /\ closedFor <= Close
      /\ Close \in Nat
  BY DEF RestInv, TypeOK
<1> USE DEF RestInv, ClosesBeforeRest
<1>1. CASE Worker
  <2>1. CASE ClosingTest \/ LoopTest \/ Opened
    BY <2>1 DEF ClosingTest, LoopTest, Opened, UnlessStopped, timeVars, historyVars
  <2>2. CASE ClosingClock
    BY <2>2, <1>t DEF ClosingClock, timeVars, historyVars
  <2>3. CASE ClosingPulseEnd \/ Block
    BY <2>3 DEF ClosingPulseEnd, Block, timeVars, historyVars
  <2>4. CASE ClosingEdge \/ OpenEdge
    BY <2>4 DEF ClosingEdge, OpenEdge, StartPulse
  <2>5. CASE EvaluatePredicate \/ OpenPulseEnd
    BY <2>5 DEF EvaluatePredicate, OpenPulseEnd, historyVars
  <2>6. CASE OpenTest \/ OpenClock
    BY <2>6, <1>t DEF OpenTest, OpenClock, StartClosing, historyVars
  <2> QED BY <1>1, <2>1, <2>2, <2>3, <2>4, <2>5, <2>6 DEF Worker
<1>2. CASE SpuriousWakeup
  BY <1>2 DEF SpuriousWakeup, timeVars, historyVars
<1>3. CASE Caller
  <2>1. CASE GrantAccess \/ ArmWindow
    BY <2>1 DEF GrantAccess, ArmWindow, historyVars
  <2>2. CASE NotifyGrant \/ NotifyStop
    BY <2>2 DEF NotifyGrant, NotifyStop, NotifyAll, timeVars, historyVars
  <2>3. CASE StoreStop \/ Join
    BY <2>3 DEF StoreStop, Join, timeVars, historyVars
  <2> QED BY <1>3, <2>1, <2>2, <2>3 DEF Caller
<1>4. CASE Tick
  <2>1. worker \notin {"closing", "closing_clock", "closing_edge", "loop"}
    BY <1>4 DEF Tick, WorkerRests
  <2>2. closedFor = Close => closedFor' = Close
    BY <1>4, <1>t DEF Tick, More
  <2>3. CASE worker = "closing_pulse"
    BY <1>4, <2>3, <1>t DEF Tick, Less, More
  <2> QED BY <1>4, <2>1, <2>2, <2>3 DEF Tick
<1>5. CASE Terminated \/ UNCHANGED vars
  BY <1>5 DEF Terminated, vars, timeVars, historyVars
<1> QED BY <1>1, <1>2, <1>3, <1>4, <1>5 DEF Next

LEMMA RestInvariant == Prompt => (Spec => []RestInv)
<1> SUFFICES ASSUME Prompt PROVE Spec => []RestInv
  OBVIOUS
<1>1. RestInv /\ [Next]_vars => RestInv'
  BY RestNext
<1> QED BY RestInit, <1>1, PTL DEF Spec

\* The worker goes to sleep only once the closed angle was commanded for all of
\* kCloseHoldMs, whatever the durations and however often the window is
\* reopened, if no thread is delayed.
THEOREM GateRestsClosed == Prompt => (Spec => []RestsClosed)
<1> SUFFICES ASSUME Prompt PROVE Spec => []RestsClosed
  OBVIOUS
<1>1. RestInv => RestsClosed
  BY DEF RestInv, ClosesBeforeRest, RestsClosed
<1> QED BY <1>1, RestInvariant, PTL

-----------------------------------------------------------------------------
(* A grant is worth what it promises.                                      *)

\* What the gate was held open since the last grant, with what is left of its
\* window after the closing phase, falls short of Hold by what that grant was
\* owed of a closing phase only.
OpeningInv ==
    /\ caller = "arm" => newLeft = Hold
    /\ worker = "done" => stop
    /\ worker \notin {"closing_pulse", "open_pulse"} => pulseLeft = 0
    /\ worker = "closing_edge" => deadlineLeft > 0
    /\ worker = "open_edge" => targetLeft > 0
    /\ MinimumOpening
    /\ windowLeft > 0 /\ ~stop => openFor + windowLeft + owed >= Hold + ClosingLeft

LEMMA OpeningInit == Init => OpeningInv
BY DEF Init, OpeningInv, MinimumOpening

LEMMA OpeningWorker == TypeOK /\ OpeningInv /\ Worker => OpeningInv'
<1> SUFFICES ASSUME TypeOK, OpeningInv, Worker PROVE OpeningInv'
  OBVIOUS
<1> USE DEF TypeOK, OpeningInv, MinimumOpening, ClosingLeft
<1>1. CASE ClosingTest
  BY <1>1 DEF ClosingTest, UnlessStopped, timeVars, historyVars
<1>2. CASE ClosingClock
  BY <1>2 DEF ClosingClock, timeVars, historyVars
<1>3. CASE ClosingEdge
  BY <1>3 DEF ClosingEdge, StartPulse
<1>4. CASE ClosingPulseEnd
  BY <1>4 DEF ClosingPulseEnd, timeVars, historyVars
<1>5. CASE LoopTest
  BY <1>5 DEF LoopTest, UnlessStopped, timeVars, historyVars
<1>6. CASE EvaluatePredicate
  BY <1>6 DEF EvaluatePredicate, historyVars
<1>7. CASE Block
  BY <1>7 DEF Block, timeVars, historyVars
<1>8. CASE Opened
  BY <1>8 DEF Opened, UnlessStopped, timeVars, historyVars
<1>9. CASE OpenTest
  BY <1>9 DEF OpenTest, StartClosing, historyVars
<1>10. CASE OpenClock
  BY <1>10 DEF OpenClock, StartClosing, historyVars
<1>11. CASE OpenEdge
  BY <1>11 DEF OpenEdge, StartPulse
<1>12. CASE OpenPulseEnd
  BY <1>12 DEF OpenPulseEnd, historyVars
<1> QED BY <1>1, <1>2, <1>3, <1>4, <1>5, <1>6, <1>7, <1>8, <1>9, <1>10, <1>11, <1>12
        DEF Worker

LEMMA OpeningCaller == TypeOK /\ OpeningInv /\ Caller => OpeningInv'
<1> SUFFICES ASSUME TypeOK, OpeningInv, Caller PROVE OpeningInv'
  OBVIOUS
<1> USE DEF OpeningInv, MinimumOpening
<1>1. CASE GrantAccess
  BY <1>1 DEF GrantAccess, historyVars, ClosingLeft
<1>2. CASE ArmWindow
  <2>1. ClosingLeft' = ClosingLeft
    BY <1>2 DEF ArmWindow, ClosingLeft
  <2>2. CASE newLeft > windowLeft
    BY <1>2, <2>1, <2>2, ClosingLeftIsShort DEF ArmWindow, TypeOK
  <2>3. CASE ~(newLeft > windowLeft)
    BY <1>2, <2>1, <2>3 DEF ArmWindow
  <2> QED BY <2>2, <2>3
<1>3. CASE NotifyGrant \/ NotifyStop
  BY <1>3 DEF NotifyGrant, NotifyStop, NotifyAll, timeVars, historyVars,
              ClosingLeft
<1>4. CASE StoreStop \/ Join
  BY <1>4 DEF StoreStop, Join, timeVars, historyVars, ClosingLeft
<1> QED BY <1>1, <1>2, <1>3, <1>4 DEF Caller

\* Time takes from a window while the gate is not held open only as much as it
\* takes from the closing phase: the worker does not sleep then (NoLostGrant).
LEMMA OpeningTick ==
    Prompt /\ WindowInv /\ OpeningInv /\ Tick => OpeningInv'
<1> SUFFICES ASSUME Prompt, WindowInv, OpeningInv, Tick PROVE OpeningInv'
  OBVIOUS
<1>t. /\ windowLeft \in Nat /\ deadlineLeft \in Nat /\ pulseLeft \in Nat
      /\ owed \in Nat
      /\ openFor \in Nat /\ openFor <= Hold /\ stop \in BOOLEAN
      /\ Hold \in Nat \ {0} /\ Close \in Nat \ {0} /\ Pulse \in Nat \ {0}
  BY DEF WindowInv, TypeOK
<1>1. caller' # "arm"
  BY DEF Tick, CallerRests
<1>2. worker = "done" => stop
  BY DEF OpeningInv
<1>3. UNCHANGED <<worker, stop, caller, owed>>
  BY DEF Tick
<1>p. /\ worker' \notin {"closing_pulse", "open_pulse"} => pulseLeft' = 0
      /\ worker' \notin {"closing_edge", "open_edge"}
  <2>1. worker \notin {"closing_pulse", "open_pulse"} => pulseLeft = 0
    BY DEF OpeningInv
  <2> QED BY <2>1, <1>t, <1>3 DEF Tick, Less, WorkerRests
<1>4. PICK held \in Nat : openFor' = held /\ openFor <= held
  BY <1>t DEF Tick, More
<1>5. windowLeft' = Less(windowLeft)
  BY DEF Tick
<1>6. CASE stop \/ windowLeft = 0
  <2>1. stop \/ windowLeft' = 0
    BY <1>5, <1>6 DEF Less
  <2>2. (windowLeft = 0 /\ ~stop => openFor + owed >= Hold)'
    <3>1. windowLeft = 0 /\ ~stop => openFor + owed >= Hold
      BY DEF OpeningInv, MinimumOpening
    <3> QED BY <1>6, <1>3, <1>4, <3>1, <1>t
  <2>3. ~(windowLeft > 0 /\ ~stop)'
    BY <2>1, <1>3
  <2> QED BY <1>1, <1>2, <1>3, <1>p, <2>2, <2>3 DEF OpeningInv, MinimumOpening
<1>7. CASE ~stop /\ windowLeft > 0
  <2>1. windowLeft' = windowLeft - 1
    BY <1>5, <1>7 DEF Less
  <2>2. openFor + windowLeft + owed >= Hold + ClosingLeft
    BY <1>7 DEF OpeningInv
  <2>3. /\ worker \in {"closing_pulse", "open_pulse"}
        /\ pulseLeft > 0
    <3>1. worker # "waiting"
      BY <1>7, <1>1, <1>3 DEF WindowInv, NoLostGrant, Tick, CallerRests
    <3> QED BY <3>1, <1>2, <1>7 DEF Tick, WorkerRests
  <2>4. CASE worker = "closing_pulse"
    <3>1. /\ deadlineLeft' = Less(deadlineLeft)
          /\ pulseLeft' = pulseLeft - 1
          /\ openFor' = openFor
      BY <2>3, <2>4, <1>t DEF Tick, Less
    <3>2. ClosingLeft \in Nat /\ ClosingLeft > 0
      BY <2>3, <2>4, <1>t DEF ClosingLeft
    <3>3. PICK left \in Nat : ClosingLeft' = left /\ left <= ClosingLeft - 1
      BY <2>3, <2>4, <3>1, <1>3, <1>t DEF ClosingLeft, Less
    <3>4. openFor' + windowLeft' + owed' >= Hold + ClosingLeft'
      BY <2>1, <2>2, <3>1, <3>2, <3>3, <1>t, <1>3
    <3>5. windowLeft' = 0 => openFor' + owed' >= Hold
      BY <3>3, <3>4, <3>1, <1>t, <1>3
    <3> QED BY <1>1, <1>2, <1>3, <1>p, <3>4, <3>5 DEF OpeningInv, MinimumOpening
  <2>5. CASE worker = "open_pulse"
    <3>1. ClosingLeft = 0 /\ ClosingLeft' = 0
      BY <2>5, <1>3 DEF ClosingLeft
    <3>2. openFor' = IF openFor < Hold THEN openFor + 1 ELSE Hold
      BY <2>5 DEF Tick, More
    <3> QED BY <1>1, <1>2, <1>3, <1>p, <2>1, <2>2, <3>1, <3>2, <1>t, <1>7
            DEF OpeningInv, MinimumOpening
  <2> QED BY <2>3, <2>4, <2>5
<1> QED BY <1>6, <1>7, <1>t

LEMMA OpeningInvariant == Prompt => (Spec => []OpeningInv)
<1> SUFFICES ASSUME Prompt PROVE Spec => []OpeningInv
  OBVIOUS
<1>1. WindowInv /\ OpeningInv /\ [Next]_vars => OpeningInv'
  <2> SUFFICES ASSUME WindowInv, OpeningInv, [Next]_vars PROVE OpeningInv'
    OBVIOUS
  <2>t. TypeOK
    BY DEF WindowInv
  <2>1. CASE Worker
    BY <2>1, <2>t, OpeningWorker
  <2>2. CASE SpuriousWakeup
    BY <2>2 DEF SpuriousWakeup, timeVars, historyVars, OpeningInv,
                MinimumOpening, ClosingLeft
  <2>3. CASE Caller
    BY <2>3, <2>t, OpeningCaller
  <2>4. CASE Tick
    BY <2>4, OpeningTick
  <2>5. CASE Terminated \/ UNCHANGED vars
    BY <2>5 DEF Terminated, vars, timeVars, historyVars, OpeningInv,
                MinimumOpening, ClosingLeft
  <2> QED BY <2>1, <2>2, <2>3, <2>4, <2>5 DEF Next
<1> QED BY OpeningInit, WindowInvariant, <1>1, PTL DEF Spec

\* Whenever a window has run out, the gate was held open since the last grant
\* for all of open_hold_ms_ but the rest of the closing phase that grant fell on,
\* whichever step of the worker it was.
THEOREM GrantOpensLongEnough == Prompt => (Spec => []MinimumOpening)
<1> SUFFICES ASSUME Prompt PROVE Spec => []MinimumOpening
  OBVIOUS
<1>1. OpeningInv => MinimumOpening
  BY DEF OpeningInv
<1> QED BY <1>1, OpeningInvariant, PTL

-----------------------------------------------------------------------------
(* Turnstile implements Door: its initial state is Door's, and each of its *)
(* steps is one of Door's or leaves the mapped state alone.                *)

GateAction == [Gate!DoorNext]_(Gate!doorVars)

LEMMA GateInit == Init => Gate!DoorInit
BY DEF Init, Gate!DoorInit

LEMMA GateWorker ==
    TypeOK /\ WindowInv /\ RestInv /\ StopInv /\ OpeningInv /\ Worker => GateAction
<1> SUFFICES ASSUME TypeOK, WindowInv, RestInv, StopInv, OpeningInv, Worker
             PROVE  GateAction
  OBVIOUS
<1> USE DEF GateAction, Gate!DoorNext, Gate!doorVars
\* The thread ends, or goes to sleep: the servo is switched off.
<1>1. CASE (LoopTest \/ Opened) /\ stop
  BY <1>1 DEF LoopTest, Opened, UnlessStopped, timeVars, historyVars, Gate!Rests
<1>2. CASE EvaluatePredicate /\ ~(stop \/ windowLeft > 0)
  BY <1>2 DEF EvaluatePredicate, historyVars, Gate!Rests, RestInv,
              ClosesBeforeRest
\* A pulse begins: of the open angle only in a window; after the stop it is the
\* last one.
<1>3. CASE OpenEdge
  <2>1. windowLeft > 0
    BY <1>3 DEF OpenEdge, StartPulse, WindowInv, TargetInWindow, OpeningInv, TypeOK
  <2>2. late = 0 /\ late' = IF stop THEN 1 ELSE 0
    BY <1>3 DEF OpenEdge, StartPulse, StopInv, Cleared
  <2> QED BY <1>3, <2>1, <2>2 DEF OpenEdge, StartPulse, Gate!Opens, Gate!LastMove
<1>4. CASE ClosingEdge
  <2>1. late = 0 /\ late' = IF stop THEN 1 ELSE 0
    BY <1>4 DEF ClosingEdge, StartPulse, StopInv, Cleared
  <2> QED BY <1>4, <2>1 DEF ClosingEdge, StartPulse, Gate!Closes, Gate!LastMove
\* Every other step of the worker is invisible to the gate.
<1>5. CASE (LoopTest \/ Opened) /\ ~stop
  BY <1>5 DEF LoopTest, Opened, UnlessStopped, timeVars, historyVars
<1>6. CASE EvaluatePredicate /\ (stop \/ windowLeft > 0)
  BY <1>6 DEF EvaluatePredicate, historyVars
<1>7. CASE OpenTest \/ OpenClock
  BY <1>7 DEF OpenTest, OpenClock, StartClosing, historyVars
<1>8. CASE ClosingTest
  BY <1>8 DEF ClosingTest, UnlessStopped, timeVars, historyVars
<1>9. CASE ClosingClock \/ ClosingPulseEnd \/ Block
  BY <1>9 DEF ClosingClock, ClosingPulseEnd, Block, timeVars, historyVars
<1>10. CASE OpenPulseEnd
  BY <1>10 DEF OpenPulseEnd, historyVars
<1> QED BY <1>1, <1>2, <1>3, <1>4, <1>5, <1>6, <1>7, <1>8, <1>9, <1>10 DEF Worker

LEMMA GateCaller == TypeOK /\ StopInv /\ (Caller \/ SpuriousWakeup) => GateAction
<1> SUFFICES ASSUME TypeOK, StopInv, Caller \/ SpuriousWakeup PROVE GateAction
  OBVIOUS
<1> USE DEF GateAction, Gate!DoorNext, Gate!doorVars
<1>1. CASE GrantAccess \/ Join
  BY <1>1 DEF GrantAccess, Join, timeVars, historyVars
<1>2. CASE ArmWindow
  <2>1. CASE newLeft > windowLeft
    <3>1. windowLeft' > 0
      BY <1>2, <2>1 DEF ArmWindow, TypeOK
    <3> QED BY <1>2, <3>1 DEF ArmWindow, Gate!Grant
  <2>2. CASE ~(newLeft > windowLeft)
    BY <1>2, <2>2 DEF ArmWindow
  <2> QED BY <2>1, <2>2
<1>3. CASE NotifyGrant \/ NotifyStop \/ SpuriousWakeup
  BY <1>3 DEF NotifyGrant, NotifyStop, SpuriousWakeup, NotifyAll, timeVars,
              historyVars, Gate!Wakes
<1>4. CASE StoreStop
  <2>1. UNCHANGED <<windowLeft, worker, closedFor, late>> /\ stop'
    BY <1>4 DEF StoreStop, timeVars, historyVars
  <2>2. CASE stop
    BY <2>1, <2>2
  <2>3. CASE ~stop
    <3>1. late = 0
      BY <2>3 DEF StopInv
    <3> QED BY <2>1, <2>3, <3>1 DEF Gate!Retire
  <2> QED BY <2>2, <2>3
<1> QED BY <1>1, <1>2, <1>3, <1>4 DEF Caller

LEMMA GateTick == TypeOK /\ Tick => GateAction
<1> SUFFICES ASSUME TypeOK, Tick PROVE GateAction
  OBVIOUS
<1>w. windowLeft \in Nat /\ windowLeft' = Less(windowLeft)
  BY DEF Tick, TypeOK
<1>1. ~(windowLeft > 0) => ~(windowLeft' > 0)
  BY DEF Tick, Less, TypeOK
<1>2. closedFor = Close => closedFor' = Close
  BY DEF Tick, More, TypeOK
<1>3. worker # "closing_pulse" => closedFor' = closedFor
  BY DEF Tick
<1>4. UNCHANGED <<worker, stop, late>>
  BY DEF Tick
<1>5. Gate!Passes
  <2>1. (windowLeft > 0)' = FALSE \/ UNCHANGED (windowLeft > 0)
    <3>1. windowLeft' > 0 => windowLeft > 0
      BY <1>1
    <3> QED BY <1>w, <3>1
  <2>2. \/ /\ worker \notin {"blocking", "waiting", "done"}
           /\ (IF closedFor = Close THEN "closed" ELSE "ajar")' = "closed"
        \/ UNCHANGED (IF closedFor = Close THEN "closed" ELSE "ajar")
    BY <1>2, <1>3
  <2>3. UNCHANGED <<worker \notin {"blocking", "waiting", "done"},
                    IF ~stop THEN "no" ELSE IF late = 0 THEN "asked" ELSE "yes">>
    BY <1>4
  <2> QED BY <2>1, <2>2, <2>3 DEF Gate!Passes
<1> QED BY <1>5 DEF GateAction, Gate!DoorNext

\* Every behaviour of the threads and the clock is one the abstract gate
\* allows: it opens only while a grant lasts, at most once more after it was
\* asked to stop, and is switched off only closed, or because the program ends.  (That it settles is left to the model checker.)
THEOREM TurnstileImplementsDoor == Prompt => (Spec => Gate!DoorSafety)
<1> SUFFICES ASSUME Prompt PROVE Spec => Gate!DoorSafety
  OBVIOUS
<1>1. WindowInv /\ RestInv /\ StopInv /\ OpeningInv /\ [Next]_vars
        => [Gate!DoorNext]_(Gate!doorVars)
  <2> SUFFICES ASSUME WindowInv, RestInv, StopInv, OpeningInv, [Next]_vars
               PROVE  GateAction
    BY DEF GateAction
  <2>t. TypeOK
    BY DEF WindowInv
  <2>1. CASE Worker
    BY <2>1, <2>t, GateWorker
  <2>2. CASE Caller \/ SpuriousWakeup
    BY <2>2, <2>t, GateCaller
  <2>3. CASE Tick
    BY <2>3, <2>t, GateTick
  <2>4. CASE Terminated \/ UNCHANGED vars
    BY <2>4 DEF Terminated, vars, timeVars, historyVars, GateAction,
                Gate!doorVars
  <2> QED BY <2>1, <2>2, <2>3, <2>4 DEF Next
<1> QED
  BY GateInit, WindowInvariant, RestInvariant, StopInvariant, OpeningInvariant, <1>1,
     PTL
     DEF Spec, Gate!DoorSafety

=============================================================================
