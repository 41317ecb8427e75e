----------------------------- MODULE Turnstile -----------------------------
(***************************************************************************)
(* The servo of the gate: Turnstile, its worker thread (pwm_loop) and the  *)
(* thread that calls it (grant_access from Pipeline::main_loop, later the  *)
(* destructor from main; one after the other, hence one caller here).      *)
(*                                                                         *)
(* They share open_until_ under mutex_, the condition variable cv_ and the *)
(* atomic stop_.  The worker emits pulses of the open angle until          *)
(* open_until_, then pulses of the closed angle for kCloseHoldMs, then     *)
(* sleeps on cv_.                                                          *)
(*                                                                         *)
(* A time_point is kept as the time left until it, 0 once it is past: all  *)
(* the code does with one is to compare it with now().  So the clock needs *)
(* no bound.  gpio.enabled is TRUE: in mock mode there is no thread.       *)
(***************************************************************************)
EXTENDS Naturals

CONSTANTS
    Hold,    \* open_hold_ms_, in ticks
    Close,   \* kCloseHoldMs
    Pulse,   \* one PWM cycle, kPwmPeriodUs
    Prompt   \* TRUE: a thread that can run does so before time passes;
             \* FALSE: any delay between two instructions of either thread

ASSUME DurationsAssumption ==
    /\ Hold \in Nat \ {0}    \* config.cpp:205
    /\ Close \in Nat \ {0}
    /\ Pulse \in Nat \ {0}
    /\ Prompt \in BOOLEAN

VARIABLES
    windowLeft,    \* open_until_
    targetLeft,    \* target, the copy of it the worker pulses towards
    deadlineLeft,  \* deadline of emit_pulses_for(closed_pulse_us_, ...)
    pulseLeft,     \* the rest of the PWM cycle being emitted
    newLeft,       \* new_target of the grant_access being executed
    stop,          \* stop_
    worker,        \* what pwm_loop does next
    caller,        \* what the calling thread does next
    closedFor,     \* history: time of closed pulses since the last open one
    openFor,       \* history: time of open pulses since the last grant
    owed,          \* history: how long that grant may have to wait
    late           \* history: pulses begun since stop_ was stored

timeVars == <<windowLeft, targetLeft, deadlineLeft, pulseLeft, newLeft>>
historyVars == <<closedFor, openFor, owed, late>>
vars == <<timeVars, stop, worker, caller, historyVars>>

\* "predicate" and "blocking" are inside cv_.wait with the mutex held: about
\* to evaluate the predicate; found it false and not yet on the queue of cv_.
\* A pulse takes three: stop_ is loaded, the clock read, the line set.
WorkerSteps == {"closing", "closing_clock", "closing_edge", "closing_pulse",
                "loop", "predicate", "blocking", "waiting", "opened",
                "open", "open_clock", "open_edge", "open_pulse", "done"}
CallerSteps == {"idle", "arm", "notify", "notify_stop", "join", "gone"}

TypeOK ==
    /\ windowLeft \in 0..Hold
    /\ targetLeft \in 0..Hold
    /\ deadlineLeft \in 0..Close
    /\ pulseLeft \in 0..Pulse
    /\ newLeft \in 0..Hold
    /\ stop \in BOOLEAN
    /\ worker \in WorkerSteps
    /\ caller \in CallerSteps
    /\ closedFor \in 0..Close
    /\ openFor \in 0..Hold
    /\ owed \in 0..(Close + Pulse)
    /\ late \in Nat

\* The constructor has started the thread, which closes the gate first: the
\* servo "holds whatever angle it happened to be in".
Init ==
    /\ windowLeft = 0 /\ targetLeft = 0 /\ pulseLeft = 0 /\ newLeft = 0
    /\ deadlineLeft = Close
    /\ stop = FALSE
    /\ worker = "closing"
    /\ caller = "idle"
    /\ closedFor = 0
    /\ openFor = Hold
    /\ owed = 0
    /\ late = 0

-----------------------------------------------------------------------------
(* The worker.                                                             *)

\* The step after a load of stop_.
UnlessStopped(here, go, leave) ==
    /\ worker = here
    /\ worker' = IF stop THEN leave ELSE go
    /\ UNCHANGED <<timeVars, stop, caller, historyVars>>

\* The line goes HIGH: a pulse begins, the angle depends on its width.
StartPulse(here, pulse) ==
    /\ worker = here
    /\ worker' = pulse
    /\ pulseLeft' = Pulse
    /\ late' = IF stop THEN late + 1 ELSE late
    /\ UNCHANGED <<windowLeft, targetLeft, deadlineLeft, newLeft, stop, caller,
                   openFor, owed>>

\* emit_pulses_for is called: its deadline is computed.
StartClosing ==
    /\ worker' = "closing"
    /\ deadlineLeft' = Close

\* A plausible bug: emit_pulses_for does not look at stop_.
ClosingTest_NoStop ==
    /\ worker = "closing"
    /\ worker' = "closing_clock"
    /\ UNCHANGED <<timeVars, stop, caller, historyVars>>

\* The while of emit_pulses_for is two tests; after it the line goes LOW.
ClosingTest == UnlessStopped("closing", "closing_clock", "loop")

ClosingClock ==
    /\ worker = "closing_clock"
    /\ worker' = IF deadlineLeft > 0 THEN "closing_edge" ELSE "loop"
    /\ UNCHANGED <<timeVars, stop, caller, historyVars>>

ClosingEdge == StartPulse("closing_edge", "closing_pulse") /\ UNCHANGED closedFor

ClosingPulseEnd ==
    /\ worker = "closing_pulse"
    /\ pulseLeft = 0
    /\ worker' = "closing"
    /\ UNCHANGED <<timeVars, stop, caller, historyVars>>

\* while (!stop_), then the lock of mutex_.
LoopTest == UnlessStopped("loop", "predicate", "done")

\* The predicate of cv_.wait; when it holds target is read under the lock.
EvaluatePredicate ==
    /\ worker = "predicate"
    /\ IF stop \/ windowLeft > 0
       THEN worker' = "opened" /\ targetLeft' = windowLeft
       ELSE worker' = "blocking" /\ UNCHANGED targetLeft
    /\ UNCHANGED <<windowLeft, deadlineLeft, pulseLeft, newLeft, stop, caller,
                   historyVars>>

\* cv_.wait puts the thread to sleep and releases the mutex, atomically.
Block ==
    /\ worker = "blocking"
    /\ worker' = "waiting"
    /\ UNCHANGED <<timeVars, stop, caller, historyVars>>

\* A condition variable may wake up without a notification.
SpuriousWakeup ==
    /\ worker = "waiting"
    /\ worker' = "predicate"
    /\ UNCHANGED <<timeVars, stop, caller, historyVars>>

Opened == UnlessStopped("opened", "open", "done")

\* The inner while: another open pulse, or the closing phase.
OpenTest ==
    /\ worker = "open"
    /\ IF stop THEN StartClosing
               ELSE worker' = "open_clock" /\ UNCHANGED deadlineLeft
    /\ UNCHANGED <<windowLeft, targetLeft, pulseLeft, newLeft, stop, caller,
                   historyVars>>

\* A plausible bug: the inner loop lacks the break on current >= target.
OpenClock_NoBreak ==
    /\ worker = "open_clock"
    /\ worker' = "open_edge"
    /\ UNCHANGED <<timeVars, stop, caller, historyVars>>

\* A plausible bug: the closing phase after a window is forgotten.
OpenClock_NoClosing ==
    /\ worker = "open_clock"
    /\ worker' = IF targetLeft > 0 THEN "open_edge" ELSE "loop"
    /\ UNCHANGED <<timeVars, stop, caller, historyVars>>

\* if (current >= target) break
OpenClock ==
    /\ worker = "open_clock"
    /\ IF targetLeft > 0 THEN worker' = "open_edge" /\ UNCHANGED deadlineLeft
                         ELSE StartClosing
    /\ UNCHANGED <<windowLeft, targetLeft, pulseLeft, newLeft, stop, caller,
                   historyVars>>

OpenEdge == StartPulse("open_edge", "open_pulse") /\ closedFor' = 0

\* The end of an open pulse: target is read again, under the lock.
OpenPulseEnd ==
    /\ worker = "open_pulse"
    /\ pulseLeft = 0
    /\ worker' = "open"
    /\ targetLeft' = windowLeft
    /\ UNCHANGED <<windowLeft, deadlineLeft, pulseLeft, newLeft, stop, caller,
                   historyVars>>

Worker ==
    \/ ClosingTest \/ ClosingClock \/ ClosingEdge \/ ClosingPulseEnd
    \/ LoopTest \/ EvaluatePredicate \/ Block
    \/ Opened \/ OpenTest \/ OpenClock \/ OpenEdge \/ OpenPulseEnd

-----------------------------------------------------------------------------
(* The caller.                                                             *)

\* cv_.notify_all: the worker leaves the queue of cv_, if it is there.
NotifyAll == worker' = IF worker = "waiting" THEN "predicate" ELSE worker

\* grant_access computes new_target before it takes the mutex...
GrantAccess ==
    /\ caller = "idle"
    /\ newLeft' = Hold
    /\ caller' = "arm"
    /\ UNCHANGED <<windowLeft, targetLeft, deadlineLeft, pulseLeft, stop,
                   worker, historyVars>>

\* What a grant that comes now may have to wait: the rest of the closing phase,
\* whose last pulse begins before the deadline and may end after it, or all of
\* one that is about to begin.
ClosingLeft ==
    CASE worker \in {"closing", "closing_clock", "closing_edge", "closing_pulse"} ->
             IF deadlineLeft > pulseLeft THEN deadlineLeft + Pulse - 1 ELSE pulseLeft
      [] worker \in {"opened", "open", "open_clock"} /\ targetLeft = 0 ->
             Close + Pulse - 1
      [] OTHER -> 0

\* A plausible bug: new_target is stored without the mutex.
ArmWindow_NoLock ==
    /\ caller = "arm"
    /\ IF newLeft > windowLeft
       THEN windowLeft' = newLeft /\ openFor' = 0 /\ owed' = ClosingLeft
       ELSE UNCHANGED <<windowLeft, openFor, owed>>
    /\ newLeft' = 0
    /\ caller' = "notify"
    /\ UNCHANGED <<targetLeft, deadlineLeft, pulseLeft, stop, worker, closedFor, late>>

\* A plausible bug: a grant adds to the window instead of moving its end.
ArmWindow_Adds ==
    /\ caller = "arm"
    /\ worker # "blocking"
    /\ windowLeft' = windowLeft + newLeft
    /\ newLeft' = 0
    /\ openFor' = 0
    /\ owed' = ClosingLeft
    /\ caller' = "notify"
    /\ UNCHANGED <<targetLeft, deadlineLeft, pulseLeft, stop, worker, closedFor, late>>

\* A plausible bug: a grant during an open window is ignored.
ArmWindow_NotExtended ==
    /\ caller = "arm"
    /\ worker # "blocking"
    /\ windowLeft' = IF windowLeft = 0 THEN newLeft ELSE windowLeft
    /\ openFor' = IF newLeft > windowLeft THEN 0 ELSE openFor
    /\ owed' = IF newLeft > windowLeft THEN ClosingLeft ELSE owed
    /\ newLeft' = 0
    /\ caller' = "notify"
    /\ UNCHANGED <<targetLeft, deadlineLeft, pulseLeft, stop, worker, closedFor, late>>

\* ... extends open_until_ once the mutex is free (never shortens it) ...
ArmWindow ==
    /\ caller = "arm"
    /\ worker # "blocking"
    /\ IF newLeft > windowLeft
       THEN windowLeft' = newLeft /\ openFor' = 0 /\ owed' = ClosingLeft
       ELSE UNCHANGED <<windowLeft, openFor, owed>>
    /\ newLeft' = 0
    /\ caller' = "notify"
    /\ UNCHANGED <<targetLeft, deadlineLeft, pulseLeft, stop, worker, closedFor, late>>

\* ... and notifies after having released it.
NotifyGrant ==
    /\ caller = "notify"
    /\ NotifyAll
    /\ caller' = "idle"
    /\ UNCHANGED <<timeVars, stop, historyVars>>

\* ~Turnstile stores stop_ without the mutex, notifies, joins.
StoreStop ==
    /\ caller = "idle"
    /\ stop' = TRUE
    /\ caller' = "notify_stop"
    /\ UNCHANGED <<timeVars, worker, historyVars>>

NotifyStop ==
    /\ caller = "notify_stop"
    /\ NotifyAll
    /\ caller' = "join"
    /\ UNCHANGED <<timeVars, stop, historyVars>>

Join ==
    /\ caller = "join"
    /\ worker = "done"
    /\ caller' = "gone"
    /\ UNCHANGED <<timeVars, stop, worker, historyVars>>

Caller == GrantAccess \/ ArmWindow \/ NotifyGrant \/ StoreStop \/ NotifyStop \/ Join

-----------------------------------------------------------------------------
(* Time.                                                                   *)

WorkerRests ==
    \/ worker \in {"waiting", "done"}
    \/ worker \in {"closing_pulse", "open_pulse"} /\ pulseLeft > 0

CallerRests ==
    \/ caller \in {"idle", "gone"}
    \/ caller = "join" /\ worker # "done"

Less(left) == IF left > 0 THEN left - 1 ELSE 0
More(time, limit) == IF time < limit THEN time + 1 ELSE limit

Tick ==
    /\ \E left \in {windowLeft, targetLeft, deadlineLeft, pulseLeft, newLeft} :
           left > 0
    /\ Prompt => WorkerRests /\ CallerRests
    /\ windowLeft' = Less(windowLeft)
    /\ targetLeft' = Less(targetLeft)
    /\ deadlineLeft' = Less(deadlineLeft)
    /\ pulseLeft' = Less(pulseLeft)
    /\ newLeft' = Less(newLeft)
    /\ closedFor' = IF worker = "closing_pulse" THEN More(closedFor, Close)
                                                ELSE closedFor
    /\ openFor' = IF worker = "open_pulse" THEN More(openFor, Hold) ELSE openFor
    /\ UNCHANGED <<stop, worker, caller, owed, late>>

Terminated == caller = "gone" /\ UNCHANGED vars

Next == Worker \/ SpuriousWakeup \/ Caller \/ Tick \/ Terminated

Spec == Init /\ [][Next]_vars

\* The threads run, time passes and a mutex that is free infinitely often is
\* given.  Nothing obliges anyone to call, nor cv_ to wake up by itself.
Fairness ==
    /\ WF_vars(Worker)
    /\ SF_vars(ArmWindow)
    /\ WF_vars(NotifyGrant \/ NotifyStop \/ Join)
    /\ WF_vars(Tick)

FairSpec == Spec /\ Fairness

-----------------------------------------------------------------------------
(* What must hold for any timing.                                          *)

\* No wakeup of grant_access is lost: the worker never sleeps through an open
\* window, whatever the order of the check of the predicate, the store of
\* open_until_ and the notification, unless that notification is still to come.
NoLostGrant ==
    worker = "waiting" /\ windowLeft > 0 /\ ~stop => caller = "notify"

\* The worker never aims beyond open_until_: the copy it pulses towards may
\* be stale, never late.
TargetInWindow ==
    worker \in {"opened", "open", "open_clock", "open_edge", "open_pulse"}
        => targetLeft <= windowLeft

\* The destructor takes the gate from the worker within a pulse: stop_ is
\* stored without the mutex and may fall between a test of it and the pulse that
\* the test allowed, but no other pulse, of either angle, begins after it.
StopEndsPulses == late <= 1

-----------------------------------------------------------------------------
(* What must hold when no thread is delayed (Prompt).                      *)

\* The worker goes to sleep, and de-energizes the servo, only after the
\* closed angle was commanded for the whole time the servo needs to travel.
\* (A worker that ends because of stop_ may leave it ajar.)
RestsClosed == worker = "waiting" => closedFor = Close

\* A grant is worth what it promises, less what was left of the closing phase
\* it fell on: one that finds the gate at rest or open keeps it open for all of
\* open_hold_ms_, however many other grants move the window.
MinimumOpening ==
    windowLeft = 0 /\ ~stop => openFor + owed >= Hold

\* The abstract gate: it is closed once the closed angle was commanded for all
\* of kCloseHoldMs since the last open pulse, and granted during the window.
Gate == INSTANCE Door WITH
    position <- IF closedFor = Close THEN "closed" ELSE "ajar",
    powered <- worker \notin {"blocking", "waiting", "done"},
    granted <- windowLeft > 0,
    retired <- IF ~stop THEN "no" ELSE IF late = 0 THEN "asked" ELSE "yes"

\* Every step of the worker, the callers and the clock is one of the gate's: it
\* opens in a window only and at most once after the destructor has asked it to
\* stop, rests only closed, and when nobody is granted access any more it closes
\* and goes back to sleep, again and again if it is woken for nothing.
ImplementsDoor == Gate!DoorSpec

-----------------------------------------------------------------------------
(* What DESIGN.md says, and the code does not do.                          *)

\* DESIGN.md:198: the notification of the destructor unblocks the idle wait.
StopIsNotLost == worker = "waiting" /\ stop => caller = "notify_stop"

=============================================================================
