------------------------------- MODULE RgbLed -------------------------------
(***************************************************************************)
(* The status LED: RgbLed, its worker thread (worker_loop) and the thread  *)
(* that calls it (show_granted and show_denied from Pipeline::main_loop,   *)
(* later the destructor from main; one after the other).                   *)
(*                                                                         *)
(* arm() leaves a colour, a deadline and dirty_ under mutex_ and notifies  *)
(* cv_; the worker shows the colour until the deadline or the next command *)
(* and turns the LED off when a deadline passes.                           *)
(*                                                                         *)
(* Deadlines are kept as the time left, 0 once past.  The worker takes the *)
(* mutex in separate steps only where it matters: arm() has to wait while  *)
(* the worker holds it.                                                    *)
(***************************************************************************)
EXTENDS Naturals

CONSTANTS
    Colours,  \* the colours asked for: green (granted), red (denied)
    Holds,    \* colour -> the hold_ms it is shown for
    MaxHold,  \* the longest of them
    Off       \* no colour

ASSUME LedAssumption ==
    /\ MaxHold \in Nat
    /\ Holds \in [Colours -> 1..MaxHold]
    /\ Off \notin Colours

VARIABLES
    target,     \* target_r_, target_g_, target_b_
    offLeft,    \* off_at_
    dirty,      \* dirty_
    stop,       \* stop_
    worker,     \* what worker_loop does next
    colour,     \* its locals r, g, b
    shownLeft,  \* its local deadline
    light,      \* what the three lines show
    caller,     \* what the calling thread does next
    wanted,     \* the command being executed: colour and time left
    owed        \* history: the last command armed and not yet over

sharedVars == <<target, offLeft, dirty, stop>>
workerVars == <<worker, colour, shownLeft, light>>
callerVars == <<caller, wanted>>
vars == <<sharedVars, workerVars, callerVars, owed>>

Command == [colour : Colours \cup {Off}, left : 0..MaxHold]
Nothing == [colour |-> Off, left |-> 0]

\* "idle_test", "hold_test": in cv_.wait and cv_.wait_until, about to evaluate
\* the predicate; "idle_block", "hold_block": found it false and still hold
\* the mutex; "idle_wait", "hold_wait": asleep.
WorkerSteps == {"loop", "idle_test", "idle_block", "idle_wait", "write",
                "hold_test", "hold_block", "hold_wait", "held", "turn_off",
                "end", "done"}
CallerSteps == {"idle", "arm", "notify", "notify_stop", "join", "gone"}

TypeOK ==
    /\ target \in Colours \cup {Off}
    /\ offLeft \in 0..MaxHold
    /\ dirty \in BOOLEAN
    /\ stop \in BOOLEAN
    /\ worker \in WorkerSteps
    /\ colour \in Colours \cup {Off}
    /\ shownLeft \in 0..MaxHold
    /\ light \in Colours \cup {Off}
    /\ caller \in CallerSteps
    /\ wanted \in Command
    /\ owed \in Command

Init ==
    /\ target = Off
    /\ offLeft = 0
    /\ dirty = FALSE
    /\ stop = FALSE
    /\ worker = "loop"
    /\ colour = Off
    /\ shownLeft = 0
    /\ light = Off
    /\ caller = "idle"
    /\ wanted = Nothing
    /\ owed = Nothing

-----------------------------------------------------------------------------
(* The worker.                                                             *)

Goes(from, to) == worker = from /\ worker' = to

\* while (!stop_), then the lock.
LoopTest ==
    /\ \/ stop /\ Goes("loop", "end")
       \/ ~stop /\ Goes("loop", "idle_test")
    /\ UNCHANGED <<sharedVars, colour, shownLeft, light, callerVars, owed>>

\* A plausible bug: the flag is not reset.
IdleTest_StaysDirty ==
    /\ \/ /\ stop
          /\ Goes("idle_test", "end")
          /\ UNCHANGED <<colour, shownLeft>>
       \/ /\ ~stop /\ dirty
          /\ Goes("idle_test", "write")
          /\ colour' = target
          /\ shownLeft' = offLeft
       \/ /\ ~stop /\ ~dirty
          /\ Goes("idle_test", "idle_block")
          /\ UNCHANGED <<colour, shownLeft>>
    /\ UNCHANGED <<sharedVars, light, callerVars, owed>>

\* The first wait: for a command, which is copied and taken under the lock.
IdleTest ==
    /\ \/ /\ stop
          /\ Goes("idle_test", "end")
          /\ UNCHANGED <<dirty, colour, shownLeft>>
       \/ /\ ~stop /\ dirty
          /\ Goes("idle_test", "write")
          /\ dirty' = FALSE
          /\ colour' = target
          /\ shownLeft' = offLeft
       \/ /\ ~stop /\ ~dirty
          /\ Goes("idle_test", "idle_block")
          /\ UNCHANGED <<dirty, colour, shownLeft>>
    /\ UNCHANGED <<target, offLeft, stop, light, callerVars, owed>>

\* cv_ puts the thread to sleep and releases the mutex.
Block ==
    /\ Goes("idle_block", "idle_wait") \/ Goes("hold_block", "hold_wait")
    /\ UNCHANGED <<sharedVars, colour, shownLeft, light, callerVars, owed>>

\* write_channels(r, g, b); then the lock is taken again.
Write ==
    /\ Goes("write", "hold_test")
    /\ light' = colour
    /\ UNCHANGED <<sharedVars, colour, shownLeft, callerVars, owed>>

\* The second wait: for stop_ or another command, until the deadline.
HoldTest ==
    /\ \/ (stop \/ dirty \/ shownLeft = 0) /\ Goes("hold_test", "held")
       \/ ~(stop \/ dirty \/ shownLeft = 0) /\ Goes("hold_test", "hold_block")
    /\ UNCHANGED <<sharedVars, colour, shownLeft, light, callerVars, owed>>

\* The time-out of wait_until, or a wakeup without a notification.
TimedOut ==
    /\ shownLeft = 0
    /\ Goes("hold_wait", "hold_test")
    /\ UNCHANGED <<sharedVars, colour, shownLeft, light, callerVars, owed>>

SpuriousWakeup ==
    /\ Goes("idle_wait", "idle_test") \/ Goes("hold_wait", "hold_test")
    /\ UNCHANGED <<sharedVars, colour, shownLeft, light, callerVars, owed>>

\* A plausible bug: the LED is not turned off when its time is over.
Held_LeavesOn ==
    /\ \/ stop /\ Goes("held", "end")
       \/ ~stop /\ Goes("held", "loop")
    /\ UNCHANGED <<sharedVars, colour, shownLeft, light, callerVars, owed>>

\* After the second wait: stop_, another command, or the end of the deadline,
\* still under the lock.
Held ==
    /\ \/ stop /\ Goes("held", "end")
       \/ ~stop /\ dirty /\ Goes("held", "loop")
       \/ ~stop /\ ~dirty /\ Goes("held", "turn_off")
    /\ UNCHANGED <<sharedVars, colour, shownLeft, light, callerVars, owed>>

\* The mutex is free when the worker turns the LED off.
TurnOff ==
    /\ \/ Goes("turn_off", "loop")
       \/ Goes("end", "done")
    /\ light' = Off
    /\ UNCHANGED <<sharedVars, colour, shownLeft, callerVars, owed>>

Worker == LoopTest \/ IdleTest \/ Block \/ Write \/ HoldTest \/ TimedOut
            \/ Held \/ TurnOff

-----------------------------------------------------------------------------
(* The caller.                                                             *)

MutexFree == worker \notin {"idle_block", "hold_block", "held"}

NotifyAll ==
    worker' = CASE worker = "idle_wait" -> "idle_test"
                [] worker = "hold_wait" -> "hold_test"
                [] OTHER -> worker

\* show_granted or show_denied: arm() computes the deadline, then locks.
Show(c) ==
    /\ caller = "idle"
    /\ caller' = "arm"
    /\ wanted' = [colour |-> c, left |-> Holds[c]]
    /\ UNCHANGED <<sharedVars, workerVars, owed>>

\* A plausible bug: the mutex is not taken.
Arm_NoLock ==
    /\ caller = "arm"
    /\ target' = wanted.colour
    /\ offLeft' = wanted.left
    /\ dirty' = TRUE
    /\ owed' = wanted
    /\ wanted' = Nothing
    /\ caller' = "notify"
    /\ UNCHANGED <<stop, workerVars>>

\* The command replaces the one before it, shown or not.
Arm ==
    /\ caller = "arm"
    /\ MutexFree
    /\ target' = wanted.colour
    /\ offLeft' = wanted.left
    /\ dirty' = TRUE
    /\ owed' = wanted
    /\ wanted' = Nothing
    /\ caller' = "notify"
    /\ UNCHANGED <<stop, workerVars>>

NotifyCommand ==
    /\ caller = "notify"
    /\ caller' = "idle"
    /\ NotifyAll
    /\ UNCHANGED <<sharedVars, colour, shownLeft, light, wanted, owed>>

\* ~RgbLed.
StoreStop ==
    /\ caller = "idle"
    /\ stop' = TRUE
    /\ caller' = "notify_stop"
    /\ UNCHANGED <<target, offLeft, dirty, workerVars, wanted, owed>>

NotifyStop ==
    /\ caller = "notify_stop"
    /\ caller' = "join"
    /\ NotifyAll
    /\ UNCHANGED <<sharedVars, colour, shownLeft, light, wanted, owed>>

Join ==
    /\ caller = "join"
    /\ worker = "done"
    /\ caller' = "gone"
    /\ light' = Off
    /\ UNCHANGED <<sharedVars, worker, colour, shownLeft, wanted, owed>>

Caller ==
    \/ \E c \in Colours : Show(c)
    \/ Arm \/ NotifyCommand \/ StoreStop \/ NotifyStop \/ Join

-----------------------------------------------------------------------------
(* Time, in ticks; any delay is possible between two steps.                *)

Less(left) == IF left > 0 THEN left - 1 ELSE 0

Tick ==
    /\ \E left \in {offLeft, shownLeft, wanted.left, owed.left} : left > 0
    /\ offLeft' = Less(offLeft)
    /\ shownLeft' = Less(shownLeft)
    /\ wanted' = [wanted EXCEPT !.left = Less(@)]
    /\ owed' = [owed EXCEPT !.left = Less(@)]
    /\ UNCHANGED <<target, dirty, stop, worker, colour, light, caller>>

Terminated == caller = "gone" /\ UNCHANGED vars

Next == Worker \/ SpuriousWakeup \/ Caller \/ Tick \/ Terminated

Spec == Init /\ [][Next]_vars

\* The threads run, time passes, a mutex that is free infinitely often is
\* given; nobody has to call.
Fairness ==
    /\ WF_vars(Worker)
    /\ SF_vars(Arm)
    /\ WF_vars(NotifyCommand \/ NotifyStop \/ Join)
    /\ WF_vars(Tick)

FairSpec == Spec /\ Fairness

-----------------------------------------------------------------------------
(* Properties.                                                             *)

\* No command is lost: the worker sleeps on one it has not seen only while
\* the notification is still to come.
NoLostCommand ==
    worker \in {"idle_wait", "hold_wait"} /\ dirty => caller = "notify"

\* When both threads are at rest the LED shows the last command for as long
\* as it was asked for and nothing afterwards, however commands, deadlines
\* and wakeups interleaved.
LightFollowsCommand ==
    caller = "idle" =>
        /\ worker = "idle_wait" => light = Off /\ owed.left = 0
        /\ worker = "hold_wait" /\ shownLeft > 0 =>
               light = owed.colour /\ owed.left = shownLeft

\* Every command is followed: none is slept on, and the light is the last
\* one's.
CommandsFollowed == NoLostCommand /\ LightFollowsCommand

\* The LED does not stay on for ever when nobody calls any more.
GoesOff == <>[](caller = "idle") => <>[](light = Off)

-----------------------------------------------------------------------------
(* The inductive invariants behind NoLostCommand and LightFollowsCommand.  *)

WakeupInv ==
    /\ TypeOK
    /\ worker \in {"idle_block", "hold_block"} => ~dirty
    /\ NoLostCommand

\* The last command is in the shared variables until the worker takes it,
\* then in its locals.
CommandKept ==
    /\ dirty => target = owed.colour /\ offLeft = owed.left
    /\ worker \in {"write", "hold_test", "hold_block", "hold_wait", "held"}
           /\ ~dirty => colour = owed.colour /\ shownLeft = owed.left

\* Without a new command the worker leaves its second wait only when the time
\* of the last one is over, and waits for the next with the LED off.
OffWhenOver ==
    /\ worker \in {"hold_test", "hold_block", "hold_wait", "held"} => light = colour
    /\ worker = "held" => stop \/ dirty \/ shownLeft = 0
    /\ worker = "turn_off" /\ ~dirty => owed.left = 0
    /\ worker \in {"loop", "idle_test", "idle_block", "idle_wait"} /\ ~dirty
           => light = Off /\ owed.left = 0

LightInv == WakeupInv /\ CommandKept /\ OffWhenOver

=============================================================================
