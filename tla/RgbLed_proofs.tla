--------------------------- MODULE RgbLed_proofs ---------------------------
(***************************************************************************)
(* Proofs about RgbLed, for all colours and durations and any timing of    *)
(* the two threads.                                                        *)
(***************************************************************************)
EXTENDS RgbLed, TLAPS

USE LedAssumption

-----------------------------------------------------------------------------
(* Type correctness.                                                       *)

LEMMA LessIsBounded ==
    ASSUME NEW left \in 0..MaxHold
    PROVE  Less(left) \in 0..MaxHold
BY DEF Less

LEMMA TypeInit == Init => TypeOK
<1>1. 0 \in 0..MaxHold
  OBVIOUS
<1>2. Nothing \in Command
  BY <1>1 DEF Nothing, Command
<1> QED BY <1>1, <1>2 DEF Init, TypeOK, WorkerSteps, CallerSteps

LEMMA TypeNext == TypeOK /\ [Next]_vars => TypeOK'
<1> SUFFICES ASSUME TypeOK, [Next]_vars PROVE TypeOK'
  OBVIOUS
<1> USE DEF TypeOK, WorkerSteps, CallerSteps, Goes
<1>0. wanted.left \in 0..MaxHold /\ owed.left \in 0..MaxHold
      /\ wanted.colour \in Colours \cup {Off}
  BY DEF Command
<1>1. CASE Worker
  <2>1. CASE LoopTest
    BY <2>1 DEF LoopTest, sharedVars, callerVars
  <2>2. CASE IdleTest
    BY <2>2 DEF IdleTest, callerVars
  <2>3. CASE Block
    BY <2>3 DEF Block, sharedVars, callerVars
  <2>4. CASE Write
    BY <2>4 DEF Write, sharedVars, callerVars
  <2>5. CASE HoldTest
    BY <2>5 DEF HoldTest, sharedVars, callerVars
  <2>6. CASE TimedOut
    BY <2>6 DEF TimedOut, sharedVars, callerVars
  <2>7. CASE Held
    BY <2>7 DEF Held, sharedVars, callerVars
  <2>8. CASE TurnOff
    BY <2>8 DEF TurnOff, sharedVars, callerVars
  <2> QED BY <1>1, <2>1, <2>2, <2>3, <2>4, <2>5, <2>6, <2>7, <2>8 DEF Worker
<1>2. CASE SpuriousWakeup
  BY <1>2 DEF SpuriousWakeup, sharedVars, callerVars
<1>3. CASE Caller
  <2>1. ASSUME NEW c \in Colours, Show(c) PROVE TypeOK'
    <3>1. wanted' \in Command
      BY <2>1 DEF Show, Command
    <3> QED BY <2>1, <3>1 DEF Show, sharedVars, workerVars
  <2>2. CASE Arm
    BY <2>2, <1>0 DEF Arm, workerVars, Command, Nothing
  <2>3. CASE NotifyCommand
    BY <2>3 DEF NotifyCommand, NotifyAll, sharedVars
  <2>4. CASE StoreStop
    BY <2>4 DEF StoreStop, workerVars
  <2>5. CASE NotifyStop
    BY <2>5 DEF NotifyStop, NotifyAll, sharedVars
  <2>6. CASE Join
    BY <2>6 DEF Join, sharedVars
  <2> QED BY <1>3, <2>1, <2>2, <2>3, <2>4, <2>5, <2>6 DEF Caller
<1>4. CASE Tick
  <2>1. /\ offLeft' \in 0..MaxHold /\ shownLeft' \in 0..MaxHold
        /\ Less(wanted.left) \in 0..MaxHold /\ Less(owed.left) \in 0..MaxHold
    BY <1>4, <1>0, LessIsBounded DEF Tick
  <2>2. wanted' \in Command /\ owed' \in Command
    BY <1>4, <2>1 DEF Tick, Command
  <2> QED BY <1>4, <2>1, <2>2 DEF Tick
<1>5. CASE Terminated \/ UNCHANGED vars
  BY <1>5 DEF Terminated, vars, sharedVars, workerVars, callerVars
<1> QED BY <1>1, <1>2, <1>3, <1>4, <1>5 DEF Next

\* The deadlines of the LED never lie further ahead than the longest hold_ms:
\* a new command replaces the one before it, the times do not add up.
THEOREM LedTypeCorrect == Spec => []TypeOK
BY TypeInit, TypeNext, PTL DEF Spec

-----------------------------------------------------------------------------
(* Wakeups.                                                                *)

LEMMA WakeupInit == Init => WakeupInv
BY TypeInit DEF Init, WakeupInv, NoLostCommand

LEMMA WakeupNext == WakeupInv /\ [Next]_vars => WakeupInv'
<1> SUFFICES ASSUME WakeupInv, [Next]_vars PROVE WakeupInv'
  OBVIOUS
<1>0. TypeOK'
  BY TypeNext DEF WakeupInv
<1> USE <1>0 DEF WakeupInv, NoLostCommand, Goes
<1>1. CASE Worker
  BY <1>1 DEF Worker, LoopTest, IdleTest, Block, Write, HoldTest, TimedOut,
              Held, TurnOff, sharedVars, callerVars
<1>2. CASE SpuriousWakeup
  BY <1>2 DEF SpuriousWakeup, sharedVars, callerVars
<1>3. CASE Caller
  <2>1. ASSUME NEW c \in Colours, Show(c) PROVE WakeupInv'
    BY <2>1 DEF Show, sharedVars, workerVars
  <2>2. CASE Arm
    BY <2>2 DEF Arm, MutexFree, workerVars
  <2>3. CASE NotifyCommand \/ NotifyStop
    BY <2>3 DEF NotifyCommand, NotifyStop, NotifyAll, sharedVars, TypeOK,
                WorkerSteps
  <2>4. CASE StoreStop \/ Join
    BY <2>4 DEF StoreStop, Join, workerVars, sharedVars
  <2> QED BY <1>3, <2>1, <2>2, <2>3, <2>4 DEF Caller
<1>4. CASE Tick
  BY <1>4 DEF Tick
<1>5. CASE Terminated \/ UNCHANGED vars
  BY <1>5 DEF Terminated, vars, sharedVars, workerVars, callerVars
<1> QED BY <1>1, <1>2, <1>3, <1>4, <1>5 DEF Next

\* The worker never sleeps on a command that nobody will wake it for: arm
\* sets dirty_ under the mutex, so either the predicate sees it or the
\* notification finds the worker asleep.
THEOREM CommandIsNotLost == Spec => []NoLostCommand
<1>1. WakeupInv => NoLostCommand
  BY DEF WakeupInv
<1> QED BY <1>1, WakeupInit, WakeupNext, PTL DEF Spec

-----------------------------------------------------------------------------
(* The light.                                                              *)

LEMMA LightInit == Init => LightInv
BY WakeupInit DEF Init, LightInv, CommandKept, OffWhenOver, Nothing

LEMMA LightNext == LightInv /\ [Next]_vars => LightInv'
<1> SUFFICES ASSUME LightInv, [Next]_vars PROVE (CommandKept /\ OffWhenOver)'
  BY WakeupNext DEF LightInv
<1> USE DEF CommandKept, OffWhenOver, Goes
<1>0. CommandKept /\ OffWhenOver /\ WakeupInv /\ TypeOK
  BY DEF LightInv, WakeupInv
<1>1. CASE Worker
  <2>1. CASE LoopTest
    BY <1>0, <2>1 DEF LoopTest, sharedVars, callerVars
  <2>2. CASE IdleTest
    BY <1>0, <2>2 DEF IdleTest, callerVars
  <2>3. CASE Block \/ Write
    BY <1>0, <2>3 DEF Block, Write, sharedVars, callerVars
  <2>4. CASE HoldTest \/ TimedOut
    BY <1>0, <2>4 DEF HoldTest, TimedOut, sharedVars, callerVars
  <2>5. CASE Held
    BY <1>0, <2>5 DEF Held, sharedVars, callerVars
  <2>6. CASE TurnOff
    BY <1>0, <2>6 DEF TurnOff, sharedVars, callerVars
  <2> QED BY <1>1, <2>1, <2>2, <2>3, <2>4, <2>5, <2>6 DEF Worker
<1>2. CASE SpuriousWakeup
  BY <1>0, <1>2 DEF SpuriousWakeup, sharedVars, callerVars, WakeupInv,
                    NoLostCommand
<1>3. CASE Caller
  <2>1. ASSUME NEW c \in Colours, Show(c) PROVE (CommandKept /\ OffWhenOver)'
    BY <1>0, <2>1 DEF Show, sharedVars, workerVars
  <2>2. CASE Arm
    BY <1>0, <2>2 DEF Arm, MutexFree, workerVars
  <2>3. CASE NotifyCommand \/ NotifyStop
    BY <1>0, <2>3 DEF NotifyCommand, NotifyStop, NotifyAll, sharedVars, TypeOK,
                      WorkerSteps
  <2>4. CASE StoreStop \/ Join
    BY <1>0, <2>4 DEF StoreStop, Join, workerVars, sharedVars
  <2> QED BY <1>3, <2>1, <2>2, <2>3, <2>4 DEF Caller
<1>4. CASE Tick
  <2>1. owed'.left = Less(owed.left) /\ owed'.colour = owed.colour
    BY <1>0, <1>4 DEF Tick, TypeOK, Command
  <2>2. Less(0) = 0
    BY DEF Less
  <2> QED BY <1>0, <1>4, <2>1, <2>2 DEF Tick
<1>5. CASE Terminated \/ UNCHANGED vars
  BY <1>0, <1>5 DEF Terminated, vars, sharedVars, workerVars, callerVars
<1> QED BY <1>1, <1>2, <1>3, <1>4, <1>5 DEF Next

\* Whenever both threads are at rest the LED shows the last command asked for,
\* for as long as it was asked for, and is off when that time is over.
THEOREM LightIsRight == Spec => []LightFollowsCommand
<1>1. LightInv => LightFollowsCommand
  BY DEF LightInv, WakeupInv, NoLostCommand, CommandKept, OffWhenOver,
         LightFollowsCommand
<1> QED BY <1>1, LightInit, LightNext, PTL DEF Spec

\* Both together: every command is followed.
THEOREM CommandsAreFollowed == Spec => []CommandsFollowed
BY CommandIsNotLost, LightIsRight, PTL DEF CommandsFollowed

=============================================================================
