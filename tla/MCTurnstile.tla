---------------------------- MODULE MCTurnstile ----------------------------
(* Durations for model-checking Turnstile.                                 *)
EXTENDS Turnstile

\* The defaults keep servo_open_ms (5000) far above kCloseHoldMs (500); here
\* the window is longer than the closing phase and its overrun by two ticks.
LongHold == 6
CloseTicks == 3
PulseTicks == 2

=============================================================================
