--------------------------- MODULE MCRecognition ---------------------------
(* Times for model-checking Recognition: the order of the defaults (0.3 s  *)
(* grace, 0.7 s stabilization, 1 s cooldown, 3 s idle reset, 5 s window,   *)
(* 10 s throttle) with one or two ticks between neighbours, and an idle    *)
(* reset just long enough for one grant in a stay.                         *)
EXTENDS Recognition, TLC

Defaults == [hold |-> 12, idle |-> 10, glitches |-> GlitchKinds]
LongIdle == [hold |-> 10, idle |-> 16, glitches |-> {"detect", "embed"}]

BothSettings == {Defaults, LongIdle}
DefaultsWithoutGlitches == {[Defaults EXCEPT !.glitches = {}]}

Symmetry == Permutations(Employees) \cup Permutations(Strangers)

=============================================================================
