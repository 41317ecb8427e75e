-------------------------------- MODULE Door --------------------------------
(***************************************************************************)
(* What the gate promises, without threads, pulses or durations: it opens  *)
(* only while a grant lasts, its servo is switched off only once it has    *)
(* closed, and it does not stay open for ever; the program may end with it *)
(* open, and then moves it once more at most.  Turnstile implements it.    *)
(***************************************************************************)

VARIABLES
    position,  \* "closed", or "ajar": open, or on its way
    powered,   \* the servo holds an angle
    granted,   \* the window of a grant lasts
    retired    \* whether it may still move: the program is ending when "asked"
               \* to, and has taken the gate's last movement from it when "yes"

doorVars == <<position, powered, granted, retired>>

\* The servo may be anywhere when the program starts.
DoorInit ==
    /\ position = "ajar"
    /\ powered = TRUE
    /\ granted = FALSE
    /\ retired = "no"

Grant ==
    /\ granted' = TRUE
    /\ UNCHANGED <<position, powered, retired>>

\* The last movement of the worker that is asked to stop.
LastMove == retired' = IF retired = "no" THEN "no" ELSE "yes"

Opens ==
    /\ powered /\ granted /\ retired # "yes"
    /\ position' = "ajar"
    /\ LastMove
    /\ UNCHANGED <<powered, granted>>

\* The closed angle is commanded.
Closes ==
    /\ powered /\ retired # "yes"
    /\ LastMove
    /\ UNCHANGED <<position, powered, granted>>

\* Time passes: a grant lapses, a gate that is closing arrives, or both.
Passes ==
    /\ granted' = FALSE \/ UNCHANGED granted
    /\ \/ powered /\ position' = "closed"
       \/ UNCHANGED position
    /\ UNCHANGED <<powered, retired>>

Rests ==
    /\ retired # "no" \/ (position = "closed" /\ ~granted)
    /\ powered' = FALSE
    /\ UNCHANGED <<position, granted, retired>>

Wakes ==
    /\ powered' = TRUE
    /\ UNCHANGED <<position, granted, retired>>

Retire ==
    /\ retired = "no"
    /\ retired' = "asked"
    /\ UNCHANGED <<position, powered, granted>>

DoorNext == Grant \/ Opens \/ Closes \/ Passes \/ Rests \/ Wakes \/ Retire

\* Once there are no more grants the gate is closed for good, unless the
\* program ends first, and its servo is off again and again.
Settles ==
    <>[](~granted) => <>[](position = "closed" \/ retired # "no") /\ []<>(~powered)

\* The part of it a finite behaviour can violate, then all of it.
DoorSafety == DoorInit /\ [][DoorNext]_doorVars

DoorSpec == DoorSafety /\ Settles

=============================================================================
