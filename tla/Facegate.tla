------------------------------ MODULE Facegate ------------------------------
(***************************************************************************)
(* The facegate program: main constructs the components one after the      *)
(* other, each of which may throw, waits for a signal and leaves; the      *)
(* destructors run in the reverse order, also when a constructor has       *)
(* thrown.  Components run threads that use other components by reference. *)
(***************************************************************************)
EXTENDS Configuration, Sequences, FiniteSets

CONSTANTS
    Files,    \* the configuration files tried: name -> contents
    NoFile    \* before one is loaded

\* A plausible bug: the subscriber is declared before the matcher it refers to.
Order_SubscriberFirst ==
    <<"storage", "camera", "turnstile", "buzzer", "led", "detector", "embedder",
      "sync_subscriber", "matcher", "publisher", "pipeline">>

\* The local variables of main, in the order of their declarations.
Order ==
    <<"storage", "camera", "turnstile", "buzzer", "led", "detector", "embedder",
      "matcher", "publisher", "sync_subscriber", "pipeline">>

Components == {Order[i] : i \in DOMAIN Order}

\* The references that a component's threads hold.
Uses(c) ==
    CASE c = "pipeline" -> Components \ {"pipeline", "sync_subscriber"}
      [] c = "sync_subscriber" -> {"storage", "matcher"}
      [] OTHER -> {}

\* Components with a thread of their own; without GPIO the actuators have none.
Threaded(cfg) ==
    {"camera", "publisher", "sync_subscriber", "pipeline"}
        \cup IF cfg["enabled"] = 1 THEN {"turnstile", "led"} ELSE {}

\* The GPIO lines a component requests from the chip.
Lines(c) ==
    CASE c = "turnstile" -> {"servo_pin"}
      [] c = "buzzer" -> {"buzzer_pin"}
      [] c = "led" -> {"rgb_red_pin", "rgb_green_pin", "rgb_blue_pin"}
      [] OTHER -> {}

VARIABLES
    phase,     \* where main is
    file,      \* the name of the configuration file
    built,     \* how many of Order exist
    threads,   \* components whose threads run
    asked,     \* components whose threads are asked to stop
    handlers,  \* install_signal_handlers has run
    stopRequested, \* g_stop_requested
    code,      \* the exit code
    threw      \* history: something has thrown

programVars == <<phase, file, built, threads, asked, handlers, stopRequested,
                 code, threw>>

Phases == {"start", "load", "construct", "wait", "unwind", "exited", "killed"}

Alive == {Order[i] : i \in 1..built}

ProgramTypeOK ==
    /\ phase \in Phases
    /\ file \in DOMAIN Files \cup {NoFile}
    /\ built \in 0..Len(Order)
    /\ asked \subseteq threads
    /\ phase = "wait" => built = Len(Order)
    /\ code \in {0, 1, 2}

ProgramInit ==
    /\ phase = "start"
    /\ file = NoFile
    /\ built = 0
    /\ threads = {}
    /\ asked = {}
    /\ handlers = FALSE
    /\ stopRequested = FALSE
    /\ code = 0
    /\ threw = FALSE

\* parse_config_path
Usage ==
    /\ phase = "start"
    /\ \/ phase' = "load" /\ UNCHANGED code
       \/ phase' = "exited" /\ code' = 2
    /\ UNCHANGED <<file, built, threads, asked, handlers, stopRequested, threw>>

Throw ==
    /\ phase' = "unwind"
    /\ code' = 1
    /\ threw' = TRUE

Load ==
    /\ phase = "load"
    /\ file' \in DOMAIN Files
    /\ \/ Loads(Files[file']) /\ phase' = "construct" /\ UNCHANGED <<code, threw>>
       \/ ~Loads(Files[file']) /\ Throw
    /\ UNCHANGED <<built, threads, asked, handlers, stopRequested>>

\* A plausible bug: the handlers are installed when everything runs.
HandlersDue_Last == built = Len(Order)

\* install_signal_handlers precedes the pipeline.
HandlersDue == built = Len(Order) - 1

InstallHandlers ==
    /\ phase = "construct"
    /\ HandlersDue
    /\ ~handlers
    /\ handlers' = TRUE
    /\ UNCHANGED <<phase, file, built, threads, asked, stopRequested, code, threw>>

Construct1 ==
    /\ phase = "construct"
    /\ built < Len(Order)
    /\ ~(HandlersDue /\ ~handlers)
    /\ built' = built + 1
    /\ threads' = threads \cup ({Order[built']} \cap Threaded(Parse(Files[file])))
    /\ UNCHANGED <<phase, file, asked, handlers, stopRequested, code, threw>>

\* A file, a device, a model, a chip, the broker's address or a thread is not
\* to be had.  A constructor that throws has ended the threads it started.
ConstructorThrows ==
    /\ phase = "construct"
    /\ built < Len(Order)
    /\ ~(HandlersDue /\ ~handlers)
    /\ Throw
    /\ UNCHANGED <<file, built, threads, asked, handlers, stopRequested>>

\* A plausible bug: main waits without a pipeline.
Wait_Early ==
    /\ phase = "construct"
    /\ handlers
    /\ phase' = "wait"
    /\ UNCHANGED <<file, built, threads, asked, handlers, stopRequested, code, threw>>

Wait ==
    /\ phase = "construct"
    /\ built = Len(Order)
    /\ handlers
    /\ phase' = "wait"
    /\ UNCHANGED <<file, built, threads, asked, handlers, stopRequested, code, threw>>

\* SIGINT or SIGTERM; without a handler it ends the process on the spot.
Signal ==
    /\ phase \notin {"exited", "killed"}
    /\ ~stopRequested
    /\ \/ handlers /\ stopRequested' = TRUE /\ UNCHANGED phase
       \/ ~handlers /\ phase' = "killed" /\ UNCHANGED stopRequested
    /\ UNCHANGED <<file, built, threads, asked, handlers, code, threw>>

Leave ==
    /\ phase = "wait"
    /\ stopRequested
    /\ phase' = "unwind"
    /\ asked' = asked \cup {"pipeline"}
    /\ UNCHANGED <<file, built, threads, handlers, stopRequested, code, threw>>

\* A destructor: the thread is asked to stop,
AskToStop ==
    /\ phase = "unwind"
    /\ built > 0
    /\ Order[built] \in threads \ asked
    /\ asked' = asked \cup {Order[built]}
    /\ UNCHANGED <<phase, file, built, threads, handlers, stopRequested, code, threw>>

ThreadEnds(c) ==
    /\ c \in asked
    /\ threads' = threads \ {c}
    /\ asked' = asked \ {c}
    /\ UNCHANGED <<phase, file, built, handlers, stopRequested, code, threw>>

\* A plausible bug: the thread is not joined.
Destroyed_NotJoined ==
    /\ phase = "unwind"
    /\ built > 0
    /\ Order[built] \in threads => Order[built] \in asked
    /\ built' = built - 1
    /\ UNCHANGED <<phase, file, threads, asked, handlers, stopRequested, code, threw>>

\* and joined.
Destroyed ==
    /\ phase = "unwind"
    /\ built > 0
    /\ Order[built] \notin threads
    /\ built' = built - 1
    /\ UNCHANGED <<phase, file, threads, asked, handlers, stopRequested, code, threw>>

Exit ==
    /\ phase = "unwind"
    /\ built = 0
    /\ phase' = "exited"
    /\ UNCHANGED <<file, built, threads, asked, handlers, stopRequested, code, threw>>

Ended == phase \in {"exited", "killed"} /\ UNCHANGED programVars

ProgramNext ==
    \/ Usage \/ Load \/ InstallHandlers \/ Construct1 \/ ConstructorThrows \/ Wait
    \/ Signal \/ Leave \/ AskToStop \/ Destroyed \/ Exit \/ Ended
    \/ \E c \in Components : ThreadEnds(c)

ProgramSpec == ProgramInit /\ [][ProgramNext]_programVars

-----------------------------------------------------------------------------
(* Properties.                                                             *)

\* No thread outlives a component it uses, whichever constructor throws and
\* whenever the signal comes.
NoDanglingReference == \A c \in threads : Uses(c) \cup {c} \subseteq Alive

\* Once the pipeline runs, and so may grant access, SIGINT or SIGTERM no longer
\* ends the program without its destructors, which switch the servo off
\* (DESIGN.md:198).  They do not close the gate: a stop during an open window
\* leaves it where the last open pulse put it (Turnstile).
KilledOnlyBeforePipeline == phase = "killed" => "pipeline" \notin threads

\* With a file that loads, no GPIO line is requested twice.
LinesAreOnesOwn ==
    built > 0 =>
        LET cfg == Parse(Files[file])
        IN  cfg["enabled"] = 1 =>
                \A c, d \in Alive : \A p \in Lines(c), q \in Lines(d) :
                    cfg[p] = cfg[q] => p = q

\* Every file that loads shows that the defaults are valid.
DefaultsAreValid ==
    phase = "construct" /\ built = 0 => OptionalMayBeOmitted(Files[file])

\* The program starts only on sound settings and ends without a thread that uses
\* what is gone, and through its destructors once the pipeline has run, whatever
\* fails and whenever the signal comes.
StartsAndEndsSafely ==
    NoDanglingReference /\ KilledOnlyBeforePipeline /\ LinesAreOnesOwn /\ DefaultsAreValid

=============================================================================
