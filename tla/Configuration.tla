---------------------------- MODULE Configuration ----------------------------
(***************************************************************************)
(* load_config: a TOML file is parsed, every field that is absent or of    *)
(* another type takes its default, and the result is validated.            *)
(*                                                                         *)
(* A file is the function from the fields it gives to their values and the *)
(* set of its sections.  A string is 0 when empty, else 1; logging.level   *)
(* is 1 when it is one of the five; the threshold is in hundredths.        *)
(***************************************************************************)
EXTENDS Integers

CONSTANT TomlNaN  \* a TOML float may be nan, which no comparison is true of

ASSUME NaNAssumption == TomlNaN \notin Int

MandatorySections == {"vision", "camera", "gpio", "storage", "mqtt", "logging"}
OptionalSections == {"recognition", "metrics"}

Pins == {"servo_pin", "buzzer_pin", "rgb_red_pin", "rgb_green_pin", "rgb_blue_pin"}

FieldsOf == [
    root |-> {"device_id"},
    vision |-> {"threshold", "blazeface_model", "mobilefacenet_model", "onnx_threads"},
    camera |-> {"device", "width", "height", "fps"},
    gpio |-> Pins \cup {"enabled", "servo_open_ms", "buzzer_beep_ms"},
    recognition |-> {"idle_reset_seconds", "unknown_throttle_seconds",
                     "denied_cooldown_ms", "face_stabilization_ms"},
    storage |-> {"sqlite_path"},
    mqtt |-> {"broker_host", "broker_port", "client_id", "keepalive_seconds",
              "heartbeat_interval_seconds"},
    logging |-> {"level"},
    metrics |-> {"csv_path", "summary_interval_cycles"}]

Fields == UNION {FieldsOf[s] : s \in DOMAIN FieldsOf}

\* The arguments of value_or.
Default(f) ==
    CASE f = "threshold" -> 45
      [] f = "onnx_threads" -> 2
      [] f = "width" -> 640
      [] f = "height" -> 480
      [] f = "fps" -> 30
      [] f \in Pins -> -1
      [] f = "enabled" -> 1
      [] f = "servo_open_ms" -> 5000
      [] f = "buzzer_beep_ms" -> 300
      [] f = "idle_reset_seconds" -> 3
      [] f = "unknown_throttle_seconds" -> 10
      [] f = "denied_cooldown_ms" -> 1000
      [] f = "face_stabilization_ms" -> 700
      [] f = "broker_port" -> 1883
      [] f = "keepalive_seconds" -> 60
      [] f = "heartbeat_interval_seconds" -> 30
      [] f = "level" -> 1
      [] OTHER -> 0

\* parse_vision, parse_camera, ...
Parse(file) ==
    [f \in Fields |-> IF f \in DOMAIN file.given THEN file.given[f] ELSE Default(f)]

Required == {"device_id", "blazeface_model", "mobilefacenet_model", "device",
             "sqlite_path", "broker_host", "client_id", "level"}

\* A plausible bug: the summaries, off by default, must be on.
Positive_Summary == {"onnx_threads", "width", "height", "fps", "idle_reset_seconds",
             "unknown_throttle_seconds", "denied_cooldown_ms", "broker_port",
             "keepalive_seconds", "heartbeat_interval_seconds",
             "summary_interval_cycles"}

Positive == {"onnx_threads", "width", "height", "fps", "idle_reset_seconds",
             "unknown_throttle_seconds", "denied_cooldown_ms", "broker_port",
             "keepalive_seconds", "heartbeat_interval_seconds"}

\* A plausible bug: neighbours are not compared (j starts at i + 2).
PinsDiffer_NotNext(cfg) ==
    \A p, q \in Pins :
        p # q /\ {p, q} # {"servo_pin", "buzzer_pin"} => cfg[p] # cfg[q]

PinsDiffer(cfg) == \A p, q \in Pins : p # q => cfg[p] # cfg[q]

GpioValid(cfg) ==
    /\ \A p \in Pins : cfg[p] >= 0
    /\ PinsDiffer(cfg)
    /\ cfg["servo_open_ms"] > 0
    /\ cfg["buzzer_beep_ms"] > 0

\* validate; which of several errors is reported does not matter here.
Valid(cfg) ==
    /\ \A f \in Required : cfg[f] # 0
    /\ \A f \in Positive : cfg[f] > 0
    /\ cfg["threshold"] = TomlNaN \/ cfg["threshold"] \in 0..200
    /\ cfg["face_stabilization_ms"] >= 0
    /\ cfg["broker_port"] <= 65535
    /\ cfg["enabled"] = 1 => GpioValid(cfg)

\* load_config throws unless
Loads(file) == MandatorySections \subseteq file.sections /\ Valid(Parse(file))

-----------------------------------------------------------------------------
(* What a field that is left out may change.                               *)

Without(file, f) ==
    [file EXCEPT !.given = [g \in DOMAIN file.given \ {f} |-> file.given[g]]]

\* A file that loads still loads when a field is left out that is not marked
\* as required: every default passes the validation.  (enabled is not: it
\* turns the GPIO on.)
OptionalMayBeOmitted(file) ==
    Loads(file) =>
        \A f \in Fields \ (Required \cup Pins \cup {"enabled"}) : Loads(Without(file, f))

=============================================================================
