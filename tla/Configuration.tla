---------------------------- MODULE Configuration ----------------------------
(***************************************************************************)
(* What config.py accepts, what the environment overrides, and what the       *)
(* factories can build from an accepted configuration.                        *)
(*                                                                          *)
(* A value is a number in range, "zero" (a number or flag out of range or      *)
(* off), "text", "v1" (the version 1.0) or "empty".  Numbers in range are told  *)
(* apart as delays: "low" is below every default, "high" above, and "num"      *)
(* between the default of an initial delay and that of a longest one.  A      *)
(* section is a function from its fields to values.  The name of a destination  *)
(* is the sequence of its parts between underscores, since the variable of a    *)
(* field is found by the prefix SP_DEST_<NAME>_.                              *)
(***************************************************************************)
EXTENDS Naturals, Sequences
LOCAL INSTANCE SequencesExt

InRange == {"low", "num", "high"}
NoFields == <<>>

(* two sections in one, where the first has the last word                     *)
f ++ g == [x \in DOMAIN f \cup DOMAIN g |-> IF x \in DOMAIN f THEN f[x] ELSE g[x]]

Numbers(fields) == [f \in fields |-> "number"]
Needed(fields)  == [f \in fields |-> "needed"]
Chosen(fields) == [f \in fields |-> "choice"]
Free(fields)    == [f \in fields |-> "free"]

-----------------------------------------------------------------------------
(* The sections: each field, and what __post_init__ asks of it.               *)

TCPInputConfig == Needed({"host"}) ++ Numbers({"port", "timeout"}) ++ Free({"buffer_size"})
SerialInputConfig ==
  Needed({"port"}) ++ Chosen({"parity"}) ++ Free({"rtscts", "xonxoff"})
  ++ Numbers({"baudrate", "bytesize", "stopbits", "timeout"})
NtripInputConfig ==
  Needed({"caster", "mountpoint"}) ++ Free({"username", "password", "tls"}) ++ Chosen({"version"})
  ++ Numbers({"port", "connection_timeout", "data_timeout", "retry_initial_delay",
              "retry_max_delay", "retry_multiplier"})
SurePathDestinationConfig ==
  Needed({"host", "username", "password"})
  ++ Numbers({"port", "connection_timeout", "read_timeout", "heartbeat_timeout",
              "retry_initial_delay", "retry_max_delay", "retry_multiplier"})
NtripDestinationConfig ==
  Needed({"caster", "mountpoint", "password"}) ++ Free({"username"}) ++ Chosen({"version"})
  ++ Numbers({"port", "connection_timeout", "retry_initial_delay", "retry_max_delay", "retry_multiplier"})
TcpServerDestinationConfig == Free({"host"}) ++ Numbers({"port", "max_clients"})
BluetoothConfig ==
  Free({"device_name", "mac_address", "auto_pair", "auto_trust", "pin", "adapter_name"})
  ++ Numbers({"scan_timeout", "read_timeout", "connect_timeout"})

Get(section, field, default) == IF field \in DOMAIN section THEN section[field] ELSE default

Valid(value, asks) ==
  CASE asks = "number" -> value \in InRange
    [] asks = "needed" -> value \notin {"empty", "zero"}
    [] asks = "choice" -> value \in {"text", "v1"}
    [] OTHER           -> TRUE

(* retry_max_delay >= retry_initial_delay; what is not given has its default     *)
InOrder(first, longest) == <<first, longest>> \notin {<<"num", "low">>, <<"high", "num">>, <<"high", "low">>}

(* the dataclass takes the fields, and its __post_init__ does not raise        *)
Constructs(class, required, section) ==
  /\ required \subseteq DOMAIN section /\ DOMAIN section \subseteq DOMAIN class
  /\ \A f \in DOMAIN section : Valid(section[f], class[f])
  /\ InOrder(Get(section, "retry_initial_delay", "num"), Get(section, "retry_max_delay", "num"))

-----------------------------------------------------------------------------
(* Faulty forms of definitions below: plausible bugs that the properties must  *)
(* exclude.  No specification uses them.                                     *)

NothingConverted(field, value) == IF value \in InRange \cup {"zero"} THEN "text" ELSE value
EmptyFilterAccepted(mode, ids) ==
  /\ mode \in {"pass_all", "allowlist", "blocklist"}
  /\ mode = "pass_all" => ids = {}

-----------------------------------------------------------------------------
(* InputConfig                                                              *)

InputSourcesKnown == {"tcp", "serial", "usb_serial", "bluetooth", "ntrip"}
InputAccepted(source, section) ==
  CASE source = "tcp" -> Constructs(TCPInputConfig, {"host", "port"}, section)
    [] source \in {"serial", "usb_serial"} -> Constructs(SerialInputConfig, {"port", "baudrate"}, section)
    [] source = "ntrip" ->
         /\ Constructs(NtripInputConfig, {"caster", "mountpoint"}, section)
         /\ Get(section, "tls", "zero") = "zero" \/ Get(section, "version", "text") # "v1"
    [] source = "bluetooth" -> TRUE
    [] OTHER -> FALSE

FilterAccepted(mode, ids) ==
  /\ mode \in {"pass_all", "allowlist", "blocklist"}
  /\ (mode = "pass_all") <=> (ids = {})

TypedConfig(type, section) ==
  CASE type = "surepath" -> Constructs(SurePathDestinationConfig, {"host", "username", "password"}, section)
    [] type = "ntrip" ->
         /\ Constructs(NtripDestinationConfig, {"caster", "mountpoint", "password"}, section)
         /\ Get(section, "version", "text") = "v1" \/ Get(section, "username", "empty") \in {"text", "v1"}
    [] type = "tcp_server" -> Constructs(TcpServerDestinationConfig, {}, section)
    [] OTHER -> FALSE

(* _parse_destination and DestinationConfig; "enabled" must be a boolean       *)
DestinationAccepted(dest) ==
  /\ dest.name # <<>> /\ dest.enabled \in {"yes", "no"}
  /\ FilterAccepted(dest.mode, dest.ids)
  /\ TypedConfig(dest.type, dest.config)

(* Config.from_dict                                                          *)
Accepted(file) ==
  /\ ~file.v1 /\ file.source \in InputSourcesKnown /\ InputAccepted(file.source, file.input)
  /\ file.destinations # <<>>
  /\ \A i \in DOMAIN file.destinations : DestinationAccepted(file.destinations[i])
  /\ \A i, j \in DOMAIN file.destinations :
       file.destinations[i].name = file.destinations[j].name => i = j
  /\ \E i \in DOMAIN file.destinations : file.destinations[i].enabled = "yes"
  /\ file.metrics \in {"on", "off"}

-----------------------------------------------------------------------------
(* Overrides.  A variable of the input names a group (TCP or SERIAL), a field   *)
(* and a value; one of a destination the parts of a name, a field and a value.  *)

Numeric == {"port", "baudrate", "bytesize", "heartbeat_timeout", "reconnect_max_delay",
            "connection_timeout", "read_timeout", "retry_initial_delay", "retry_max_delay",
            "max_clients", "retry_multiplier", "timeout", "stopbits"}

(* _convert_env_value: a variable is text, a number is digits in it; digits stay   *)
(* text where text is wanted, and are no version and no parity; 1.0 is a number too *)
Converted(field, value) ==
  CASE value \in InRange \cup {"zero"} /\ field \notin Numeric \cup {"version", "parity"} -> "text"
    [] value = "v1" /\ field \in {"timeout", "stopbits"} -> "num"
    [] OTHER -> value

(* the name's prefix matches, and what follows it is taken for the field        *)
Matches(name, var) == IsPrefix(name, var.parts)
FieldOf(name, var) == IF name = var.parts THEN var.field ELSE "unknown"

DestinationOverridden(dest, vars) ==
  LET hits == {v \in vars : Matches(dest.name, v)}
      changed == [f \in {FieldOf(dest.name, v) : v \in hits} |->
                    LET v == CHOOSE v \in hits : FieldOf(dest.name, v) = f
                    IN  Converted(v.field, v.value)]
  IN  IF dest.name = <<>> THEN dest ELSE [dest EXCEPT !.config = changed ++ @]

(* _apply_env_overrides: SERIAL variables are applied after TCP ones, whatever   *)
(* the source is                                                             *)
InputOverridden(section, vars, group) ==
  [f \in {v.field : v \in {x \in vars : x.group = group}} |->
     LET v == CHOOSE v \in vars : v.group = group /\ v.field = f IN Converted(f, v.value)] ++ section

Overridden(file, env) ==
  [file EXCEPT
     !.source = IF env.source = "unset" THEN @ ELSE env.source,
     !.input  = InputOverridden(InputOverridden(@, env.input, "tcp"), env.input, "serial"),
     !.destinations = [i \in DOMAIN @ |-> DestinationOverridden(@[i], env.destinations)]]

-----------------------------------------------------------------------------
(* What the factories build.                                                *)

(* FilterConfig checks the message numbers, which config.py does not            *)
FilterBuilds(mode, ids) == mode = "pass_all" \/ (ids # {} /\ ids \subseteq {"id"})
DestinationBuilds(dest) == FilterBuilds(dest.mode, dest.ids)

(* BluetoothConfig and _validate_config; the other sources were checked         *)
InputBuilds(source, section) ==
  source = "bluetooth" =>
    /\ Constructs(BluetoothConfig, {}, section)
    /\ {Get(section, "device_name", "empty"), Get(section, "mac_address", "empty")} # {"empty"}
=============================================================================
