------------------------------ MODULE MCService ------------------------------
(* Configuration files and environments for TLC: good ones, and ones that go     *)
(* wrong in each way that from_dict or a constructor notices.                  *)
EXTENDS Service

SurePath(name) ==
  [name |-> name, type |-> "surepath", enabled |-> "yes", mode |-> "pass_all", ids |-> {},
   config |-> [host |-> "text", username |-> "text", password |-> "text"]]
Caster(name) ==
  [name |-> name, type |-> "ntrip", enabled |-> "yes", mode |-> "allowlist", ids |-> {"id"},
   config |-> [caster |-> "text", mountpoint |-> "text", password |-> "text", username |-> "text"]]
Lan(name) ==
  [name |-> name, type |-> "tcp_server", enabled |-> "no", mode |-> "pass_all", ids |-> {},
   config |-> NoFields]
Delayed(dest, first, longest) ==
  [dest EXCEPT !.config = [retry_initial_delay |-> first, retry_max_delay |-> longest] ++ @]

MCInputs ==
  { [source |-> "tcp",        input |-> [host |-> "text", port |-> "num"]],
    [source |-> "tcp",        input |-> [host |-> "text", port |-> "text"]],
    [source |-> "usb_serial", input |-> [port |-> "text", baudrate |-> "num"]],
    [source |-> "ntrip",      input |-> [caster |-> "text", mountpoint |-> "text"]],
    [source |-> "ntrip",      input |-> [caster |-> "text", mountpoint |-> "text", tls |-> "num", version |-> "v1"]],
    [source |-> "bluetooth",  input |-> [mac_address |-> "text"]],
    [source |-> "bluetooth",  input |-> [pin |-> "text"]],
    [source |-> "gpsd",       input |-> NoFields] }
MCDestinations ==
  { <<SurePath(<<"rtk">>)>>,
    <<SurePath(<<"rtk">>), Caster(<<"rtk", "2">>)>>,
    <<Lan(<<"lan">>), SurePath(<<"rtk">>)>>,
    <<Lan(<<"lan">>)>>,
    <<SurePath(<<"rtk">>), Lan(<<"rtk">>)>>,
    <<Lan(<<"lan">>), Caster(<<"caster">>)>>,
    <<[Caster(<<"rtk">>) EXCEPT !.ids = {"id", "outside"}]>>,
    <<[Caster(<<"rtk">>) EXCEPT !.ids = {}]>>,
    <<[SurePath(<<"rtk">>) EXCEPT !.mode = "blocklist", !.ids = {}]>>,
    <<[Caster(<<"rtk">>) EXCEPT !.config = [caster |-> "text", mountpoint |-> "text", password |-> "text"]]>>,
    <<Delayed(SurePath(<<"rtk">>), "low", "low")>>,
    <<Delayed(SurePath(<<"rtk">>), "high", "num")>> }
MCFiles ==
  {[v1 |-> FALSE, source |-> i.source, input |-> i.input, destinations |-> d, metrics |-> m] :
     i \in MCInputs, d \in MCDestinations, m \in {"on", "off"}}
  \cup {[v1 |-> TRUE, source |-> "tcp", input |-> [host |-> "text", port |-> "num"],
         destinations |-> <<SurePath(<<"rtk">>)>>, metrics |-> "off"]}

DestVar(name, field, value) == [parts |-> name, field |-> field, value |-> value]
InputVar(group, field, value) == [group |-> group, field |-> field, value |-> value]
Set(source, ins, outs) == [source |-> source, input |-> ins, destinations |-> outs]
MCEnvs ==
  { Set("unset", {}, {}),
    Set("tcp", {InputVar("tcp", "host", "text"), InputVar("tcp", "port", "num")}, {}),
    Set("unset", {InputVar("tcp", "port", "num")}, {}),
    Set("unset", {InputVar("serial", "port", "text"), InputVar("serial", "stopbits", "num")}, {}),
    Set("unset", {}, {DestVar(<<"rtk">>, "port", "num"), DestVar(<<"rtk">>, "password", "num")}),
    Set("unset", {}, {DestVar(<<"rtk">>, "port", "text")}),
    Set("unset", {}, {DestVar(<<"rtk", "2">>, "username", "text")}),
    Set("unset", {}, {DestVar(<<"lan">>, "max_clients", "num")}),
    Set("unset", {}, {DestVar(<<"caster">>, "version", "text"), DestVar(<<"caster">>, "username", "num")}),
    Set("unset", {}, {DestVar(<<"caster">>, "version", "text"), DestVar(<<"caster">>, "username", "empty")}),
    Set("unset", {}, {DestVar(<<"rtk">>, "retry_initial_delay", "high")}),
    Set("unset", {}, {DestVar(<<"rtk">>, "retry_initial_delay", "high"), DestVar(<<"rtk">>, "retry_max_delay", "high")}),
    Set("unset", {}, {DestVar(<<"rtk">>, "retry_initial_delay", "num"), DestVar(<<"rtk">>, "password", "num")}) }
=============================================================================
