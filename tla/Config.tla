------------------------------- MODULE Config -------------------------------
(***************************************************************************)
(* Loading the configuration (config.rs), the part of it the script reads   *)
(* (install.rs) and what the runtime starts from it (runtime.rs).           *)
(*                                                                          *)
(* A YAML file is what serde made of it: the keys that are there.  The      *)
(* SMPP_BIND_ variables are a function from what follows the prefix, split  *)
(* at its underscores, to values [text, num]; num is -1 in a text that is   *)
(* no number.  Upper and lower case of names are not told apart.            *)
(***************************************************************************)
EXTENDS Integers, Sequences, Filter

CONSTANTS
  BindNames,  \* the names binds can have, in alphabetical order (a BTreeMap's)
  U16, U32    \* one more than the largest u16, u32

ASSUME ConfigAssumption ==
  /\ BindNames \in Seq(STRING)
  /\ \A i, j \in DOMAIN BindNames : BindNames[i] = BindNames[j] => i = j
  /\ U16 \in Nat /\ U16 > 2775 /\ U32 \in Nat \ {0}

Missing == -1

default_session_init == 5000
default_enquire_link == 30000
default_inactivity == 300000
default_response == 30000
DefaultPort == 2775  \* of the listener and of a bind of the environment

\* The default of each of ServerConfig's and BindConfig's keys (default_*); a
\* bind_address that is None is "", a port that is None is Missing, and tls is
\* a sequence of at most one section, given by its keys.
ServerDefaults ==
  [session_init |-> default_session_init, enquire_link |-> default_enquire_link,
   inactivity |-> default_inactivity, response |-> default_response,
   max_msg_per_sec |-> 0, throttle_action |-> "pace", bind_address |-> "", port |-> Missing,
   tls |-> <<>>]

\* What derive(Default) gives when the file has no `server:` section at all.
NoServerSection ==
  [ServerDefaults EXCEPT !.session_init = 0, !.enquire_link = 0, !.inactivity = 0, !.response = 0]

BindDefaults ==
  [system_type |-> "", bind_type |-> "transceiver", max_msg_per_sec |-> 0,
   enquire_link |-> default_enquire_link, response |-> default_response, tls |-> <<>>]

\* The keys of a bind that have no default.
BindKeys == {"name", "host", "port", "system_id", "password"}

\* A key that is there has a value of its type: u16, u32, TlsConfig, which
\* needs both paths, ThrottleAction.
Typed(section) ==
  /\ "port" \in DOMAIN section => section["port"] \in 0 .. U16 - 1
  /\ "max_msg_per_sec" \in DOMAIN section => section["max_msg_per_sec"] \in 0 .. U32 - 1
  /\ "tls" \in DOMAIN section =>
       \A i \in DOMAIN section["tls"] : {"cert_path", "key_path"} \subseteq section["tls"][i]
  /\ "throttle_action" \in DOMAIN section => section["throttle_action"] \in {"pace", "reject"}

\* The document fits SmppConfig: nothing is missing and nothing ill-typed.
Deserializes(yaml) ==
  /\ \A i \in DOMAIN yaml.server : Typed(yaml.server[i])
  /\ \A i \in DOMAIN yaml.binds : BindKeys \subseteq DOMAIN yaml.binds[i] /\ Typed(yaml.binds[i])
  /\ yaml.port # Missing => yaml.port \in 0 .. U16 - 1

\* A section of the file, the keys that are missing at their defaults.
Section(keys, defaults) ==
  [k \in DOMAIN keys \cup DOMAIN defaults |-> IF k \in DOMAIN keys THEN keys[k] ELSE defaults[k]]

\* from_yaml, of a document that deserializes; `server` is a sequence of at
\* most one section.
FromYaml(yaml) ==
  [server |-> IF yaml.server = <<>> THEN NoServerSection ELSE Section(yaml.server[1], ServerDefaults),
   binds |-> [i \in DOMAIN yaml.binds |-> Section(yaml.binds[i], BindDefaults)],
   default_chain |-> yaml.default_chain,
   bind_address |-> yaml.bind_address, port |-> yaml.port]

\* SmppConfig::listen: nested, then flat, then the default.
Listen(cfg) ==
  [host |-> IF cfg.server.bind_address # "" THEN cfg.server.bind_address
            ELSE IF cfg.bind_address # "" THEN cfg.bind_address ELSE "0.0.0.0",
   port |-> IF cfg.server.port # Missing THEN cfg.server.port
            ELSE IF cfg.port # Missing THEN cfg.port ELSE DefaultPort]

-----------------------------------------------------------------------------
(* binds_from_env.                                                          *)

\* by_name: the first underscore ends the name.
FieldsOf(vars, name) ==
  [field \in {Tail(key) : key \in {k \in DOMAIN vars : Len(k) > 1 /\ Head(k) = name}} |->
     vars[<<name>> \o field]]

Given(fields, f) == f \in DOMAIN fields /\ fields[f].text # ""

ParseU(fields, f, default) == IF Given(fields, f) THEN fields[f].num ELSE default

Numbers == {<<"PORT">>, <<"MAX", "MPS">>, <<"ENQUIRE", "LINK", "MS">>, <<"RESPONSE", "MS">>}

\* A bind that cannot be made fails the whole load.
EnvBindFails(fields) ==
  \/ ~Given(fields, <<"SYSTEM", "ID">>) \/ ~Given(fields, <<"PASSWORD">>)
  \/ \E f \in Numbers : Given(fields, f) /\ fields[f].num = -1

FieldText(fields, f, default) == IF f \in DOMAIN fields THEN fields[f].text ELSE default

EnvBind_Default0(name, fields) ==  \* mutant: parse_u's default for the port is 0
  [name |-> name, host |-> fields[<<"HOST">>].text,
   port |-> ParseU(fields, <<"PORT">>, 0) % U16,
   system_id |-> fields[<<"SYSTEM", "ID">>].text, password |-> fields[<<"PASSWORD">>].text,
   system_type |-> FieldText(fields, <<"SYSTEM", "TYPE">>, ""),
   bind_type |-> FieldText(fields, <<"BIND", "TYPE">>, "transceiver"),
   max_msg_per_sec |-> ParseU(fields, <<"MAX", "MPS">>, 0) % U32,
   enquire_link |-> ParseU(fields, <<"ENQUIRE", "LINK", "MS">>, default_enquire_link),
   response |-> ParseU(fields, <<"RESPONSE", "MS">>, default_response), tls |-> <<>>]

\* `as u16` and `as u32` keep the low bits of a number that is too large.
EnvBind(name, fields) ==
  [name |-> name, host |-> fields[<<"HOST">>].text,
   port |-> ParseU(fields, <<"PORT">>, DefaultPort) % U16,
   system_id |-> fields[<<"SYSTEM", "ID">>].text, password |-> fields[<<"PASSWORD">>].text,
   system_type |-> FieldText(fields, <<"SYSTEM", "TYPE">>, ""),
   bind_type |-> FieldText(fields, <<"BIND", "TYPE">>, "transceiver"),
   max_msg_per_sec |-> ParseU(fields, <<"MAX", "MPS">>, 0) % U32,
   enquire_link |-> ParseU(fields, <<"ENQUIRE", "LINK", "MS">>, default_enquire_link),
   response |-> ParseU(fields, <<"RESPONSE", "MS">>, default_response),
   tls |-> IF FieldText(fields, <<"TLS">>, "") \in {"true", "1", "yes", "on"}
           THEN <<{"cert_path", "key_path"}>> ELSE <<>>]

\* SMPP_BIND_<NAME>_HOST is the discovery signal.
Discovered(vars) ==
  Filter(BindNames, {name \in STRING : Given(FieldsOf(vars, name), <<"HOST">>)})

BindsFromEnv(vars) ==
  LET names == Discovered(vars)
  IN  [i \in DOMAIN names |-> EnvBind(names[i], FieldsOf(vars, names[i]))]

-----------------------------------------------------------------------------
(* from_file, and what is made of the result.                               *)

\* The three SMPP_ overrides; a variable is a sequence of at most one value,
\* and one that makes no sense is ignored.
WithOverrides(cfg, env) ==
  [cfg EXCEPT
     !.default_chain = IF env.default_chain = <<>> THEN @
                       ELSE Filter(env.default_chain[1], STRING \ {""}),
     !.server.max_msg_per_sec = IF env.max_mps = <<>> \/ env.max_mps = <<-1>> THEN @
                                ELSE env.max_mps[1],
     !.server.throttle_action = IF env.throttle_action \in {<<"pace">>, <<"reject">>}
                                THEN env.throttle_action[1] ELSE @]

\* A document that does not deserialize, and a bind of the environment that
\* cannot be made, fail the load.
FromFile(yaml, env) ==
  IF \/ ~Deserializes(yaml)
     \/ \E i \in DOMAIN Discovered(env.binds) :
          EnvBindFails(FieldsOf(env.binds, Discovered(env.binds)[i]))
  THEN [ok |-> FALSE]
  ELSE [ok |-> TRUE,
        cfg |-> WithOverrides([FromYaml(yaml) EXCEPT !.binds = @ \o BindsFromEnv(env.binds)], env)]

\* build_config_dict: `smpp.config()`, which has everything but passwords,
\* timers of binds and TLS.
ConfigDict(cfg) ==
  [listen |-> Listen(cfg), default_chain |-> cfg.default_chain,
   server |-> [k \in DOMAIN cfg.server \ {"tls"} |-> cfg.server[k]],
   binds |-> [i \in DOMAIN cfg.binds |->
                [name |-> cfg.binds[i].name, host |-> cfg.binds[i].host, port |-> cfg.binds[i].port,
                 system_id |-> cfg.binds[i].system_id, system_type |-> cfg.binds[i].system_type,
                 bind_type |-> cfg.binds[i].bind_type,
                 max_msg_per_sec |-> cfg.binds[i].max_msg_per_sec]]]

\* run_bind_loop, up to the loop: what a supervisor makes its clients with.  A
\* bind_type that is none is taken for a transceiver.
Client(bind) ==
  [name |-> bind.name, host |-> bind.host, port |-> bind.port, tls |-> bind.tls # <<>>,
   bind_type |-> IF bind.bind_type \in {"transmitter", "receiver"} THEN bind.bind_type
                 ELSE "transceiver",
   system_id |-> bind.system_id, password |-> bind.password, system_type |-> bind.system_type,
   max_msg_per_sec |-> bind.max_msg_per_sec, enquire_link |-> bind.enquire_link,
   response |-> bind.response]

\* spawn: the listener, which is given no TLS, the inbound limit and one
\* supervisor per bind.
Spawn(cfg) ==
  [listen |-> IF Listen(cfg).host = "no-address" THEN [Listen(cfg) EXCEPT !.host = "0.0.0.0"]
              ELSE Listen(cfg),
   tls |-> FALSE,
   timers |-> [session_init |-> cfg.server.session_init, enquire_link |-> cfg.server.enquire_link,
               inactivity |-> cfg.server.inactivity, response |-> cfg.server.response],
   inbound_max_mps |-> cfg.server.max_msg_per_sec,
   inbound_throttle_action |-> cfg.server.throttle_action,
   supervisors |-> [i \in DOMAIN cfg.binds |-> Client(cfg.binds[i])]]
=============================================================================
