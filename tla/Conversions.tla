----------------------------- MODULE Conversions -----------------------------
(***************************************************************************)
(* The conversions of the crate, called one at a time: script values to     *)
(* optional parameters (Tlv), receipts and their relay (Receipt), messages  *)
(* and answers from script to script (Messages, Answers), and the           *)
(* configuration (Config).  They keep no state: `call` is the call being     *)
(* made and its result.                                                     *)
(***************************************************************************)
EXTENDS FiniteSets, Tlv, Receipt, Messages, Answers, Config

CONSTANTS
  Dicts,        \* arguments tlvs=
  ReceiptPdus,  \* deliver_sm PDUs flagged as receipts
  OurIds,       \* ids the gateway gives out
  Calls,        \* calls of the send helpers
  PeerPdus,     \* PDUs a gateway's peers send it
  Replies,      \* replies of handlers
  PeerStatuses, \* statuses a peer that is not siphon answers with
  Yamls, Envs   \* configuration files and environments

\* What the inputs of the calls are.  A reply_query answers a query_sm, has no
\* TLVs, and asks about an id; a peer's status is the code of a name or has
\* its hexadecimal text.  An empty content is Empty.  A helper is called with
\* the arguments it takes.  What the gateway relays is a message.
ASSUME AnswersAssumption ==
  /\ \A r \in Replies : r.query \in BOOLEAN
  /\ \A r \in Replies : r.query => r.command = "query_sm" /\ r.tlvs = {} /\ r.queried # NoId
  /\ PeerStatuses \subseteq {CodeOf[n] : n \in DOMAIN CodeOf} \cup DOMAIN Hex
  /\ ESME_ROK \notin PeerStatuses

\* A dict's keys and values are what Tlv says they are.
IsKey(key) == key.kind = "int" => key.tag \in Int

IsValue(v) ==
  /\ v.kind \in {"bytes", "str", "int", "other"}
  /\ v.kind \in {"bytes", "str"} => v.octets \in Seq(0 .. OctetBase - 1)
  /\ v.kind = "int" => v.n \in Int

ASSUME DictsAssumption ==
  \A dict \in Dicts :
    dict \in Seq({dict[i] : i \in DOMAIN dict}) /\ \A i \in DOMAIN dict : IsKey(dict[i].key) /\ IsValue(dict[i].value)

\* A receipt's parameters are texts and numbers.  An id the gateway gives out is
\* twelve hexadecimal digits: a word, and no key.
ASSUME ReceiptsAssumption ==
  /\ \A pdu \in ReceiptPdus :
       pdu.is_dlr \in BOOLEAN /\ pdu.body \in Seq(STRING) /\ pdu.state \subseteq Nat
  /\ \A our \in OurIds :
       our \in Seq(STRING) /\ Keyless(our) /\ \A i \in DOMAIN our : our[i] # Blank

IsContent(c) == c.len \in Nat /\ (c.len = 0 => c = Empty)

ASSUME MessagesAssumption ==
  /\ \A c \in Calls :
       /\ c.helper \in DOMAIN CommandOf
       /\ DOMAIN c.args.fields \subseteq Arguments[c.helper]
       /\ IsContent(c.args.short_message)
       /\ c.helper \in {"cancel_via", "query_via"} => c.args.short_message = Empty
       /\ c.helper \notin TakesTlvs => c.args.tlvs = <<>>
       /\ c.args.destinations \in Seq(STRING)
       /\ c.helper # "submit_multi_via" => c.args.destinations = <<>>
  /\ \A pdu \in PeerPdus :
       /\ pdu.command \in DOMAIN RelayedWith
       /\ IsContent(pdu.short_message)
       /\ \A t \in DOMAIN pdu.tlvs : IsContent(pdu.tlvs[t])

\* What follows SMPP_BIND_ in a variable's name starts with one of the names
\* binds can have.
ASSUME InputsAssumption ==
  /\ \A yaml \in Yamls : yaml.binds \in Seq({yaml.binds[i] : i \in DOMAIN yaml.binds})
  /\ \A env \in Envs : \A key \in DOMAIN env.binds :
       /\ key \in Seq(STRING) /\ key # <<>>
       /\ \E i \in DOMAIN BindNames : BindNames[i] = key[1]
       /\ env.binds[key].num \in Nat \cup {-1}

VARIABLE call

idle == [op |-> "idle"]

Init == call = idle

\* tlvs_from_py and what the peer's tlvs_to_py makes of it.
SendTlvs(dict) ==
  /\ call = idle
  /\ LET sent == TlvsFromPy(dict)
     IN  call' = [op |-> "tlvs", dict |-> dict, sent |-> sent,
                  seen |-> IF sent.ok THEN TlvsToPy(sent.value) ELSE <<>>]

\* Pdu.receipt on the gateway and, relayed, on the ESME; `bare` is what an
\* ESME reads that looks at the optional parameters only.  A receipt that is
\* none, or that deliver_to raises for, is not sent.
RelayReceipt(pdu, our) ==
  /\ call = idle
  /\ LET r == ReceiptOf(pdu)
         onward == Relayed(r, our)
         sent == r # None /\ ~onward.raised
     IN  call' = [op |-> "receipt", pdu |-> pdu, our |-> our, parsed |-> Parse(pdu.body), read |-> r,
                  sent |-> sent,
                  relayed |-> IF sent THEN ReceiptOf(onward) ELSE None,
                  bare |-> IF sent THEN ReceiptOf([onward EXCEPT !.body = <<>>]) ELSE None]

\* A send helper, the codec, and the peer's Pdu.
Send(c) ==
  /\ call = idle
  /\ LET sent == Build(c.helper, c.args)
     IN  call' = [op |-> "send", helper |-> c.helper, args |-> c.args, sent |-> sent,
                  seen |-> IF sent.raised THEN sent ELSE PduOf(sent)]

\* A peer's PDU through the gateway to the next hop's Pdu.
RelayMessage(pdu) ==
  /\ call = idle
  /\ LET sent == Relay(PduOf(pdu))
     IN  call' = [op |-> "relay", from |-> PduOf(pdu), sent |-> sent,
                  seen |-> IF sent.raised THEN sent ELSE PduOf(sent)]

\* A handler's reply and what the script that sent the request is told.
Reply(r) ==
  /\ call = idle
  /\ LET reply == IF r.query THEN MakeReplyQuery(r.queried, r.id, r.state)
                  ELSE MakeReply(r.command, r.status, r.id, r.tlvs)
     IN  call' = [op |-> "reply", given |-> r, reply |-> reply,
                  wire |-> IF reply.raised THEN reply ELSE Response(r.command, reply),
                  told |-> IF reply.raised THEN reply
                           ELSE SmppResp(r.command, Response(r.command, reply))]

\* A foreign peer refuses with a status of its own.
PeerRefuses(status) ==
  /\ call = idle
  /\ call' = [op |-> "status", status |-> status, told |-> SmppResp("submit_sm", Bare(status))]

\* Start-up.
Load(yaml, env) ==
  /\ call = idle
  /\ LET loaded == FromFile(yaml, env)
     IN  call' = [op |-> "load", yaml |-> yaml, env |-> env, ok |-> loaded.ok,
                  dict |-> IF loaded.ok THEN ConfigDict(loaded.cfg) ELSE <<>>,
                  runtime |-> IF loaded.ok THEN Spawn(loaded.cfg) ELSE <<>>]

Return == call # idle /\ call' = idle

Next ==
  \/ \E dict \in Dicts : SendTlvs(dict)
  \/ \E pdu \in ReceiptPdus, our \in OurIds : RelayReceipt(pdu, our)
  \/ \E c \in Calls : Send(c)
  \/ \E pdu \in PeerPdus : RelayMessage(pdu)
  \/ \E r \in Replies : Reply(r)
  \/ \E status \in PeerStatuses : PeerRefuses(status)
  \/ \E yaml \in Yamls, env \in Envs : Load(yaml, env)
  \/ Return

Spec == Init /\ [][Next]_call

-----------------------------------------------------------------------------
(***************************************************************************)
(* What a script passes as tlvs= reaches the peer's Pdu.tlvs: one entry per *)
(* item, under its tag, saying what the value meant at the width of the     *)
(* parameter.  The call raises exactly if some item has no meaning or two   *)
(* of them are the same parameter under two names (tlv.rs).                 *)
(***************************************************************************)
TlvsArrive ==
  call.op = "tlvs" =>
    LET dict == call.dict
        tag(i) == KeyTag(dict[i].key)
    IN  /\ call.sent.ok <=> /\ \A i \in DOMAIN dict : ~Unusable(dict[i])
                            /\ \A i, j \in DOMAIN dict : tag(i) = tag(j) => i = j
        /\ call.sent.ok =>
             /\ DOMAIN call.seen = KeyTags(dict)
             /\ \A i \in DOMAIN dict : Means(call.seen[tag(i)], dict[i].value, tag(i))

(***************************************************************************)
(* Receipt::parse finds every field that occurs, wherever the SMSC put it,  *)
(* and gives it the text up to the next field found (pyclasses.rs): the     *)
(* order in which it looks for keys, and keys that end alike, do not show.  *)
(* The next field ends a text too, where the comment on Receipt says        *)
(* otherwise: see TextRunsToTheEnd.                                         *)
(***************************************************************************)
ParseMatchesReference ==
  call.op = "receipt" =>
    IF call.parsed = None THEN ReferenceParse(call.pdu.body) = <<>>
    ELSE [f \in DOMAIN call.parsed \ {"raw"} |-> call.parsed[f]] = ReferenceParse(call.pdu.body)

(***************************************************************************)
(* "`text` always runs to the end of the body" (pyclasses.rs:580-581): the   *)
(* text of a receipt is everything after its first "text:".                 *)
(***************************************************************************)
TextRunsToTheEnd ==
  call.op = "receipt" /\ "text" \in DOMAIN call.parsed =>
    LET body == call.pdu.body
    IN  call.parsed["text"] = Trim(SubSeq(body, Find(body, "text") + 1, Len(body)))

(***************************************************************************)
(* A receipt whose rebuilt body fits a short_message is sent on, and reads  *)
(* on the ESME's side as the one the upstream sent, under the ESME's own    *)
(* id: same state, error, dates and text, also if the text mentions receipt *)
(* keys; and an ESME that reads only the optional parameters sees the same  *)
(* message in the same state.  Two kinds of receipt are left out.  A value  *)
(* with a key inside, other than the text, the format cannot carry; and a   *)
(* body that is too long is not sent at all: the gateway has no payload for *)
(* it (gateway.py:303), so deliver_to raises and the receipt is lost.       *)
(***************************************************************************)
ReceiptSurvivesRelay ==
  call.op = "receipt" /\ call.read # None
    /\ ~TooLong(Rebuilt(call.read, call.our))
    /\ (\A f \in DOMAIN call.read \cap {"stat", "err", "submit_date", "done_date"} :
          Keyless(call.read[f])) =>
    /\ call.sent
    /\ call.relayed["id"] = call.our
    /\ call.relayed["stat"] = Get(call.read, "stat", <<"UNKNOWN">>)
    /\ call.relayed["err"] = Get(call.read, "err", <<"000">>)
    /\ \A f \in {"submit_date", "done_date", "text"} : call.relayed[f] = Get(call.read, f, <<>>)
    /\ call.bare["id"] = call.our
    /\ (\E s \in DOMAIN StateName : Get(call.read, "stat", <<>>) = <<StateName[s]>>) =>
         call.bare["stat"] = call.read["stat"]

(***************************************************************************)
(* A message arrives as it was sent.  A helper raises or hands the codec a  *)
(* PDU within the limits it asserts on, and the peer's handler sees every   *)
(* argument that was given, the TLVs and the body, in `body`, wherever it   *)
(* travelled.  The gateway's relay never raises, and the next hop sees the  *)
(* body, the relayed fields and the relayed TLVs the first one had.         *)
(***************************************************************************)
MessageArrives ==
  /\ call.op = "send" /\ ~call.sent.raised =>
       /\ CodecTakes(call.sent)
       /\ \A f \in DOMAIN call.args.fields :
            \/ call.seen.fields[f] = call.args.fields[f]
            \/ call.helper = "submit_multi_via" /\ f \in Dest
       /\ call.seen.destinations = call.args.destinations
       /\ \A t \in DOMAIN call.args.tlvs : call.seen.tlvs[t] = call.args.tlvs[t]
       /\ \/ Body(call.seen) = call.args.short_message
          \/ PAYLOAD \in DOMAIN call.args.tlvs /\ Body(call.seen) = call.args.tlvs[PAYLOAD]
  /\ call.op = "relay" =>
       /\ ~call.sent.raised /\ CodecTakes(call.sent)
       /\ Body(call.seen) = Body(call.from)
       /\ \A f \in RelayedFields(call.from.command) : call.seen.fields[f] = call.from.fields[f]
       /\ \A t \in RELAYED_TLVS \cap DOMAIN call.from.tlvs : call.seen.tlvs[t] = call.from.tlvs[t]

(***************************************************************************)
(* The script that sent a request is told what the handler that answered it *)
(* decided: the same status by name and, unless that was ESME_ROK, neither  *)
(* `ok` nor an id, whatever else the reply carries.  A status without a     *)
(* name is not given the name of another one (outcome.rs, runtime.rs).      *)
(***************************************************************************)
AnswerArrives ==
  /\ call.op = "reply" /\ ~call.reply.raised =>
       LET status == IF call.given.query THEN "ESME_ROK" ELSE call.given.status
       IN  /\ call.told.command_status = status
           /\ call.told.ok <=> status = "ESME_ROK"
           /\ call.told.throttled <=> status \in {"ESME_RTHROTTLED", "ESME_RMSGQFUL"}
           /\ ~call.told.ok => call.told.message_id = ""
           /\ call.told.ok /\ call.given.command \in {"submit_sm", "submit_sm_multi"} =>
                call.told.message_id = OrEmpty(call.given.id)
           /\ call.given.query =>
                /\ call.told.message_state = call.given.state
                /\ call.told.message_id \in {call.given.id, call.given.queried}
           /\ call.wire.tlvs = call.given.tlvs
  /\ call.op = "status" =>
       /\ ~call.told.ok
       /\ \A n \in DOMAIN CodeOf : call.told.command_status = n => CodeOf[n] = call.status

-----------------------------------------------------------------------------
(* What the configuration declares.                                         *)

\* The binds an environment declares, by their HOST.
Hosts(vars) == {n \in {k[1] : k \in DOMAIN vars} : Given(vars, <<n, "HOST">>)}

\* What is wrong with one that fails the load.
Wrong(vars, n) ==
  \/ ~Given(vars, <<n, "SYSTEM", "ID">>) \/ ~Given(vars, <<n, "PASSWORD">>)
  \/ \E f \in Numbers : Given(vars, <<n>> \o f) /\ vars[<<n>> \o f].num = -1

\* The defaults of docs/configuration.md.
Documented ==
  [session_init |-> 5000, enquire_link |-> 30000, inactivity |-> 300000, response |-> 30000]

DocumentedPort == 2775

BindTypes == {"transmitter", "receiver", "transceiver"}

\* A client that is as the file's section of its bind says, the documented
\* defaults where it says nothing.
AsWritten(keys, c) ==
  /\ \A k \in BindKeys : c[k] = keys[k]
  /\ c.tls <=> Get(keys, "tls", <<>>) # <<>>
  /\ c.max_msg_per_sec = Get(keys, "max_msg_per_sec", 0)
  /\ Get(keys, "bind_type", "transceiver") \in BindTypes =>
       c.bind_type = Get(keys, "bind_type", "transceiver")
  /\ c.enquire_link = Get(keys, "enquire_link", Documented.enquire_link)
  /\ c.response = Get(keys, "response", Documented.response)

\* A client that is as the environment declares its bind: port and rate where
\* they fit their types.
AsDeclared(vars, n, c) ==
  LET Fits(key, most) == Given(vars, key) => vars[key].num \in 0 .. most - 1
      Declared(key, default) == IF Given(vars, key) THEN vars[key].num ELSE default
      type == FieldText(vars, <<n, "BIND", "TYPE">>, "transceiver")
  IN  /\ c.name = n /\ c.host = vars[<<n, "HOST">>].text
      /\ c.system_id = vars[<<n, "SYSTEM", "ID">>].text /\ c.password = vars[<<n, "PASSWORD">>].text
      /\ Fits(<<n, "PORT">>, U16) => c.port = Declared(<<n, "PORT">>, DocumentedPort)
      /\ Fits(<<n, "MAX", "MPS">>, U32) => c.max_msg_per_sec = Declared(<<n, "MAX", "MPS">>, 0)
      /\ type \in BindTypes => c.bind_type = type
      /\ c.enquire_link = Declared(<<n, "ENQUIRE", "LINK", "MS">>, Documented.enquire_link)
      /\ c.response = Declared(<<n, "RESPONSE", "MS">>, Documented.response)

\* The binds that run are those of the file, in order, and then one for every
\* HOST of the environment.
BindsRun(c) ==
  LET hosts == Hosts(c.env.binds)
      running == c.runtime.supervisors
  IN  /\ Len(running) = Len(c.yaml.binds) + Cardinality(hosts)
      /\ \A i \in DOMAIN c.yaml.binds : AsWritten(c.yaml.binds[i], running[i])
      /\ \A n \in hosts : \E i \in DOMAIN running :
           i > Len(c.yaml.binds) /\ AsDeclared(c.env.binds, n, running[i])

\* The inbound limit is the environment's, or else the `server:` section's.
LimitsRun(c) ==
  LET section == IF c.yaml.server = <<>> THEN <<>> ELSE c.yaml.server[1]
  IN  /\ c.runtime.inbound_max_mps =
           IF c.env.max_mps \in {<<>>, <<-1>>} THEN Get(section, "max_msg_per_sec", 0)
           ELSE c.env.max_mps[1]
      /\ c.runtime.inbound_throttle_action =
           IF c.env.throttle_action \in {<<"pace">>, <<"reject">>} THEN c.env.throttle_action[1]
           ELSE Get(section, "throttle_action", "pace")

\* The listener's timers are those of a section, a missing one as documented.
TimersRun(c, section) ==
  \A t \in DOMAIN Documented : c.runtime.timers[t] = Get(section, t, Documented[t])

\* `smpp.config()` shows the script the limits and the binds the runtime has.
ScriptSees(c) ==
  /\ c.dict.server.max_msg_per_sec = c.runtime.inbound_max_mps
  /\ c.dict.server.throttle_action = c.runtime.inbound_throttle_action
  /\ \A t \in DOMAIN Documented : c.dict.server[t] = c.runtime.timers[t]
  /\ \A i \in DOMAIN c.runtime.supervisors :
       \A k \in {"name", "host", "port", "system_id", "max_msg_per_sec"} :
         c.dict.binds[i][k] = c.runtime.supervisors[i][k]

(***************************************************************************)
(* The load succeeds exactly if the file has every key that has no default, *)
(* with values of their types, and the environment's binds have their       *)
(* credentials and numbers that are numbers (config.rs).  Then every bind   *)
(* of the file and every HOST of the environment has a supervisor of its    *)
(* own, with the target, credentials, type, timers and, if it fits its      *)
(* type, the rate that was declared; the environment's inbound limit        *)
(* replaces the file's; the timers of a `server:` section are its own or    *)
(* the documented ones; and `smpp.config()` shows the script what runs.     *)
(* Five things docs/configuration.md leads one to expect are not claimed,    *)
(* because they are not so: documented timers in a file without the section *)
(* (they are 0), TLS on the listener, a bind of the environment whose name  *)
(* has a dash, a listen address that is not corrected in silence, and an    *)
(* error for a PORT or MAX_MPS too large for its type.                      *)
(***************************************************************************)
RunsAsDeclared ==
  call.op = "load" =>
    /\ call.ok <=> /\ Deserializes(call.yaml)
                   /\ \A n \in Hosts(call.env.binds) : ~Wrong(call.env.binds, n)
    /\ call.ok => /\ BindsRun(call) /\ LimitsRun(call) /\ ScriptSees(call)
                  /\ call.yaml.server # <<>> => TimersRun(call, call.yaml.server[1])
=============================================================================
