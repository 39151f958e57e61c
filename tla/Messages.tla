------------------------------- MODULE Messages -------------------------------
(***************************************************************************)
(* A message from one script to the next: the keyword arguments of a send   *)
(* helper (sends.rs), the PDU it hands to the codec, the Pdu object the      *)
(* peer's handler sees (pyclasses.rs), and the gateway example's relay of    *)
(* one to the next hop.                                                     *)
(*                                                                          *)
(* A field's value is an uninterpreted token; Zero stands for 0 and the     *)
(* empty string.  A body and an optional parameter are contents [text, len],*)
(* of which only the length is looked at.                                   *)
(***************************************************************************)
EXTENDS Integers, Sequences

SHORT_MESSAGE_MAX == 254
MaxDests == 254

Zero == "zero"
Empty == [text |-> Zero, len |-> 0]
PAYLOAD == "MESSAGE_PAYLOAD"

Source == {"source_addr_ton", "source_addr_npi", "source_addr"}
Dest == {"dest_addr_ton", "dest_addr_npi", "destination_addr"}
Addressing == {"service_type"} \cup Source \cup Dest
DataFields == Addressing \cup {"esm_class", "registered_delivery", "data_coding"}
Schedule == {"schedule_delivery_time", "validity_period"}
SubmitFields ==
  DataFields \cup Schedule
    \cup {"protocol_id", "priority_flag", "replace_if_present_flag", "sm_default_msg_id"}

\* The fields of struct Pdu that are not counted, folded or listed below.
PduFields == SubmitFields \cup {"message_id"}

\* The command of each helper, and the arguments it takes besides its target,
\* short_message, destinations and tlvs.
CommandOf ==
  [submit_via |-> "submit_sm", submit_multi_via |-> "submit_sm_multi", data_via |-> "data_sm",
   cancel_via |-> "cancel_sm", query_via |-> "query_sm", replace_via |-> "replace_sm",
   deliver_to |-> "deliver_sm", data_to |-> "data_sm"]

Arguments ==
  [submit_via |-> SubmitFields, submit_multi_via |-> SubmitFields \ {"destination_addr"},
   data_via |-> DataFields, cancel_via |-> Addressing \cup {"message_id"},
   query_via |-> Source \cup {"message_id"},
   replace_via |-> Source \cup Schedule
                     \cup {"message_id", "registered_delivery", "sm_default_msg_id"},
   deliver_to |-> SubmitFields, data_to |-> DataFields]

\* The helpers that take TLVs, and those whose body is a short_message.
TakesTlvs == {"submit_via", "submit_multi_via", "data_via", "deliver_to", "data_to"}
HasShortMessage == {"submit_via", "submit_multi_via", "replace_via", "deliver_to"}
IsDataSm == {"data_via", "data_to"}

\* An argument that is left out: type of number and numbering plan are 1.
Default(field) ==
  IF field \in {"source_addr_ton", "source_addr_npi", "dest_addr_ton", "dest_addr_npi"}
  THEN "one" ELSE Zero

\* The call raised.
Raised == [raised |-> TRUE]

\* push of the message_payload parameter.
WithPayload(tlvs, body) ==
  [t \in DOMAIN tlvs \cup {PAYLOAD} |-> IF t = PAYLOAD THEN body ELSE tlvs[t]]

\* fold_message_payload: a data_sm has no short_message, its body is a TLV.
Fold(short, tlvs) == IF short.len = 0 THEN tlvs ELSE WithPayload(tlvs, short)

\* The checks a helper makes before it builds a PDU: check_short_message, the
\* number of destinations, and fold_message_payload's "not both".
Refuses(helper, args) ==
  \/ helper \in HasShortMessage /\ args.short_message.len > SHORT_MESSAGE_MAX
  \/ helper = "submit_multi_via" /\ Len(args.destinations) > MaxDests
  \/ helper \in IsDataSm /\ args.short_message.len > 0 /\ PAYLOAD \in DOMAIN args.tlvs

\* submit_via ... data_to, up to the await: the PDU handed to the codec.
Build(helper, args) ==
  IF Refuses(helper, args) THEN Raised
  ELSE [raised |-> FALSE,
        command |-> CommandOf[helper],
        fields |-> [f \in Arguments[helper] |->
                      IF f \in DOMAIN args.fields THEN args.fields[f] ELSE Default(f)],
        destinations |-> args.destinations,
        short_message |-> IF helper \in IsDataSm THEN Empty ELSE args.short_message,
        tlvs |-> IF helper \in IsDataSm THEN Fold(args.short_message, args.tlvs) ELSE args.tlvs]

\* The asserts of smpp34's constructors: a PDU that breaks one panics.
CodecTakes(pdu) ==
  pdu.short_message.len <= SHORT_MESSAGE_MAX /\ Len(pdu.destinations) <= MaxDests

\* What Pdu::from_* reads of the PDU of each command; the rest of a Pdu is 0
\* or empty.
FromSubmit == SubmitFields
FromDeliver == SubmitFields
FromData == DataFields
FromCancel == Addressing \cup {"message_id"}
FromQuery == Source \cup {"message_id"}
FromReplace == Source \cup Schedule \cup {"message_id", "registered_delivery", "sm_default_msg_id"}
FromSubmitMulti == SubmitFields \ Dest

\* What each constructor reads from its PDU.
FieldsRead ==
  [submit_sm |-> FromSubmit, deliver_sm |-> FromDeliver, data_sm |-> FromData,
   cancel_sm |-> FromCancel, query_sm |-> FromQuery, replace_sm |-> FromReplace,
   submit_sm_multi |-> FromSubmitMulti]

PduOf(pdu) ==
  [command |-> pdu.command,
   fields |-> [f \in PduFields |-> IF f \in FieldsRead[pdu.command] THEN pdu.fields[f] ELSE Zero],
   destinations |-> IF pdu.command = "submit_sm_multi" THEN pdu.destinations ELSE <<>>,
   short_message |-> IF pdu.command \in {"data_sm", "cancel_sm", "query_sm"}
                     THEN Empty ELSE pdu.short_message,
   tlvs |-> IF pdu.command \in {"cancel_sm", "query_sm", "replace_sm"}
            THEN <<>> ELSE pdu.tlvs]

\* Pdu.body.
Body(pdu) == IF PAYLOAD \in DOMAIN pdu.tlvs THEN pdu.tlvs[PAYLOAD] ELSE pdu.short_message

-----------------------------------------------------------------------------
(* The gateway example: on_submit, on_data and _route_mo_reply.             *)

\* A pair of RELAYED_TLVS, which are all treated alike.
RELAYED_TLVS == {"SAR_MSG_REF_NUM", "USER_MESSAGE_REFERENCE"}

Only(f, S) == [x \in S \cap DOMAIN f |-> f[x]]

RelayKwargs_KeepsBody(pdu) ==  \* mutant: a long body is copied, not moved
  LET kept == Only(pdu.tlvs, RELAYED_TLVS)
  IN  IF Body(pdu).len > SHORT_MESSAGE_MAX
      THEN [short_message |-> Body(pdu), tlvs |-> WithPayload(kept, Body(pdu))]
      ELSE [short_message |-> Body(pdu), tlvs |-> kept]

\* _relay_kwargs: a body that fits goes in short_message, a longer one in
\* the payload parameter, whichever of the two it came in.
RelayKwargs(pdu) ==
  LET kept == Only(pdu.tlvs, RELAYED_TLVS)
  IN  IF Body(pdu).len > SHORT_MESSAGE_MAX
      THEN [short_message |-> Empty, tlvs |-> WithPayload(kept, Body(pdu))]
      ELSE [short_message |-> Body(pdu), tlvs |-> kept]

\* The helper each handler relays with and the fields it passes on.
RelayedWith == [submit_sm |-> "submit_via", data_sm |-> "data_via", deliver_sm |-> "deliver_to"]
RelayedFields(command) ==
  Source \cup {"destination_addr", "esm_class", "data_coding"}
    \cup IF command = "deliver_sm" THEN {}
         ELSE {"dest_addr_ton", "dest_addr_npi", "registered_delivery"}

\* What the relay hands to the codec for the next hop.
Relay(pdu) ==
  LET kwargs == RelayKwargs(pdu)
  IN  Build(RelayedWith[pdu.command],
            [fields |-> Only(pdu.fields, RelayedFields(pdu.command)), destinations |-> <<>>,
             short_message |-> kwargs.short_message, tlvs |-> kwargs.tlvs])
=============================================================================
