------------------------------- MODULE Answers -------------------------------
(***************************************************************************)
(* The answer to a request: the reply a handler builds (Pdu.reply,          *)
(* Pdu.reply_query), the response PDU runtime.rs makes of it, and the        *)
(* SmppResp or QueryResp the script that sent the request gets (sends.rs,    *)
(* outcome.rs).  An id is "" when it is empty; NoId is Python's None.        *)
(***************************************************************************)
EXTENDS Integers

CONSTANT Hex  \* `0x{:08X}` of the codes without a name that peers send

NoId == "None"

\* smpp34's SmppError, cut down to the statuses somebody treats differently
\* and two that nobody does.
CodeOf ==
  [ESME_ROK |-> 0, ESME_RSYSERR |-> 8, ESME_RMSGQFUL |-> 20, ESME_RSUBMITFAIL |-> 69,
   ESME_RTHROTTLED |-> 88, ESME_RUNKNOWNERR |-> 255]

\* A hexadecimal number is no name.
ASSUME HexAssumption == \A code \in DOMAIN Hex : Hex[code] \notin DOMAIN CodeOf

ESME_ROK == 0
ESME_RTHROTTLED == 88
ESME_RMSGQFUL == 20

\* SmppError::from_command_status: an unknown code becomes ESME_RUNKNOWNERR.
FromCommandStatus(code) ==
  IF \E n \in DOMAIN CodeOf : CodeOf[n] = code
  THEN CHOOSE n \in DOMAIN CodeOf : CodeOf[n] = code
  ELSE "ESME_RUNKNOWNERR"

\* status_name: the hex form tells a vendor's code from ESME_RUNKNOWNERR.
StatusName(code) ==
  IF CodeOf[FromCommandStatus(code)] = code THEN FromCommandStatus(code) ELSE Hex[code]

IsThrottle(code) == code \in {ESME_RTHROTTLED, ESME_RMSGQFUL}

\* Pdu.reply, with parse_smpp_status: an unknown spelling raises, and so do
\* TLVs for a response that has none.
MakeReply(command, status, id, tlvs) ==
  IF status \notin DOMAIN CodeOf \/ (tlvs # {} /\ command # "data_sm")
  THEN [raised |-> TRUE]
  ELSE [raised |-> FALSE, status |-> CodeOf[status], id |-> id, state |-> 0, tlvs |-> tlvs]

\* Pdu.reply_query: the id defaults to the one that was asked about.
MakeReplyQuery(queried, id, state) ==
  [raised |-> FALSE, status |-> ESME_ROK, id |-> IF id = NoId THEN queried ELSE id,
   state |-> state, tlvs |-> {}]

OrEmpty(id) == IF id = NoId THEN "" ELSE id

\* smpp34's reject: a response with this status and nothing else.
Bare(status) == [status |-> status, id |-> "", state |-> 0, tlvs |-> {}]

Response_ByMessageId(command, reply) ==  \* mutant: an id makes it an acceptance
  CASE command \in {"submit_sm", "submit_sm_multi"} ->
         IF reply.id # NoId THEN [Bare(ESME_ROK) EXCEPT !.id = reply.id] ELSE Bare(reply.status)
    [] command = "data_sm" -> [Bare(reply.status) EXCEPT !.tlvs = reply.tlvs]
    [] command = "query_sm" /\ reply.status = ESME_ROK ->
         [Bare(ESME_ROK) EXCEPT !.id = OrEmpty(reply.id), !.state = reply.state]
    [] OTHER -> Bare(reply.status)

\* submit_sm_response, data_sm_response with with_resp_tlvs, and the Ok arms
\* of the other handlers: the reply's status decides, and nothing else does.
Response(command, reply) ==
  IF reply.status # ESME_ROK
  THEN [Bare(reply.status) EXCEPT !.tlvs = IF command = "data_sm" THEN reply.tlvs ELSE {}]
  ELSE CASE command \in {"submit_sm", "submit_sm_multi"} ->
              [Bare(ESME_ROK) EXCEPT !.id = OrEmpty(reply.id)]
         [] command = "data_sm" ->
              [Bare(ESME_ROK) EXCEPT !.id = OrEmpty(reply.id), !.tlvs = reply.tlvs]
         [] command = "query_sm" ->
              [Bare(ESME_ROK) EXCEPT !.id = OrEmpty(reply.id), !.state = reply.state]
         [] OTHER -> Bare(ESME_ROK)

\* The Reply trait: the id a response PDU reports.
ReplyMessageId(command, resp) ==
  IF command \in {"submit_sm", "submit_sm_multi", "query_sm"} THEN resp.id ELSE ""

\* SmppResp::from_reply, QueryResp::from_reply and their getters.
SmppResp(command, resp) ==
  [command_status |-> StatusName(resp.status),
   command_status_code |-> resp.status,
   message_id |-> ReplyMessageId(command, resp),
   message_state |-> resp.state,
   ok |-> resp.status = ESME_ROK,
   throttled |-> IsThrottle(resp.status)]
=============================================================================
