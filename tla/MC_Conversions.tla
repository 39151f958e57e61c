---------------------------- MODULE MC_Conversions ----------------------------
(***************************************************************************)
(* The inputs TLC calls the conversions with.                               *)
(***************************************************************************)
EXTENDS Conversions, TLC

-----------------------------------------------------------------------------
(* Optional parameters: keys and values on both sides of every limit.       *)

\* One parameter of every integer width and one that is not an integer.
MCTlvTags ==
  [MESSAGE_STATE |-> 1063, SAR_MSG_REF_NUM |-> 524, QOS_TIME_TO_LIVE |-> 23, MESSAGE_PAYLOAD |-> 1060]
MCIntWidths ==
  [tag \in {1063, 524, 23} |-> CASE tag = 1063 -> 1 [] tag = 524 -> 2 [] tag = 23 -> 4]

Keys ==
  {[kind |-> "name", name |-> n] : n \in DOMAIN TlvTags \cup {"NOT_A_TAG"}}
    \cup {[kind |-> "int", tag |-> t] : t \in {-1, 0, 23, 1063, 5120, 65535, 65536}}
    \cup {[kind |-> "other"]}

Values ==
  {[kind |-> "bytes", octets |-> o] : o \in {<<>>, <<1, 2>>}}
    \cup {[kind |-> "str", octets |-> o] : o \in {<<>>, <<6, 5>>}}
    \cup {[kind |-> "int", n |-> n] :
            n \in {-1, 0, 1} \cup UNION {{OctetBase ^ w - 1, OctetBase ^ w} : w \in {1, 2, 4}}}
    \cup {[kind |-> "other"]}

FewValues == {v \in Values : v.kind # "int" \/ v.n \in {1, OctetBase}}

Items == {[key |-> k, value |-> v] : k \in Keys, v \in Values}
FewItems == {item \in Items : item.value \in FewValues}

\* A dict has no two equal keys; a name has more than one spelling.
MCDicts ==
  {<<>>} \cup {<<item>> : item \in Items}
    \cup {<<a, b>> : a, b \in {i \in FewItems : i.key.kind = "name"}}
    \cup {<<a, b>> \in FewItems \X FewItems : a.key # b.key}

-----------------------------------------------------------------------------
(* Receipts: up to three pieces of body in every order.                     *)

Pieces ==
  {Needle.id \o <<"u1", Blank>>, Needle.stat \o <<"DELIVRD", Blank>>, Needle.stat \o <<"ODD">>,
   Needle.err \o <<Blank, "042", Blank>>, Needle.submit_date \o <<"done", Blank>>,
   Needle.done_date \o <<"t2", Blank>>, Needle.sub \o <<"001", Blank>>,
   Needle.text \o <<"hi">>, Needle.text \o <<"see", Blank>> \o Needle.id \o <<"z", Blank>>,
   Needle.text \o <<"a", Blank>> \o Needle.text \o <<"b", Blank>> \o Needle.err \o <<"c">>,
   Needle.err \o <<"gr">>, <<"submit", Blank>>, <<Blank>>}

ReceiptBodies ==
  {<<>>} \cup Pieces \cup {a \o b : a, b \in Pieces} \cup {a \o b \o c : a, b, c \in Pieces}

\* A text of 170 octets fills the rebuilt body to its last octet.
LongTexts == {Needle.stat \o <<"DELIVRD", Blank>> \o Needle.text \o <<t>> : t \in {"t170", "t171"}}

TokenOctets(t) ==
  CASE t = Blank -> 1 [] t = "t170" -> 170 [] t = "t171" -> 171 [] t = "our1" -> 12
    [] t \in {"id:"} -> 3 [] t \in {"sub:", "err:", "done"} -> 4 [] t \in {"stat:", "text:", "date:"} -> 5
    [] t \in {"dlvrd:", "submit"} -> 6 [] t \in {StateName[s] : s \in DOMAIN StateName} -> 7
    [] OTHER -> 3

MCOctets(body) ==
  LET upTo[n \in 0 .. Len(body)] == IF n = 0 THEN 0 ELSE upTo[n - 1] + TokenOctets(body[n])
  IN  upTo[Len(body)]

MCReceiptPdus ==
  {[is_dlr |-> TRUE, body |-> b, id |-> {}, state |-> {}] : b \in ReceiptBodies \cup LongTexts}
    \cup {[is_dlr |-> TRUE, body |-> b, id |-> i, state |-> s] :
            b \in {<<>>, <<"word">>} \cup Pieces, i \in {{}, {<<"u9">>}}, s \in {{}, {2}, {7}, {9}}}
    \cup {[is_dlr |-> FALSE, body |-> b, id |-> {}, state |-> {}] : b \in Pieces}

MCOurIds == {<<"our1">>}

-----------------------------------------------------------------------------
(* Messages: every argument given or none, bodies around the limit.         *)

Lengths == {0, 1, SHORT_MESSAGE_MAX, SHORT_MESSAGE_MAX + 1}
Content(name, len) == [text |-> IF len = 0 THEN Zero ELSE name, len |-> len]

Own(S) == [f \in S |-> f]

TlvSets ==
  {<<>>, "SAR_MSG_REF_NUM" :> Content("sar", 2)}
    \cup {(PAYLOAD :> Content("payload", n)) @@ sar :
            n \in Lengths, sar \in {<<>>, "SAR_MSG_REF_NUM" :> Content("sar", 2)}}

CallsOf(h) ==
  {[helper |-> h,
    args |-> [fields |-> given, short_message |-> Content("body", n), tlvs |-> t,
              destinations |-> [i \in 1 .. d |-> "dest"]]] :
     given \in {<<>>, Own(Arguments[h])},
     n \in IF h \in {"cancel_via", "query_via"} THEN {0} ELSE Lengths,
     t \in IF h \in TakesTlvs THEN TlvSets ELSE {<<>>},
     d \in IF h = "submit_multi_via" THEN {1, MaxDests, MaxDests + 1} ELSE {0}}

MCCalls == UNION {CallsOf(h) : h \in DOMAIN CommandOf}

MCPeerPdus ==
  {[command |-> c, fields |-> Own(SubmitFields), destinations |-> <<>>,
    short_message |-> IF c = "data_sm" THEN Empty ELSE Content("body", n),
    tlvs |-> t @@ v] :
     c \in DOMAIN RelayedWith, n \in Lengths \ {SHORT_MESSAGE_MAX + 1}, t \in TlvSets,
     v \in {<<>>, "VENDOR" :> Content("vendor", 3)}}

-----------------------------------------------------------------------------
(* Answers.                                                                 *)

MCReplies ==
  {[query |-> FALSE, command |-> c, status |-> s, id |-> i, queried |-> "", state |-> 0, tlvs |-> t] :
     c \in {"submit_sm", "submit_sm_multi", "data_sm", "cancel_sm", "query_sm", "replace_sm",
            "deliver_sm"},
     s \in DOMAIN CodeOf \cup {"ESME_TYPO"}, i \in {NoId, "", "m1"}, t \in {{}, {"reason"}}}
    \cup {[query |-> TRUE, command |-> "query_sm", status |-> "", id |-> i, queried |-> "q1",
           state |-> s, tlvs |-> {}] : i \in {NoId, "", "m1"}, s \in {1, 2, 8}}

MCHex == 1025 :> "0x00000401" @@ 256 :> "0x00000100"

MCPeerStatuses == {20, 88, 255} \cup DOMAIN Hex

-----------------------------------------------------------------------------
(* Configuration files and environments.                                    *)

MCBindNames == <<"a", "b">>

FileBind(n) == [name |-> n, host |-> "file", port |-> 2700, system_id |-> "sys", password |-> "secret"]
Without(keys, k) == [x \in DOMAIN keys \ {k} |-> keys[x]]
Both == {"cert_path", "key_path"}

MCYamls ==
  {[server |-> s, binds |-> b, default_chain |-> <<"queue">>, bind_address |-> f[1], port |-> f[2]] :
     s \in {<<>>, <<"port" :> 3000>>, <<"bind_address" :> "no-address">>,
            <<[max_msg_per_sec |-> 5, throttle_action |-> "reject", bind_address |-> "10.0.0.1",
               inactivity |-> 9]>>,
            <<"tls" :> <<Both>>>>},
     b \in {<<>>, <<FileBind("a")>>,
            <<FileBind("c"), FileBind("a") @@ [max_msg_per_sec |-> 3, bind_type |-> "receiver"]>>},
     f \in {<<"", Missing>>, <<"10.0.0.2", 4000>>}}
  \cup
  {[server |-> s, binds |-> <<FileBind("c"), b>>, default_chain |-> <<>>, bind_address |-> "",
    port |-> p] :
     s \in {<<>>, <<"port" :> U16>>, <<"throttle_action" :> "fast">>, <<"tls" :> <<{"ca_path"}>>>>},
     b \in {Without(FileBind("a"), k) : k \in BindKeys}
             \cup {FileBind("a") @@ x : x \in {<<>>, "max_msg_per_sec" :> U32, "bind_type" :> "odd",
                                              "tls" :> <<Both>>, "tls" :> <<{"ca_path"}>>,
                                              "response" :> 7}}
             \cup {[FileBind("a") EXCEPT !.port = U16]},
     p \in {Missing, U16}}

Value(t) == [text |-> t, num |-> -1]
Numeric(n) == [text |-> "digits", num |-> n]
Complete(n) == <<n, "HOST">> :> Value("env") @@ <<n, "SYSTEM", "ID">> :> Value("sys")
                 @@ <<n, "PASSWORD">> :> Value("secret")
Optional(key, values) == {<<>>} \cup {key :> v : v \in values}

BindVars ==
  {<<>>, <<"b", "HOST">> :> Value("env"),
   <<"a", "EU", "HOST">> :> Value("eu") @@ <<"a", "EU", "SYSTEM", "ID">> :> Value("sys")
     @@ <<"a", "EU", "PASSWORD">> :> Value("secret"),
   Complete("a") @@ Complete("b"), (<<"b", "HOST">> :> Value("")) @@ Complete("b"),
   (<<"b", "PASSWORD">> :> Value("")) @@ Complete("b")}
    \cup {Complete("b") @@ p @@ m :
            p \in Optional(<<"b", "PORT">>, {Value(""), Value("bad"), Numeric(0), Numeric(U16 - 1),
                                             Numeric(U16), Numeric(U16 + 2775)}),
            m \in Optional(<<"b", "MAX", "MPS">>, {Value("bad"), Numeric(7), Numeric(U32 - 1),
                                                   Numeric(U32)})}
    \cup {Complete("a") @@ t @@ r :
            t \in Optional(<<"a", "TLS">>, {Value("on"), Value("off")})
                    \cup Optional(<<"a", "BIND", "TYPE">>, {Value("receiver"), Value("odd")}),
            r \in Optional(<<"a", "RESPONSE", "MS">>, {Value("bad"), Numeric(9)})}

MCEnvs ==
  {[binds |-> b, default_chain |-> <<>>, max_mps |-> <<>>, throttle_action |-> <<>>] : b \in BindVars}
    \cup {[binds |-> Complete("a"), default_chain |-> c, max_mps |-> m, throttle_action |-> t] :
            c \in {<<>>, <<<<"", "bind:a">>>>}, m \in {<<>>, <<-1>>, <<0>>, <<9>>},
            t \in {<<>>, <<"pace">>, <<"reject">>, <<"fast">>}}
=============================================================================
