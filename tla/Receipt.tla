------------------------------- MODULE Receipt -------------------------------
(***************************************************************************)
(* Delivery receipts (pyclasses.rs): the parser of the de-facto text body,  *)
(* Pdu.receipt, which merges it with the receipt optional parameters, and   *)
(* the body the gateway example rebuilds for the next hop.                  *)
(*                                                                          *)
(* A body is a sequence of tokens: blanks, words, and the words keys end    *)
(* in, with their colon.  Letter case is not represented (the parser folds  *)
(* it), and neither is the letter a word ends in: "grid:" is a word and the *)
(* token "id:" with no blank between them, which the parser, looking for a  *)
(* substring, takes for the key.  What a body's length is, is a constant.   *)
(***************************************************************************)
EXTENDS Integers, Sequences, FiniteSets, Messages

CONSTANT Octets(_)  \* the length of a body on the wire

Blank == " "

\* What Receipt::parse looks for: `format!("{key}:")`.
Needle ==
  [submit_date |-> <<"submit", Blank, "date:">>, done_date |-> <<"done", Blank, "date:">>,
   dlvrd |-> <<"dlvrd:">>, stat |-> <<"stat:">>, text |-> <<"text:">>,
   sub |-> <<"sub:">>, err |-> <<"err:">>, id |-> <<"id:">>]

\* Receipt::KEYS.
KEYS == <<"submit_date", "done_date", "dlvrd", "stat", "text", "sub", "err", "id">>

\* message_state_name; the gateway's MESSAGE_STATES is its inverse.
StateName == <<"ENROUTE", "DELIVRD", "EXPIRED", "DELETED", "UNDELIV", "ACCEPTD",
               "UNKNOWN", "REJECTD">>

Occurrences(s, needle) ==
  {i \in 1 .. Len(s) - Len(needle) + 1 : SubSeq(s, i, i + Len(needle) - 1) = needle}

Least(S) == CHOOSE i \in S : \A j \in S : i <= j

Trim(s) ==
  LET solid == {i \in DOMAIN s : s[i] # Blank}
  IN  IF solid = {} THEN <<>>
      ELSE SubSeq(s, Least(solid), CHOOSE i \in solid : \A j \in solid : j <= i)

\* `hay.find(&needle)`.
Find(body, field) == Least(Occurrences(body, Needle[field]))

\* One turn of the loop over KEYS: the first occurrence, unless a key found
\* before it has claimed the place.
AddHit(body, hits, field) ==
  LET pos == Find(body, field)
      claimed == \E i \in DOMAIN hits : pos \in hits[i].pos .. hits[i].pos + hits[i].len - 1
  IN  IF Occurrences(body, Needle[field]) = {} \/ claimed THEN hits
      ELSE Append(hits, [pos |-> pos, len |-> Len(Needle[field]), field |-> field])

Found(body) ==
  LET upTo[n \in 0 .. Len(KEYS)] ==
        IF n = 0 THEN <<>> ELSE AddHit(body, upTo[n - 1], KEYS[n])
  IN  upTo[Len(KEYS)]

\* sort_by_key on the place: no two hits have the same, and a hit comes after
\* as many others as have an earlier one.
Sorted(hits) ==
  LET Rank(i) == Cardinality({j \in DOMAIN hits : hits[j].pos <= hits[i].pos})
  IN  [n \in DOMAIN hits |-> hits[CHOOSE i \in DOMAIN hits : Rank(i) = n]]

Hits_Unsorted(body) == Found(body)  \* mutant: the hits stay in the order of KEYS

Hits(body) == Sorted(Found(body))

\* A dict with the entries of another under the keys it lacks.
FillIn(dict, more) ==
  [k \in DOMAIN dict \cup DOMAIN more |-> IF k \in DOMAIN dict THEN dict[k] ELSE more[k]]

\* Receipt::parse: a dict of the fields found, and `raw`; None has no keys.
\* A value runs to the next hit, the last one to the end of the body.
None == <<>>

Parse(body) ==
  LET hits == Hits(body)
      End(i) == IF i < Len(hits) THEN hits[i + 1].pos - 1 ELSE Len(body)
      Value(i) == Trim(SubSeq(body, hits[i].pos + hits[i].len, End(i)))
      HitOf(field) == CHOOSE i \in DOMAIN hits : hits[i].field = field
  IN  IF hits = <<>> THEN None
      ELSE FillIn([field \in {hits[i].field : i \in DOMAIN hits} |-> Value(HitOf(field))],
                  [raw |-> body])

\* Pdu.receipt.  `id` and `state` are the optional parameters, as a set of
\* at most one value; what the text says wins.
ReceiptOf(pdu) ==
  LET text == Parse(pdu.body)
      found == IF text # None THEN text
               ELSE IF pdu.id # {} \/ pdu.state # {} THEN [raw |-> pdu.body] ELSE None
      named == pdu.state \cap DOMAIN StateName
      options ==
        [k \in {"id" : v \in pdu.id} \cup {"stat" : s \in named} \cup {"message_state" : s \in pdu.state} |->
           CASE k = "id" -> CHOOSE v \in pdu.id : TRUE
             [] k = "stat" -> <<StateName[CHOOSE s \in named : TRUE]>>
             [] k = "message_state" -> CHOOSE s \in pdu.state : TRUE]
  IN  IF ~pdu.is_dlr \/ found = None THEN None ELSE FillIn(found, options)

Get(dict, key, default) == IF key \in DOMAIN dict THEN dict[key] ELSE default

Field(field, value) == Needle[field] \o value \o <<Blank>>

Rebuilt_TextFirst(r, our) ==  \* mutant: the text is not the last field
  Field("text", Get(r, "text", <<>>))
    \o Field("id", our) \o Field("sub", <<"001">>) \o Field("dlvrd", <<"001">>)
    \o Field("submit_date", Get(r, "submit_date", <<>>)) \o Field("done_date", Get(r, "done_date", <<>>))
    \o Field("stat", Get(r, "stat", <<"UNKNOWN">>)) \o Needle.err \o Get(r, "err", <<"000">>)

\* The body _route_dlr sends on, under the id the ESME knows.
Rebuilt(r, our) ==
  Field("id", our) \o Field("sub", <<"001">>) \o Field("dlvrd", <<"001">>)
    \o Field("submit_date", Get(r, "submit_date", <<>>)) \o Field("done_date", Get(r, "done_date", <<>>))
    \o Field("stat", Get(r, "stat", <<"UNKNOWN">>)) \o Field("err", Get(r, "err", <<"000">>))
    \o (Needle.text \o Get(r, "text", <<>>))

\* check_short_message.
TooLong(body) == Octets(body) > SHORT_MESSAGE_MAX

\* The receipt _route_dlr sends: body and optional parameters.  The body is
\* always a short_message, so deliver_to raises for one that is too long.
Relayed(r, our) ==
  IF TooLong(Rebuilt(r, our)) THEN Raised
  ELSE [raised |-> FALSE, is_dlr |-> TRUE, body |-> Rebuilt(r, our), id |-> {our},
        state |-> {s \in DOMAIN StateName : Get(r, "stat", <<>>) = <<StateName[s]>>}]

-----------------------------------------------------------------------------
(* What the parser is to compute, field by field.                           *)

\* A text no key occurs in.
Keyless(s) == \A f \in DOMAIN Needle : Occurrences(s, Needle[f]) = {}

\* The fields that occur, each from the end of its first key to the nearest
\* first key of another field that follows.
ReferenceParse(body) ==
  LET found == {f \in DOMAIN Needle : Occurrences(body, Needle[f]) # {}}
      From(f) == Find(body, f) + Len(Needle[f])
      later(f) == {g \in found : Find(body, g) > Find(body, f)}
      Until(f) == Least({Find(body, g) : g \in later(f)} \cup {Len(body) + 1})
  IN  [f \in found |-> Trim(SubSeq(body, From(f), Until(f) - 1))]
=============================================================================
