--------------------------------- MODULE Tlv ---------------------------------
(***************************************************************************)
(* Optional parameters between a script's dict and the codec's list         *)
(* (tlv.rs).  A dict is the sequence of its items in insertion order.  A    *)
(* key is a spec name, in one of several spellings (upper or lower case,    *)
(* with or without the TLV_ prefix), an integer, or something else; a value *)
(* is bytes, a str, an int (a bool is the int it equals) or something else. *)
(*                                                                          *)
(* The tables are parameters.  An octet has OctetBase values, 256 in the    *)
(* code: a smaller base keeps a four-octet maximum within TLC's integers.   *)
(***************************************************************************)
EXTENDS Integers, Sequences, SequencesExt

CONSTANTS
  OctetBase,
  TlvTags,    \* TlvTag::ALL, smpp34's table of names and tags
  INT_WIDTHS  \* the integer-typed tags and their octets, at most a u64's

ASSUME OctetAssumption == OctetBase \in Nat /\ OctetBase > 1

\* A tag is a u16.
Tags == 0 .. 65535

ASSUME TablesAssumption ==
  /\ \A name \in DOMAIN TlvTags : TlvTags[name] \in Tags
  /\ \A tag \in DOMAIN INT_WIDTHS : INT_WIDTHS[tag] \in 1 .. 8

\* int_width: 0 for a tag that is not an integer.
IntWidth(tag) == IF tag \in DOMAIN INT_WIDTHS THEN INT_WIDTHS[tag] ELSE 0

\* How many values so many octets have.
Power[width \in 0 .. 8] == IF width = 0 THEN 1 ELSE Power[width - 1] * OctetBase

\* A PyResult.
Ok(v) == [ok |-> TRUE, value |-> v]
Err == [ok |-> FALSE]

\* tag_from_py, tag_from_name: spelling does not matter, 16 bits do.
TagFromPy(key) ==
  CASE key.kind = "name" /\ key.name \in DOMAIN TlvTags -> Ok(TlvTags[key.name])
    [] key.kind = "int" /\ key.tag \in Tags -> Ok(key.tag)
    [] OTHER -> Err

\* The last `width` octets of to_be_bytes.
BigEndian(n, width) == [i \in 1 .. width |-> (n \div Power[width - i]) % OctetBase]

ValueToBytes_OffByOne(tag, v) ==  \* mutant: max is 1 << bits, not one less
  CASE v.kind = "bytes" -> Ok(v.octets)
    [] v.kind = "str" -> Ok(Append(v.octets, 0))
    [] v.kind = "int" /\ IntWidth(tag) # 0 /\ v.n \in 0 .. Power[IntWidth(tag)] ->
         Ok(BigEndian(v.n, IntWidth(tag)))
    [] OTHER -> Err

\* value_to_bytes: bytes verbatim, a str with its NUL, an int at the width of
\* its tag.  A negative int, one that does not fit and one for a tag that is
\* not an integer raise.
ValueToBytes(tag, v) ==
  CASE v.kind = "bytes" -> Ok(v.octets)
    [] v.kind = "str" -> Ok(Append(v.octets, 0))
    [] v.kind = "int" /\ IntWidth(tag) # 0 /\ v.n \in 0 .. Power[IntWidth(tag)] - 1 ->
         Ok(BigEndian(v.n, IntWidth(tag)))
    [] OTHER -> Err

\* One turn of tlvs_from_py's loop raises: the key, a tag pushed before, the
\* value.
Raises(dict, i) ==
  LET tag == TagFromPy(dict[i].key)
  IN  \/ ~tag.ok
      \/ \E j \in 1 .. i - 1 : TagFromPy(dict[j].key) = tag
      \/ ~ValueToBytes(tag.value, dict[i].value).ok

\* What a turn that does not raise pushes.
PushItem(item) ==
  LET tag == TagFromPy(item.key).value
  IN  [tag |-> tag, value |-> ValueToBytes(tag, item.value).value]

\* tlvs_from_py: the first turn that raises ends it.
TlvsFromPy(dict) ==
  IF \E i \in DOMAIN dict : Raises(dict, i) THEN Err
  ELSE Ok([i \in DOMAIN dict |-> PushItem(dict[i])])

\* tlvs_to_py: {tag: bytes}, a later duplicate replacing an earlier one.
TlvsToPy(tlvs) ==
  LET With(tag) == {i \in DOMAIN tlvs : tlvs[i].tag = tag}
      last(tag) == CHOOSE i \in With(tag) : \A j \in With(tag) : j <= i
  IN  [tag \in {tlvs[i].tag : i \in DOMAIN tlvs} |-> tlvs[last(tag)].value]

-----------------------------------------------------------------------------
(* What the two conversions are for.                                        *)

\* The number a peer decodes from an integer parameter (smpp34's getters).
Number(octets) ==
  LET upTo[k \in 0 .. Len(octets)] ==
        IF k = 0 THEN 0 ELSE upTo[k - 1] * OctetBase + octets[k]
  IN  upTo[Len(octets)]

\* The peer's octets say what the script meant.
Means(octets, v, tag) ==
  CASE v.kind = "bytes" -> octets = v.octets
    [] v.kind = "str" -> octets # <<>> /\ Front(octets) = v.octets /\ Last(octets) = 0
    [] v.kind = "int" -> Len(octets) = IntWidth(tag) /\ Number(octets) = v.n

\* The tag a key stands for, -1 if none.
KeyTag(key) ==
  CASE key.kind = "name" /\ key.name \in DOMAIN TlvTags -> TlvTags[key.name]
    [] key.kind = "int" -> key.tag
    [] OTHER -> -1

KeyTags(dict) == {KeyTag(dict[i].key) : i \in DOMAIN dict}

\* A value that a parameter with this tag cannot have.
Unfit(tag, v) ==
  \/ v.kind = "other"
  \/ v.kind = "int" /\ \/ tag \notin DOMAIN INT_WIDTHS
                       \/ v.n < 0
                       \/ v.n >= Power[INT_WIDTHS[tag]]

\* An item no TLV can be made of.
Unusable(item) == KeyTag(item.key) \notin Tags \/ Unfit(KeyTag(item.key), item.value)
=============================================================================
