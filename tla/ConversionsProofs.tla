-------------------------- MODULE ConversionsProofs --------------------------
(***************************************************************************)
(* Proofs about Conversions, for any inputs.                                *)
(***************************************************************************)
EXTENDS Conversions, DataProofs, FiniteSetTheorems

\* Each call is known by its operation.
LEMMA OpOfCall ==
  /\ \A dict : SendTlvs(dict) => call'.op = "tlvs"
  /\ \A pdu, our : RelayReceipt(pdu, our) => call'.op = "receipt"
  /\ \A c : Send(c) => call'.op = "send"
  /\ \A pdu : RelayMessage(pdu) => call'.op = "relay"
  /\ \A r : Reply(r) => call'.op = "reply"
  /\ \A status : PeerRefuses(status) => call'.op = "status"
  /\ \A yaml, env : Load(yaml, env) => call'.op = "load"
  /\ Return => call'.op = "idle"
<1>1. ASSUME NEW dict, SendTlvs(dict) PROVE call'.op = "tlvs"
  BY <1>1 DEF SendTlvs
<1>2. ASSUME NEW pdu, NEW our, RelayReceipt(pdu, our) PROVE call'.op = "receipt"
  BY <1>2 DEF RelayReceipt
<1>3. ASSUME NEW c, Send(c) PROVE call'.op = "send"
  BY <1>3 DEF Send
<1>4. ASSUME NEW pdu, RelayMessage(pdu) PROVE call'.op = "relay"
  BY <1>4 DEF RelayMessage
<1>5. ASSUME NEW r, Reply(r) PROVE call'.op = "reply"
  BY <1>5 DEF Reply
<1>6. ASSUME NEW status, PeerRefuses(status) PROVE call'.op = "status"
  BY <1>6 DEF PeerRefuses
<1>7. ASSUME NEW yaml, NEW env, Load(yaml, env) PROVE call'.op = "load"
  BY <1>7 DEF Load
<1>8. ASSUME Return PROVE call'.op = "idle"
  BY <1>8 DEF Return, idle
<1>9. QED
  BY <1>1, <1>2, <1>3, <1>4, <1>5, <1>6, <1>7, <1>8

-----------------------------------------------------------------------------
(* Optional parameters.                                                     *)

\* The number of values of an octet string, octet by octet.
LEMMA Powers ==
  /\ Power[0] = 1
  /\ \A w \in 1 .. 8 : Power[w] = Power[w - 1] * OctetBase
  /\ \A w \in 0 .. 8 : Power[w] \in Nat /\ Power[w] > 0
<1> DEFINE Turns(g) == [w \in 0 .. 8 |-> IF w = 0 THEN 1 ELSE g[w - 1] * OctetBase]
           Pos == Nat \ {0}
           step == [w \in 1 .. 8 |-> [x \in Pos |-> x * OctetBase]]
<1>0. \A x \in Pos : x * OctetBase \in Pos
  BY OctetAssumption
<1>1. PICK g : g \in [0 .. 8 -> Pos] /\ g[0] = 1 /\ \A w \in 1 .. 8 : g[w] = step[w][g[w - 1]]
  <2>1. step \in [1 .. 8 -> [Pos -> Pos]]
    BY <1>0
  <2>2. 8 \in Nat /\ 1 \in Pos
    OBVIOUS
  <2>3. PICK g : g \in Runs(8, Pos, 1, step)
    <3> HIDE DEF step, Pos
    <3> QED BY <2>1, <2>2, RecursionExists
  <2>4. QED
    <3> HIDE DEF step, Pos
    <3> QED BY <2>3, Zenon DEF Runs
<1>2. \A w \in 1 .. 8 : w \in 0 .. 8 /\ w # 0 /\ w - 1 \in 0 .. 8
  OBVIOUS
<1>3. \A w \in 0 .. 8 : w = 0 \/ w \in 1 .. 8
  OBVIOUS
<1>4. g = Turns(g)
  <2>1. \A w \in 1 .. 8 : g[w] = g[w - 1] * OctetBase
    <3> HIDE DEF Pos
    <3> QED BY <1>1, <1>2, Zenon
  <2>2. QED
    BY <1>1, <1>3, <2>1, Zenon
<1>5. Power = Turns(Power)
  <2>1. Power = CHOOSE h : h = Turns(h)
    BY Zenon DEF Power
  <2> HIDE DEF Turns
  <2>2. QED
    BY <1>4, <2>1, Zenon
<1>6. 0 \in 0 .. 8
  OBVIOUS
<1>7. Power[0] = 1
  BY <1>5, <1>6, Zenon
<1>8. \A w \in 1 .. 8 : Power[w] = Power[w - 1] * OctetBase
  BY <1>2, <1>5, Zenon
<1>9. \A w \in 0 .. 8 : w \in {v \in 0 .. 8 : Power[v] \in Pos}
  <2> DEFINE T == {v \in 0 .. 8 : Power[v] \in Pos}
  <2>1. 0 \in T
    BY <1>6, <1>7
  <2>2. \A w \in 1 .. 8 : w - 1 \in T => w \in T
    <3> HIDE DEF Pos
    <3> QED BY <1>0, <1>2, <1>8, Zenon
  <2> HIDE DEF T
  <2>3. 8 \in Nat
    OBVIOUS
  <2>4. \A w \in 0 .. 8 : w \in T
    BY <2>1, <2>2, <2>3, BoundedInduction, Zenon
  <2>5. QED
    BY <2>4 DEF T
<1>10. QED
  BY <1>7, <1>8, <1>9

\* Decoding goes octet by octet.
Decodings(octets) ==
  {M \in [0 .. Len(octets) -> Int] :
     M[0] = 0 /\ \A k \in 1 .. Len(octets) : M[k] = M[k - 1] * OctetBase + octets[k]}

\* The decoder ends with the last of those numbers.
LEMMA NumberUnfolds ==
  ASSUME NEW octets \in Seq(Int)
  PROVE  \E M \in Decodings(octets) : Number(octets) = M[Len(octets)]
<1> DEFINE L == Len(octets)
           Turns(g) == [k \in 0 .. L |-> IF k = 0 THEN 0 ELSE g[k - 1] * OctetBase + octets[k]]
           M == CHOOSE g : g = Turns(g)
           step == [k \in 1 .. L |-> [x \in Int |-> x * OctetBase + octets[k]]]
<1>1. L \in Nat /\ \A k \in 1 .. L : octets[k] \in Int /\ \A x \in Int : x * OctetBase + octets[k] \in Int
  BY OctetAssumption
<1>2. PICK g : g \in [0 .. L -> Int] /\ g[0] = 0 /\ \A k \in 1 .. L : g[k] = step[k][g[k - 1]]
  <2>1. step \in [1 .. L -> [Int -> Int]]
    BY <1>1
  <2>2. 0 \in Int
    OBVIOUS
  <2>3. PICK g : g \in Runs(L, Int, 0, step)
    <3> HIDE DEF step, L
    <3> QED BY <1>1, <2>1, <2>2, RecursionExists
  <2>4. QED
    <3> HIDE DEF step, L
    <3> QED BY <2>3, Zenon DEF Runs
<1>3. (\A k \in 1 .. L : k \in 0 .. L /\ k # 0 /\ k - 1 \in 0 .. L) /\ 0 \in 0 .. L
  <2>1. L \in Nat
    BY <1>1
  <2> HIDE DEF L
  <2>2. QED
    BY <2>1
<1>4. \A k \in 0 .. L : k = 0 \/ k \in 1 .. L
  BY <1>1
<1>5. g = Turns(g)
  <2>1. \A k \in 1 .. L : g[k] = g[k - 1] * OctetBase + octets[k]
    BY <1>2, <1>3, Zenon
  <2>2. QED
    BY <1>2, <1>4, <2>1, Zenon
<1>6. M = Turns(M)
  <2> HIDE DEF Turns
  <2> QED BY <1>5, Zenon
<1>7. Number(octets) = M[L]
  BY Zenon DEF Number
<1> HIDE DEF M
<1>8. M[0] = 0 /\ \A k \in 1 .. L : M[k] = M[k - 1] * OctetBase + octets[k]
  BY <1>3, <1>6, Zenon
<1>9. M \in [0 .. L -> Int]
  <2> DEFINE T == {k \in 0 .. L : M[k] \in Int}
  <2>1. 0 \in T
    BY <1>3, <1>8
  <2>2. \A k \in 1 .. L : k - 1 \in T => k \in T
    BY <1>1, <1>3, <1>8, Zenon
  <2>3. \A k \in 0 .. L : k \in T
    <3> HIDE DEF T, L
    <3> QED BY <1>1, <2>1, <2>2, BoundedInduction, Zenon
  <2>4. QED
    BY <1>6, <2>3, Zenon
<1>10. M \in Decodings(octets)
  BY <1>8, <1>9, Zenon DEF Decodings
<1>11. QED
  BY <1>7, <1>10, Zenon

\* A number that fits comes back from its big-endian octets.
LEMMA NumberOfBigEndian ==
  ASSUME NEW w \in 1 .. 8, NEW n \in 0 .. Power[w] - 1
  PROVE  /\ BigEndian(n, w) \in Seq(Int) /\ Len(BigEndian(n, w)) = w
         /\ Number(BigEndian(n, w)) = n
<1> DEFINE B == BigEndian(n, w)
<1>1. n \in Nat /\ \A k \in 0 .. w : /\ w - k \in 0 .. 8
                                     /\ Power[w - k] \in Nat /\ Power[w - k] > 0
  BY Powers
<1>2. \A k \in 1 .. w : (n \div Power[w - k]) % OctetBase \in Int
  <2> TAKE k \in 1 .. w
  <2>1. n \div Power[w - k] \in Nat
    BY <1>1, DivMod
  <2>2. QED
    BY <2>1, DivMod, OctetAssumption
<1>3. B \in [1 .. w -> Int] /\ \A k \in 1 .. w : B[k] = (n \div Power[w - k]) % OctetBase
  BY <1>2 DEF BigEndian
<1> HIDE DEF B
<1>4. B \in Seq(Int) /\ Len(B) = w
  BY <1>3, ListOfFunction
<1>5. PICK M \in Decodings(B) : Number(B) = M[w]
  BY <1>4, NumberUnfolds
<1>6. M[0] = 0 /\ \A k \in 1 .. w : M[k] = M[k - 1] * OctetBase + B[k]
  BY <1>4, <1>5 DEF Decodings
<1> DEFINE T == {k \in 0 .. w : M[k] = n \div Power[w - k]}
<1>7. 0 \in T
  <2>1. Power[w] \in Nat /\ Power[w] > 0 /\ w - 0 = w
    BY Powers
  <2>2. n \div Power[w] = 0
    <3>1. 0 * Power[w] + n = n
      BY <1>1, <2>1
    <3>2. (0 * Power[w] + n) \div Power[w] = 0
      BY <2>1, DivUnique
    <3>3. QED
      BY <3>1, <3>2
  <2>3. QED
    BY <1>6, <2>1, <2>2
<1>8. ASSUME NEW k \in 1 .. w, k - 1 \in T PROVE k \in T
  <2> DEFINE P == Power[w - k]
             m == n \div P
  <2>1. P \in Nat /\ P > 0 /\ w - (k - 1) \in 1 .. 8 /\ (w - (k - 1)) - 1 = w - k
    BY <1>1
  <2>2. Power[w - (k - 1)] = P * OctetBase
    BY <2>1, Powers
  <2>3. M[k - 1] = n \div Power[w - (k - 1)]
    BY <1>8
  <2>4. M[k - 1] = m \div OctetBase
    <3> HIDE DEF P
    <3> QED BY <1>1, <2>1, <2>2, <2>3, DivDiv, OctetAssumption DEF m
  <2>5. m \in Nat
    <3> HIDE DEF P
    <3> QED BY <1>1, <2>1, DivMod
  <2>6. B[k] = m % OctetBase
    BY <1>3
  <2> HIDE DEF m
  <2>7. m = (m \div OctetBase) * OctetBase + (m % OctetBase)
    <3>1. OctetBase \in Nat /\ OctetBase > 0
      BY OctetAssumption
    <3>2. QED
      BY <2>5, <3>1, DivMod, Zenon
  <2>8. M[k] = m
    BY <1>6, <2>4, <2>6, <2>7, Zenon
  <2>9. k \in 0 .. w
    OBVIOUS
  <2>10. QED
    BY <2>8, <2>9, Zenon DEF m
<1>9. w \in T
  <2> HIDE DEF T
  <2>1. \A k \in 0 .. w : k \in T
    BY <1>7, <1>8, BoundedInduction
  <2>2. QED
    BY <2>1
<1>10. n \div Power[w - w] = n
  <2>1. w - w = 0 /\ Power[0] = 1 /\ n * 1 + 0 = n
    BY <1>1, Powers
  <2>2. (n * 1 + 0) \div 1 = n
    BY <1>1, DivUnique
  <2>3. QED
    BY <2>1, <2>2
<1>11. Number(B) = n
  BY <1>5, <1>9, <1>10
<1>12. QED
  BY <1>4, <1>11 DEF B

\* Tags are numbers, and -1 is none of them.
LEMMA TagsAreNumbers == Tags \subseteq Int /\ -1 \notin Tags
BY DEF Tags

\* tag_from_py takes the keys that stand for a 16-bit tag.
LEMMA TagOfKey ==
  ASSUME NEW key, IsKey(key)
  PROVE  /\ KeyTag(key) \in Int
         /\ KeyTag(key) \in Tags => TagFromPy(key) = Ok(KeyTag(key))
         /\ KeyTag(key) \notin Tags => TagFromPy(key) = Err
<1>0. key.kind = "int" => key.tag \in Int
  BY DEF IsKey
<1>1. CASE key.kind = "name" /\ key.name \in DOMAIN TlvTags
  <2>1. key.kind # "int" /\ TlvTags[key.name] \in Tags
    BY <1>1, TablesAssumption
  <2>2. KeyTag(key) = TlvTags[key.name] /\ TagFromPy(key) = Ok(TlvTags[key.name])
    BY <1>1, <2>1 DEF KeyTag, TagFromPy
  <2>3. QED
    BY <2>1, <2>2, TagsAreNumbers
<1>2. CASE key.kind = "int"
  <2>1. KeyTag(key) = key.tag
    BY <1>2 DEF KeyTag
  <2>2. key.tag \in Tags => TagFromPy(key) = Ok(key.tag)
    BY <1>2 DEF TagFromPy
  <2>3. key.tag \notin Tags => TagFromPy(key) = Err
    BY <1>2 DEF TagFromPy
  <2>4. QED
    BY <1>0, <1>2, <2>1, <2>2, <2>3
<1>3. CASE key.kind # "int" /\ ~(key.kind = "name" /\ key.name \in DOMAIN TlvTags)
  <2>1. KeyTag(key) = -1 /\ TagFromPy(key) = Err
    BY <1>3 DEF KeyTag, TagFromPy
  <2>2. QED
    BY <2>1, TagsAreNumbers
<1>4. QED
  BY <1>1, <1>2, <1>3

\* A result is one or the other.
LEMMA Results ==
  /\ Err.ok = FALSE
  /\ \A v : Ok(v).ok = TRUE /\ Ok(v).value = v /\ Ok(v) # Err
  /\ \A v, w : Ok(v) = Ok(w) => v = w
<1>1. Err.ok = FALSE
  BY Zenon DEF Err
<1>2. ASSUME NEW v PROVE Ok(v).ok = TRUE /\ Ok(v).value = v
  BY Zenon DEF Ok
<1>3. \A v : Ok(v) # Err
  BY <1>1, <1>2, Zenon
<1>4. \A v, w : Ok(v) = Ok(w) => v = w
  BY <1>2, Zenon
<1>5. QED
  BY <1>1, <1>2, <1>3, <1>4, Zenon

\* The octets of a value say what it means, if it has any.
Encoded(tag, v) ==
  /\ Unfit(tag, v) => ValueToBytes(tag, v) = Err
  /\ ~Unfit(tag, v) => \E octets : ValueToBytes(tag, v) = Ok(octets) /\ Means(octets, v, tag)

\* value_to_bytes raises for a value that does not fit its tag and encodes every other one.
LEMMA BytesOfValue ==
  ASSUME NEW tag, NEW v, IsValue(v)
  PROVE  Encoded(tag, v)
<1>0. /\ v.kind \in {"bytes", "str", "int", "other"}
      /\ v.kind \in {"bytes", "str"} => v.octets \in Seq(0 .. OctetBase - 1)
      /\ v.kind = "int" => v.n \in Int
  BY DEF IsValue
<1>1. CASE v.kind = "bytes"
  <2>1. ValueToBytes(tag, v) = Ok(v.octets) /\ Means(v.octets, v, tag)
    BY <1>1 DEF ValueToBytes, Means
  <2>2. ~Unfit(tag, v)
    BY <1>1 DEF Unfit
  <2>3. QED
    BY <2>1, <2>2, Zenon DEF Encoded
<1>2. CASE v.kind = "str"
  <2> DEFINE octets == Append(v.octets, 0)
  <2>1. ValueToBytes(tag, v) = Ok(octets)
    BY <1>2 DEF ValueToBytes
  <2>2. v.octets \in Seq(Int)
    <3>1. v.octets \in Seq(0 .. OctetBase - 1) /\ 0 .. OctetBase - 1 \subseteq Int
      BY <1>0, <1>2
    <3>2. QED
      BY <3>1, SeqMonotonic
  <2>3. octets # <<>> /\ Front(octets) = v.octets /\ Last(octets) = 0
    BY <2>2 DEF Front, Last
  <2>4. Means(octets, v, tag)
    BY <1>2, <2>3 DEF Means
  <2>5. ~Unfit(tag, v)
    BY <1>2 DEF Unfit
  <2>6. QED
    <3> HIDE DEF octets
    <3> QED BY <2>1, <2>4, <2>5, Zenon DEF Encoded
<1>3. CASE v.kind = "int" /\ Unfit(tag, v)
  <2>1. ~(IntWidth(tag) # 0 /\ v.n \in 0 .. Power[IntWidth(tag)] - 1)
    <3>1. CASE tag \notin DOMAIN INT_WIDTHS
      BY <3>1 DEF IntWidth
    <3>2. CASE tag \in DOMAIN INT_WIDTHS
      <4>1. IntWidth(tag) = INT_WIDTHS[tag] /\ Power[IntWidth(tag)] \in Nat
        BY <3>2, Powers, TablesAssumption DEF IntWidth
      <4>2. v.n \in Int /\ (v.n < 0 \/ v.n >= Power[INT_WIDTHS[tag]])
        BY <1>0, <1>3, <3>2 DEF Unfit
      <4>3. QED
        BY <4>1, <4>2
    <3>3. QED
      BY <3>1, <3>2
  <2>2. ValueToBytes(tag, v) = Err
    BY <1>3, <2>1 DEF ValueToBytes
  <2>3. QED
    BY <1>3, <2>2, Zenon DEF Encoded
<1>4. CASE v.kind = "int" /\ ~Unfit(tag, v)
  <2> DEFINE w == IntWidth(tag)
             octets == BigEndian(v.n, w)
  <2>1. tag \in DOMAIN INT_WIDTHS /\ v.n \in Int /\ ~(v.n < 0) /\ ~(v.n >= Power[INT_WIDTHS[tag]])
    BY <1>0, <1>4, Zenon DEF Unfit
  <2>2. w = INT_WIDTHS[tag] /\ w \in 1 .. 8
    BY <2>1, TablesAssumption DEF IntWidth
  <2> HIDE DEF w
  <2>3. Power[w] \in Nat /\ v.n \in 0 .. Power[w] - 1 /\ w # 0
    <3>1. Power[w] \in Nat /\ w # 0
      <4>1. w \in 0 .. 8 /\ w # 0
        BY <2>2
      <4>2. QED
        BY <4>1, Powers, Zenon
    <3>2. v.n \in Int /\ ~(v.n < 0) /\ ~(v.n >= Power[w])
      BY <2>1, <2>2, Zenon DEF Encoded
    <3>3. QED
      BY <3>1, <3>2
  <2>4. ValueToBytes(tag, v) = Ok(octets)
    BY <1>4, <2>3 DEF ValueToBytes, w
  <2>5. Len(octets) = w /\ Number(octets) = v.n
    BY <2>2, <2>3, NumberOfBigEndian
  <2>6. Means(octets, v, tag)
    BY <1>4, <2>5, Zenon DEF Means, w
  <2>7. QED
    <3> HIDE DEF octets
    <3> QED BY <1>4, <2>4, <2>6, Zenon DEF Encoded
<1>5. CASE v.kind = "other"
  <2>1. ValueToBytes(tag, v) = Err /\ Unfit(tag, v)
    BY <1>5 DEF ValueToBytes, Unfit
  <2>2. QED
    BY <2>1, Zenon DEF Encoded
<1>6. QED
  BY <1>0, <1>1, <1>2, <1>3, <1>4, <1>5

\* No two of n parameters have the same tag.
Distinct(n, tlvs) ==
  DOMAIN tlvs = 1 .. n /\ \A i, j \in 1 .. n : tlvs[i].tag = tlvs[j].tag => i = j

\* A dict has these parameters.
Holds(n, tlvs, dict) ==
  /\ DOMAIN dict = {tlvs[i].tag : i \in 1 .. n}
  /\ \A i \in 1 .. n : dict[tlvs[i].tag] = tlvs[i].value

\* A list of parameters without duplicates, as a dict.
LEMMA DictOfTlvs ==
  ASSUME NEW n \in Nat, NEW tlvs, Distinct(n, tlvs)
  PROVE  Holds(n, tlvs, TlvsToPy(tlvs))
<1>0. DOMAIN tlvs = 1 .. n /\ \A i, j \in 1 .. n : tlvs[i].tag = tlvs[j].tag => i = j
  BY DEF Distinct
<1> DEFINE With(tag) == {i \in DOMAIN tlvs : tlvs[i].tag = tag}
           last(tag) == CHOOSE i \in With(tag) : \A j \in With(tag) : j <= i
<1>1. TlvsToPy(tlvs) = [tag \in {tlvs[i].tag : i \in DOMAIN tlvs} |-> tlvs[last(tag)].value]
  BY Zenon DEF TlvsToPy
<1>2. ASSUME NEW i \in 1 .. n PROVE last(tlvs[i].tag) = i
  <2>1. \A j \in With(tlvs[i].tag) : j = i
    BY <1>0, Zenon
  <2>2. i \in With(tlvs[i].tag) /\ i <= i
    BY <1>0
  <2> HIDE DEF With
  <2>3. \E k \in With(tlvs[i].tag) : \A j \in With(tlvs[i].tag) : j <= k
    BY <2>1, <2>2, Zenon
  <2>4. last(tlvs[i].tag) \in With(tlvs[i].tag)
    BY <2>3, Zenon
  <2>5. QED
    BY <2>1, <2>4, Zenon
<1> HIDE DEF last
<1>3. QED
  BY <1>0, <1>1, <1>2, Zenon DEF Holds

\* The items of a dict, one by one and two by two.
LEMMA TlvsOfDict ==
  ASSUME NEW dict, DOMAIN dict = 1 .. Len(dict), Len(dict) \in Nat,
         \A i \in DOMAIN dict : IsKey(dict[i].key) /\ IsValue(dict[i].value)
  PROVE  LET sent == TlvsFromPy(dict)
             good == /\ \A i \in DOMAIN dict : ~Unusable(dict[i])
                     /\ \A i, j \in DOMAIN dict :
                          KeyTag(dict[i].key) = KeyTag(dict[j].key) => i = j
         IN  /\ ~good => sent = Err
             /\ good => /\ sent.ok = TRUE /\ DOMAIN sent.value = 1 .. Len(dict)
                        /\ \A i \in DOMAIN dict :
                             /\ sent.value[i].tag = KeyTag(dict[i].key)
                             /\ Means(sent.value[i].value, dict[i].value, KeyTag(dict[i].key))
<1> DEFINE tag(i) == KeyTag(dict[i].key)
           Usable(i) == ~Unusable(dict[i])
           good == (\A i \in DOMAIN dict : Usable(i)) /\ (\A i, j \in DOMAIN dict : tag(i) = tag(j) => i = j)
<1>1. ASSUME NEW i \in DOMAIN dict
      PROVE  /\ tag(i) \in Tags => TagFromPy(dict[i].key) = Ok(tag(i))
             /\ tag(i) \notin Tags => TagFromPy(dict[i].key) = Err
  BY TagOfKey
<1>2. ASSUME NEW i \in DOMAIN dict, NEW t
      PROVE  /\ Unfit(t, dict[i].value) => ValueToBytes(t, dict[i].value) = Err
             /\ ~Unfit(t, dict[i].value) =>
                  \E octets : /\ ValueToBytes(t, dict[i].value) = Ok(octets)
                              /\ Means(octets, dict[i].value, t)
  <2>1. Encoded(t, dict[i].value)
    BY BytesOfValue, Zenon
  <2>2. QED
    BY <2>1, Zenon DEF Encoded
<1>3. ASSUME NEW i \in DOMAIN dict
      PROVE  Usable(i) <=> tag(i) \in Tags /\ ~Unfit(tag(i), dict[i].value)
  BY Zenon DEF Unusable
<1>4. ASSUME NEW i \in DOMAIN dict, ~Usable(i) PROVE Raises(dict, i)
  <2>1. CASE tag(i) \notin Tags
    BY <1>1, <2>1, Results, Zenon DEF Raises
  <2>2. CASE tag(i) \in Tags /\ Unfit(tag(i), dict[i].value)
    <3>1. TagFromPy(dict[i].key).value = tag(i)
      BY <1>1, <2>2, Results, Zenon
    <3>2. ~ValueToBytes(tag(i), dict[i].value).ok
      BY <1>2, <2>2, Results, Zenon
    <3>3. QED
      BY <3>1, <3>2, Zenon DEF Raises
  <2>3. QED
    BY <1>3, <1>4, <2>1, <2>2, Zenon
<1>5. ASSUME NEW i \in DOMAIN dict, NEW j \in DOMAIN dict, tag(i) = tag(j), j < i
      PROVE  Raises(dict, i)
  <2>1. j \in 1 .. i - 1
    BY <1>5
  <2>2. TagFromPy(dict[j].key) = TagFromPy(dict[i].key)
    BY <1>1, <1>5, Zenon
  <2>3. QED
    BY <2>1, <2>2, Zenon DEF Raises
<1>6. ASSUME ~good PROVE \E i \in DOMAIN dict : Raises(dict, i)
  <2>1. CASE \E i \in DOMAIN dict : ~Usable(i)
    BY <1>4, <2>1, Zenon
  <2>2. CASE \E i, j \in DOMAIN dict : tag(i) = tag(j) /\ i # j
    <3>1. PICK i \in DOMAIN dict, j \in DOMAIN dict : tag(i) = tag(j) /\ i # j
      BY <2>2, Zenon
    <3>2. i < j \/ j < i
      BY <3>1
    <3>3. QED
      BY <1>5, <3>1, <3>2, Zenon
  <2>3. QED
    BY <1>6, <2>1, <2>2, Zenon
<1>7. ASSUME good, NEW i \in DOMAIN dict
      PROVE  /\ ~Raises(dict, i)
             /\ PushItem(dict[i]).tag = tag(i)
             /\ Means(PushItem(dict[i]).value, dict[i].value, tag(i))
  <2>1. tag(i) \in Tags /\ ~Unfit(tag(i), dict[i].value)
    BY <1>3, <1>7, Zenon
  <2>2. PICK octets : ValueToBytes(tag(i), dict[i].value) = Ok(octets) /\ Means(octets, dict[i].value, tag(i))
    BY <1>2, <2>1, Zenon
  <2>3. TagFromPy(dict[i].key) = Ok(tag(i)) /\ TagFromPy(dict[i].key).value = tag(i)
    BY <1>1, <2>1, Results, Zenon
  <2>4. ASSUME NEW j \in 1 .. i - 1 PROVE TagFromPy(dict[j].key) # TagFromPy(dict[i].key)
    <3>1. j \in DOMAIN dict /\ j # i
      OBVIOUS
    <3>2. tag(j) # tag(i) /\ tag(j) \in Tags
      BY <1>3, <1>7, <3>1, Zenon
    <3>3. QED
      BY <1>1, <2>3, <3>1, <3>2, Results, Zenon
  <2>5. ~Raises(dict, i)
    BY <2>2, <2>3, <2>4, Results, Zenon DEF Raises
  <2>6. PushItem(dict[i]).tag = tag(i) /\ PushItem(dict[i]).value = octets
    BY <2>2, <2>3, Results DEF PushItem
  <2>7. QED
    BY <2>2, <2>5, <2>6, Zenon
<1>8. ASSUME ~good PROVE TlvsFromPy(dict) = Err
  BY <1>6, <1>8, Zenon DEF TlvsFromPy
<1>9. ASSUME good PROVE TlvsFromPy(dict) = Ok([i \in DOMAIN dict |-> PushItem(dict[i])])
  BY <1>7, <1>9, Zenon DEF TlvsFromPy
<1>10. ASSUME good
       PROVE  /\ TlvsFromPy(dict).ok = TRUE /\ DOMAIN TlvsFromPy(dict).value = 1 .. Len(dict)
              /\ \A i \in DOMAIN dict : TlvsFromPy(dict).value[i] = PushItem(dict[i])
  <2> DEFINE f == [i \in DOMAIN dict |-> PushItem(dict[i])]
  <2>1. DOMAIN f = 1 .. Len(dict) /\ \A i \in DOMAIN dict : f[i] = PushItem(dict[i])
    BY Zenon
  <2>2. TlvsFromPy(dict) = Ok(f)
    BY <1>9, <1>10, Zenon
  <2> HIDE DEF f
  <2>3. TlvsFromPy(dict).ok = TRUE /\ TlvsFromPy(dict).value = f
    BY <2>2, Results, Zenon
  <2>4. QED
    BY <2>1, <2>3, Zenon
<1>11. QED
  BY <1>7, <1>8, <1>10, Zenon

\* From a script's dict to the peer's.
LEMMA TlvsStep ==
  ASSUME NEW dict \in Dicts, SendTlvs(dict)
  PROVE  TlvsArrive'
<1> DEFINE tag(i) == KeyTag(dict[i].key)
           sent == TlvsFromPy(dict)
           good == /\ \A i \in DOMAIN dict : ~Unusable(dict[i])
                   /\ \A i, j \in DOMAIN dict : tag(i) = tag(j) => i = j
<1>1. DOMAIN dict = 1 .. Len(dict) /\ Len(dict) \in Nat /\ \A i \in DOMAIN dict : IsKey(dict[i].key) /\ IsValue(dict[i].value)
  <2> DEFINE Items == {dict[i] : i \in DOMAIN dict}
  <2>1. dict \in Seq(Items) /\ \A i \in DOMAIN dict : IsKey(dict[i].key) /\ IsValue(dict[i].value)
    BY DictsAssumption, Zenon
  <2> HIDE DEF Items
  <2>2. QED
    BY <2>1
<1>2. /\ ~good => sent = Err
      /\ good => /\ sent.ok = TRUE /\ DOMAIN sent.value = 1 .. Len(dict)
                 /\ \A i \in DOMAIN dict :
                      /\ sent.value[i].tag = tag(i)
                      /\ Means(sent.value[i].value, dict[i].value, tag(i))
  BY <1>1, TlvsOfDict, Zenon
<1>3. call'.op = "tlvs" /\ call'.dict = dict /\ call'.sent = sent
  BY DEF SendTlvs
<1>4. sent.ok = TRUE => call'.seen = TlvsToPy(sent.value)
  BY DEF SendTlvs
<1> HIDE DEF sent
<1>5. ASSUME good
      PROVE  /\ DOMAIN call'.seen = KeyTags(dict)
             /\ \A i \in DOMAIN dict : Means(call'.seen[tag(i)], dict[i].value, tag(i))
  <2> DEFINE tlvs == sent.value
  <2>1. /\ DOMAIN tlvs = 1 .. Len(dict) /\ \A i \in 1 .. Len(dict) : tlvs[i].tag = tag(i)
        /\ \A i \in 1 .. Len(dict) : Means(tlvs[i].value, dict[i].value, tag(i))
    <3>1. DOMAIN sent.value = 1 .. Len(dict)
      BY <1>2, <1>5, Zenon
    <3>2. \A i \in DOMAIN dict : /\ sent.value[i].tag = tag(i)
                                 /\ Means(sent.value[i].value, dict[i].value, tag(i))
      BY <1>2, <1>5, Zenon
    <3>3. QED
      BY <1>1, <3>1, <3>2, Zenon
  <2> HIDE DEF tlvs
  <2>2. \A i, j \in 1 .. Len(dict) : tlvs[i].tag = tlvs[j].tag => i = j
    <3>1. \A i, j \in 1 .. Len(dict) : tag(i) = tag(j) => i = j
      BY <1>1, <1>5, Zenon
    <3>2. QED
      BY <2>1, <3>1, Zenon
  <2>3. /\ DOMAIN TlvsToPy(tlvs) = {tlvs[i].tag : i \in 1 .. Len(dict)}
        /\ \A i \in 1 .. Len(dict) : TlvsToPy(tlvs)[tlvs[i].tag] = tlvs[i].value
    <3>1. Distinct(Len(dict), tlvs)
      BY <2>1, <2>2, Zenon DEF Distinct
    <3>2. Holds(Len(dict), tlvs, TlvsToPy(tlvs))
      BY <1>1, <3>1, DictOfTlvs, Zenon
    <3>3. QED
      BY <3>2, Zenon DEF Holds
  <2>4. call'.seen = TlvsToPy(tlvs)
    BY <1>2, <1>4, <1>5, Zenon DEF tlvs
  <2>5. {tlvs[i].tag : i \in 1 .. Len(dict)} = KeyTags(dict)
    BY <1>1, <2>1, Zenon DEF KeyTags
  <2>6. QED
    BY <1>1, <2>1, <2>3, <2>4, <2>5, Zenon
<1>6. sent.ok <=> good
  BY <1>2, Results, Zenon
<1>7. QED
  BY <1>3, <1>5, <1>6, Zenon DEF TlvsArrive

\* What a script passes as tlvs= reaches the peer, whatever the dict, the
\* tables and the size of an octet.
THEOREM TlvsReachPeer == Spec => []TlvsArrive
<1>1. Init => TlvsArrive
  BY DEF Init, idle, TlvsArrive
<1>2. TlvsArrive /\ [Next]_call => TlvsArrive'
  <2> SUFFICES ASSUME TlvsArrive, [Next]_call PROVE TlvsArrive'
    OBVIOUS
  <2>1. ASSUME call'.op # "tlvs" PROVE TlvsArrive'
    BY <2>1 DEF TlvsArrive
  <2>2. ASSUME NEW dict \in Dicts, SendTlvs(dict) PROVE TlvsArrive'
    BY <2>2, TlvsStep
  <2>3. CASE UNCHANGED call
    BY <2>3 DEF TlvsArrive
  <2>4. QED
    BY <2>1, <2>2, <2>3, OpOfCall DEF Next
<1>3. QED
  BY <1>1, <1>2, PTL DEF Spec

-----------------------------------------------------------------------------
(* Answers.                                                                 *)

Names == {"ESME_ROK", "ESME_RSYSERR", "ESME_RMSGQFUL", "ESME_RSUBMITFAIL", "ESME_RTHROTTLED",
          "ESME_RUNKNOWNERR"}

\* The table of statuses, spelled out.
LEMMA CodesOfNames ==
  /\ DOMAIN CodeOf = Names
  /\ CodeOf["ESME_ROK"] = 0 /\ CodeOf["ESME_RSYSERR"] = 8 /\ CodeOf["ESME_RMSGQFUL"] = 20
  /\ CodeOf["ESME_RSUBMITFAIL"] = 69 /\ CodeOf["ESME_RTHROTTLED"] = 88
  /\ CodeOf["ESME_RUNKNOWNERR"] = 255
BY DEF CodeOf, Names

\* No two names have the same code: from_command_status inverts the table.
LEMMA NameOfCode ==
  ASSUME NEW n \in DOMAIN CodeOf
  PROVE  FromCommandStatus(CodeOf[n]) = n
<1>1. ASSUME NEW m \in DOMAIN CodeOf, CodeOf[m] = CodeOf[n] PROVE m = n
  BY <1>1, CodesOfNames DEF Names
<1>2. QED
  BY <1>1 DEF FromCommandStatus

\* status_name is the name of a code that has one.
LEMMA NameShown ==
  ASSUME NEW n \in DOMAIN CodeOf
  PROVE  StatusName(CodeOf[n]) = n
BY NameOfCode DEF StatusName

\* status_name names a code that has no name after no other one.
LEMMA NoOtherName ==
  ASSUME NEW code \in {CodeOf[n] : n \in DOMAIN CodeOf} \cup DOMAIN Hex,
         NEW n \in DOMAIN CodeOf, StatusName(code) = n
  PROVE  CodeOf[n] = code
<1>1. CASE CodeOf[FromCommandStatus(code)] = code
  BY <1>1 DEF StatusName
<1>2. CASE CodeOf[FromCommandStatus(code)] # code
  <2>1. \A m \in DOMAIN CodeOf : CodeOf[m] # code
    BY <1>2, NameOfCode
  <2>2. StatusName(code) = Hex[code] /\ code \in DOMAIN Hex
    BY <1>2, <2>1 DEF StatusName
  <2>3. QED
    BY <2>2, HexAssumption
<1>3. QED
  BY <1>1, <1>2

\* A response to a command has the reply's status, an id only if that is
\* ESME_ROK and only where the command has one, and TLVs only in a data_sm_resp.
IsResponse(command, reply, resp) ==
  /\ resp.status = reply.status
  /\ resp.tlvs = IF command = "data_sm" THEN reply.tlvs ELSE {}
  /\ reply.status # ESME_ROK => resp.id = ""
  /\ reply.status = ESME_ROK /\ command \in {"submit_sm", "submit_sm_multi", "query_sm"}
       => resp.id = OrEmpty(reply.id)
  /\ reply.status = ESME_ROK /\ command = "query_sm" => resp.state = reply.state

\* The runtime makes such a response of every reply.
LEMMA ResponseParts ==
  ASSUME NEW command, NEW reply
  PROVE  IsResponse(command, reply, Response(command, reply))
<1> USE DEF IsResponse, Response, Bare
<1>1. CASE reply.status # ESME_ROK
  BY <1>1
<1>2. CASE reply.status = ESME_ROK /\ command \in {"submit_sm", "submit_sm_multi"}
  BY <1>2
<1>3. CASE reply.status = ESME_ROK /\ command = "data_sm"
  BY <1>3
<1>4. CASE reply.status = ESME_ROK /\ command = "query_sm"
  BY <1>4
<1>5. CASE reply.status = ESME_ROK
             /\ command \notin {"submit_sm", "submit_sm_multi", "data_sm", "query_sm"}
  BY <1>5
<1>6. QED
  BY <1>1, <1>2, <1>3, <1>4, <1>5

\* What a script reads off a response with the status called name.
Reads(command, resp, name, told) ==
  /\ told.command_status = name
  /\ told.ok <=> name = "ESME_ROK"
  /\ told.throttled <=> name \in {"ESME_RTHROTTLED", "ESME_RMSGQFUL"}
  /\ told.message_state = resp.state
  /\ told.message_id = IF command \in {"submit_sm", "submit_sm_multi", "query_sm"}
                       THEN resp.id ELSE ""

\* SmppResp and QueryResp say so.
LEMMA ToldParts ==
  ASSUME NEW command, NEW resp, NEW n \in DOMAIN CodeOf, resp.status = CodeOf[n]
  PROVE  Reads(command, resp, n, SmppResp(command, resp))
<1> DEFINE told == SmppResp(command, resp)
<1>1. told.command_status = n
  BY NameShown DEF SmppResp
<1>2. told.ok <=> n = "ESME_ROK"
  <2>1. told.ok <=> resp.status = ESME_ROK
    BY Zenon DEF SmppResp
  <2>2. CodeOf[n] = ESME_ROK <=> n = "ESME_ROK"
    BY CodesOfNames DEF ESME_ROK, Names
  <2>3. QED
    BY <2>1, <2>2, Zenon
<1>3. told.throttled <=> n \in {"ESME_RTHROTTLED", "ESME_RMSGQFUL"}
  <2>1. told.throttled <=> IsThrottle(resp.status)
    BY Zenon DEF SmppResp
  <2>2. IsThrottle(CodeOf[n]) <=> n \in {"ESME_RTHROTTLED", "ESME_RMSGQFUL"}
    BY CodesOfNames DEF IsThrottle, ESME_RTHROTTLED, ESME_RMSGQFUL, Names
  <2>3. QED
    BY <2>1, <2>2, Zenon
<1>4. /\ told.message_state = resp.state
      /\ told.message_id = IF command \in {"submit_sm", "submit_sm_multi", "query_sm"}
                           THEN resp.id ELSE ""
  BY DEF SmppResp, ReplyMessageId
<1>5. QED
  BY <1>1, <1>2, <1>3, <1>4, Zenon DEF Reads

\* Pdu.reply and Pdu.reply_query, a response PDU and the sending script: a
\* call Reply(r) keeps AnswerArrives.
LEMMA ReplyArrives ==
  ASSUME NEW r \in Replies, Reply(r)
  PROVE  AnswerArrives'
<1> DEFINE reply == IF r.query THEN MakeReplyQuery(r.queried, r.id, r.state)
                    ELSE MakeReply(r.command, r.status, r.id, r.tlvs)
           wire == Response(r.command, reply)
           told == SmppResp(r.command, wire)
           status == IF r.query THEN "ESME_ROK" ELSE r.status
<1>1. /\ call'.op = "reply" /\ call'.given = r /\ call'.reply = reply
      /\ ~reply.raised => call'.wire = wire /\ call'.told = told
  BY DEF Reply
<1> HIDE DEF reply, wire, told
<1>2. SUFFICES ASSUME ~reply.raised
               PROVE  /\ told.command_status = status
                      /\ told.ok <=> status = "ESME_ROK"
                      /\ told.throttled <=> status \in {"ESME_RTHROTTLED", "ESME_RMSGQFUL"}
                      /\ ~told.ok => told.message_id = ""
                      /\ told.ok /\ r.command \in {"submit_sm", "submit_sm_multi"} =>
                           told.message_id = OrEmpty(r.id)
                      /\ r.query => /\ told.message_state = r.state
                                    /\ told.message_id \in {r.id, r.queried}
                      /\ wire.tlvs = r.tlvs
  BY <1>1 DEF AnswerArrives
<1>3. /\ status \in DOMAIN CodeOf /\ reply.status = CodeOf[status]
      /\ r.query => r.command = "query_sm" /\ r.tlvs = {} /\ r.queried # NoId
      /\ r.query => reply.id = (IF r.id = NoId THEN r.queried ELSE r.id) /\ reply.state = r.state
      /\ ~r.query => reply.id = r.id
      /\ reply.tlvs = r.tlvs /\ (r.command # "data_sm" => r.tlvs = {})
  <2>1. CASE r.query
    BY <2>1, AnswersAssumption, CodesOfNames DEF reply, MakeReplyQuery, ESME_ROK, Names
  <2>2. CASE ~r.query
    BY <1>2, <2>2 DEF reply, MakeReply
  <2>3. QED
    BY <2>1, <2>2
<1>4. IsResponse(r.command, reply, wire)
  BY ResponseParts DEF wire
<1> HIDE DEF status
<1>5. Reads(r.command, wire, status, told)
  BY <1>3, <1>4, ToldParts DEF IsResponse, told
<1>6. reply.status = ESME_ROK <=> status = "ESME_ROK"
  BY <1>3, CodesOfNames DEF ESME_ROK, Names
<1>7. r.query => status = "ESME_ROK"
  BY DEF status
<1>8. QED
  BY <1>3, <1>4, <1>5, <1>6, <1>7 DEF OrEmpty, IsResponse, Reads

\* A script is told what the handler that answered it decided, whatever the
\* handlers' replies and the statuses other peers refuse with.
THEOREM AnswersArrive == Spec => []AnswerArrives
<1>1. Init => AnswerArrives
  BY DEF Init, idle, AnswerArrives
<1>2. AnswerArrives /\ [Next]_call => AnswerArrives'
  <2> SUFFICES ASSUME AnswerArrives, [Next]_call PROVE AnswerArrives'
    OBVIOUS
  <2>1. ASSUME call'.op \notin {"reply", "status"} PROVE AnswerArrives'
    BY <2>1 DEF AnswerArrives
  <2>2. ASSUME NEW r \in Replies, Reply(r) PROVE AnswerArrives'
    BY <2>2, ReplyArrives
  <2>3. ASSUME NEW status \in PeerStatuses, PeerRefuses(status) PROVE AnswerArrives'
    <3>1. /\ call'.op = "status" /\ call'.status = status
          /\ call'.told = SmppResp("submit_sm", Bare(status))
      BY <2>3 DEF PeerRefuses
    <3>2. call'.told.command_status = StatusName(status) /\ ~call'.told.ok
      <4>1. status # ESME_ROK
        BY AnswersAssumption
      <4>2. Bare(status).status = status
        BY DEF Bare
      <4>3. ~call'.told.ok
        <5>1. SmppResp("submit_sm", Bare(status)).ok <=> Bare(status).status = ESME_ROK
          BY Zenon DEF SmppResp
        <5>2. QED
          BY <3>1, <4>1, <4>2, <5>1, Zenon
      <4>4. call'.told.command_status = StatusName(status)
        BY <3>1, <4>2 DEF SmppResp
      <4>5. QED
        BY <4>3, <4>4
    <3>3. \A n \in DOMAIN CodeOf : StatusName(status) = n => CodeOf[n] = status
      BY AnswersAssumption, NoOtherName
    <3>4. QED
      BY <3>1, <3>2, <3>3 DEF AnswerArrives
  <2>4. CASE UNCHANGED call
    BY <2>4 DEF AnswerArrives
  <2>5. QED
    BY <2>1, <2>2, <2>3, <2>4, OpOfCall DEF Next
<1>3. QED
  BY <1>1, <1>2, PTL DEF Spec

-----------------------------------------------------------------------------
(* Messages.                                                                *)

Helpers == {"submit_via", "submit_multi_via", "data_via", "cancel_via", "query_via",
            "replace_via", "deliver_to", "data_to"}

\* The send helpers and the commands of their PDUs.
LEMMA HelpersCommands ==
  /\ DOMAIN CommandOf = Helpers
  /\ CommandOf["submit_via"] = "submit_sm" /\ CommandOf["submit_multi_via"] = "submit_sm_multi"
  /\ CommandOf["data_via"] = "data_sm" /\ CommandOf["cancel_via"] = "cancel_sm"
  /\ CommandOf["query_via"] = "query_sm" /\ CommandOf["replace_via"] = "replace_sm"
  /\ CommandOf["deliver_to"] = "deliver_sm" /\ CommandOf["data_to"] = "data_sm"
BY DEF CommandOf, Helpers

\* Pdu::from_* reads every argument its helper sends, but for the destination
\* of a submit_sm_multi, which is a list there.
LEMMA ArgumentsAreRead ==
  ASSUME NEW h \in Helpers, NEW f \in Arguments[h]
  PROVE  /\ f \in PduFields
         /\ f \in FieldsRead[CommandOf[h]] \/ (h = "submit_multi_via" /\ f \in Dest)
<1>1. /\ Arguments["submit_via"] = SubmitFields /\ Arguments["deliver_to"] = SubmitFields
      /\ Arguments["submit_multi_via"] = SubmitFields \ {"destination_addr"}
      /\ Arguments["data_via"] = DataFields /\ Arguments["data_to"] = DataFields
      /\ Arguments["cancel_via"] = FromCancel /\ Arguments["query_via"] = FromQuery
      /\ Arguments["replace_via"] = FromReplace
  BY DEF Arguments, FromCancel, FromQuery, FromReplace
<1>2. /\ FieldsRead["submit_sm"] = SubmitFields /\ FieldsRead["deliver_sm"] = SubmitFields
      /\ FieldsRead["submit_sm_multi"] = SubmitFields \ Dest
      /\ FieldsRead["data_sm"] = DataFields
      /\ FieldsRead["cancel_sm"] = FromCancel /\ FieldsRead["query_sm"] = FromQuery
      /\ FieldsRead["replace_sm"] = FromReplace
  BY DEF FieldsRead, FromSubmit, FromDeliver, FromData, FromSubmitMulti
<1>3. /\ SubmitFields \subseteq PduFields /\ DataFields \subseteq PduFields
      /\ FromCancel \subseteq PduFields /\ FromQuery \subseteq PduFields
      /\ FromReplace \subseteq PduFields
  BY DEF PduFields, SubmitFields, DataFields, FromCancel, FromQuery, FromReplace, Addressing,
         Source, Schedule
<1>4. f \in PduFields
  BY <1>1, <1>3 DEF Helpers
<1>5. f \in FieldsRead[CommandOf[h]] \/ (h = "submit_multi_via" /\ f \in Dest)
  BY <1>1, <1>2, HelpersCommands DEF Helpers
<1>6. QED
  BY <1>4, <1>5

\* What a helper that does not raise hands to the codec.
IsBuilt(h, args, sent) ==
  /\ ~Refuses(h, args)
  /\ sent.command = CommandOf[h]
  /\ sent.destinations = args.destinations
  /\ h \in IsDataSm => sent.short_message = Empty /\ sent.tlvs = Fold(args.short_message, args.tlvs)
  /\ h \notin IsDataSm => sent.short_message = args.short_message /\ sent.tlvs = args.tlvs
  /\ \A f \in Arguments[h] :
       sent.fields[f] = IF f \in DOMAIN args.fields THEN args.fields[f] ELSE Default(f)

\* A helper raises exactly if one of its checks fails, and builds that otherwise.
LEMMA BuildParts ==
  ASSUME NEW h, NEW args
  PROVE  /\ Build(h, args).raised <=> Refuses(h, args)
         /\ ~Build(h, args).raised => IsBuilt(h, args, Build(h, args))
<1>1. CASE Refuses(h, args)
  BY <1>1 DEF Build, Raised
<1>2. CASE ~Refuses(h, args)
  BY <1>2 DEF Build, IsBuilt
<1>3. QED
  BY <1>1, <1>2

\* What the peer's Pdu shows of a PDU.
IsPdu(pdu, seen) ==
  /\ seen.command = pdu.command
  /\ \A f \in PduFields : f \in FieldsRead[pdu.command] => seen.fields[f] = pdu.fields[f]
  /\ seen.destinations = IF pdu.command = "submit_sm_multi" THEN pdu.destinations ELSE <<>>
  /\ seen.short_message = IF pdu.command \in {"data_sm", "cancel_sm", "query_sm"}
                          THEN Empty ELSE pdu.short_message
  /\ seen.tlvs = IF pdu.command \in {"cancel_sm", "query_sm", "replace_sm"} THEN <<>> ELSE pdu.tlvs

\* Pdu::from_* makes such a Pdu.
LEMMA PduParts ==
  ASSUME NEW pdu
  PROVE  IsPdu(pdu, PduOf(pdu))
BY DEF IsPdu, PduOf

\* fold_message_payload keeps the other TLVs, and a body that is not empty is
\* the payload.
LEMMA FoldParts ==
  ASSUME NEW short, NEW tlvs
  PROVE  /\ short.len = 0 => Fold(short, tlvs) = tlvs
         /\ short.len # 0 => PAYLOAD \in DOMAIN Fold(short, tlvs)
                             /\ Fold(short, tlvs)[PAYLOAD] = short
         /\ \A t \in DOMAIN tlvs : t # PAYLOAD => t \in DOMAIN Fold(short, tlvs)
                                                  /\ Fold(short, tlvs)[t] = tlvs[t]
BY DEF Fold, WithPayload

\* From one script's keyword arguments to the other's Pdu.
LEMMA SendArrives ==
  ASSUME NEW c \in Calls, Send(c)
  PROVE  MessageArrives'
<1> DEFINE h == c.helper
           args == c.args
           sent == Build(h, args)
           seen == PduOf(sent)
<1>1. /\ call'.op = "send" /\ call'.helper = h /\ call'.args = args /\ call'.sent = sent
      /\ ~sent.raised => call'.seen = seen
  BY DEF Send
<1>2. SUFFICES ASSUME ~sent.raised
               PROVE  /\ CodecTakes(sent)
                      /\ \A f \in DOMAIN args.fields :
                           \/ seen.fields[f] = args.fields[f]
                           \/ h = "submit_multi_via" /\ f \in Dest
                      /\ seen.destinations = args.destinations
                      /\ \A t \in DOMAIN args.tlvs : seen.tlvs[t] = args.tlvs[t]
                      /\ \/ Body(seen) = args.short_message
                         \/ PAYLOAD \in DOMAIN args.tlvs /\ Body(seen) = args.tlvs[PAYLOAD]
  BY <1>1 DEF MessageArrives
<1>3. IsBuilt(h, args, sent)
  BY <1>2, BuildParts
<1>4. IsPdu(sent, seen)
  BY PduParts
<1>5. /\ h \in Helpers
      /\ DOMAIN args.fields \subseteq Arguments[h]
      /\ IsContent(args.short_message)
      /\ h \in {"cancel_via", "query_via"} => args.short_message = Empty
      /\ h \notin TakesTlvs => args.tlvs = <<>>
      /\ args.destinations \in Seq(STRING)
      /\ h # "submit_multi_via" => args.destinations = <<>>
  BY MessagesAssumption, HelpersCommands
<1> HIDE DEF h, args, sent, seen
<1>6. CodecTakes(sent)
  <2>1. sent.short_message.len <= SHORT_MESSAGE_MAX
    <3>1. Empty.len <= SHORT_MESSAGE_MAX
      BY DEF Empty, SHORT_MESSAGE_MAX
    <3>2. CASE h \in IsDataSm \cup {"cancel_via", "query_via"}
      BY <1>3, <1>5, <3>1, <3>2 DEF IsBuilt, IsDataSm
    <3>3. CASE h \in HasShortMessage
      BY <1>3, <1>5, <3>3
      DEF IsBuilt, Refuses, IsContent, HasShortMessage, IsDataSm, SHORT_MESSAGE_MAX
    <3>4. QED
      BY <1>5, <3>2, <3>3 DEF Helpers, IsDataSm, HasShortMessage
  <2>2. Len(sent.destinations) <= MaxDests
    BY <1>3, <1>5 DEF IsBuilt, Refuses, MaxDests
  <2>3. QED
    BY <2>1, <2>2 DEF CodecTakes
<1>7. ASSUME NEW f \in DOMAIN args.fields
      PROVE  seen.fields[f] = args.fields[f] \/ (h = "submit_multi_via" /\ f \in Dest)
  <2>1. f \in Arguments[h]
    BY <1>5
  <2>2. f \in PduFields /\ (f \in FieldsRead[CommandOf[h]] \/ (h = "submit_multi_via" /\ f \in Dest))
    BY <1>5, <2>1, ArgumentsAreRead
  <2>3. sent.fields[f] = args.fields[f] /\ sent.command = CommandOf[h]
    BY <1>3, <2>1 DEF IsBuilt
  <2>4. QED
    BY <1>4, <2>2, <2>3 DEF IsPdu
<1>8. seen.destinations = args.destinations
  BY <1>3, <1>4, <1>5, HelpersCommands DEF IsBuilt, IsPdu, Helpers
<1>9. CASE h \in IsDataSm
  <2>1. /\ seen.short_message = Empty /\ seen.tlvs = Fold(args.short_message, args.tlvs)
    BY <1>3, <1>4, <1>9, HelpersCommands DEF IsBuilt, IsPdu, IsDataSm, Helpers
  <2>2. args.short_message.len \in Nat /\ (args.short_message.len = 0 => args.short_message = Empty)
    BY <1>5 DEF IsContent
  <2>3. args.short_message.len # 0 => PAYLOAD \notin DOMAIN args.tlvs
    BY <1>3, <1>9, <2>2 DEF IsBuilt, Refuses
  <2>4. \A t \in DOMAIN args.tlvs : seen.tlvs[t] = args.tlvs[t]
    BY <2>1, <2>3, FoldParts
  <2>5. \/ Body(seen) = args.short_message
        \/ PAYLOAD \in DOMAIN args.tlvs /\ Body(seen) = args.tlvs[PAYLOAD]
    BY <2>1, <2>2, FoldParts DEF Body
  <2>6. QED
    BY <1>6, <1>7, <1>8, <2>4, <2>5
<1>10. CASE h \notin IsDataSm
  <2>1. seen.tlvs = args.tlvs
    BY <1>3, <1>4, <1>5, <1>10, HelpersCommands DEF IsBuilt, IsPdu, IsDataSm, Helpers, TakesTlvs
  <2>2. seen.short_message = args.short_message
    BY <1>3, <1>4, <1>5, <1>10, HelpersCommands DEF IsBuilt, IsPdu, IsDataSm, Helpers
  <2>3. QED
    BY <1>6, <1>7, <1>8, <2>1, <2>2 DEF Body
<1>11. QED
  BY <1>9, <1>10

\* _relay_kwargs: the body goes where it fits, and only there.
LEMMA KwargsParts ==
  ASSUME NEW pdu, Body(pdu).len \in Nat
  PROVE  LET kwargs == RelayKwargs(pdu)
         IN  /\ Body(pdu).len <= SHORT_MESSAGE_MAX =>
                  kwargs.short_message = Body(pdu) /\ PAYLOAD \notin DOMAIN kwargs.tlvs
             /\ Body(pdu).len > SHORT_MESSAGE_MAX =>
                  /\ kwargs.short_message = Empty
                  /\ PAYLOAD \in DOMAIN kwargs.tlvs /\ kwargs.tlvs[PAYLOAD] = Body(pdu)
             /\ \A t \in RELAYED_TLVS \cap DOMAIN pdu.tlvs :
                  t \in DOMAIN kwargs.tlvs /\ kwargs.tlvs[t] = pdu.tlvs[t]
<1>1. PAYLOAD \notin RELAYED_TLVS
  BY DEF PAYLOAD, RELAYED_TLVS
<1>2. CASE Body(pdu).len > SHORT_MESSAGE_MAX
  BY <1>1, <1>2 DEF RelayKwargs, WithPayload, Only, SHORT_MESSAGE_MAX
<1>3. CASE ~(Body(pdu).len > SHORT_MESSAGE_MAX)
  BY <1>1, <1>3 DEF RelayKwargs, Only, SHORT_MESSAGE_MAX
<1>4. QED
  BY <1>2, <1>3

\* Each handler relays with the helper of the command it got, which takes,
\* and whose Pdu shows, every field it passes on.
LEMMA RelayedAreArguments ==
  ASSUME NEW command \in DOMAIN RelayedWith
  PROVE  /\ RelayedWith[command] \in Helpers /\ CommandOf[RelayedWith[command]] = command
         /\ RelayedWith[command] \in IsDataSm <=> command = "data_sm"
         /\ RelayedWith[command] # "submit_multi_via"
         /\ RelayedFields(command) \subseteq Arguments[RelayedWith[command]]
         /\ RelayedFields(command) \subseteq PduFields
<1>1. /\ DOMAIN RelayedWith = {"submit_sm", "data_sm", "deliver_sm"}
      /\ RelayedWith["submit_sm"] = "submit_via" /\ RelayedWith["data_sm"] = "data_via"
      /\ RelayedWith["deliver_sm"] = "deliver_to"
  BY DEF RelayedWith
<1>2. RelayedFields(command) \subseteq DataFields
  BY DEF RelayedFields, DataFields, Addressing, Source, Dest
<1>3. DataFields \subseteq SubmitFields /\ SubmitFields \subseteq PduFields
  BY DEF SubmitFields, PduFields
<1>4. /\ Arguments["submit_via"] = SubmitFields /\ Arguments["deliver_to"] = SubmitFields
      /\ Arguments["data_via"] = DataFields
  BY DEF Arguments
<1>5. QED
  BY <1>1, <1>2, <1>3, <1>4, HelpersCommands DEF Helpers, IsDataSm

\* From the peer's PDU through the gateway to the next hop's Pdu.
LEMMA RelayArrives ==
  ASSUME NEW pdu \in PeerPdus, RelayMessage(pdu)
  PROVE  MessageArrives'
<1> DEFINE from == PduOf(pdu)
           kwargs == RelayKwargs(from)
           h == RelayedWith[from.command]
           args == [fields |-> Only(from.fields, RelayedFields(from.command)), destinations |-> <<>>,
                    short_message |-> kwargs.short_message, tlvs |-> kwargs.tlvs]
           sent == Build(h, args)
           seen == PduOf(sent)
<1>1. /\ call'.op = "relay" /\ call'.from = from /\ call'.sent = sent
      /\ ~sent.raised => call'.seen = seen
  BY DEF RelayMessage, Relay
<1>2. IsPdu(pdu, from) /\ IsPdu(sent, seen)
  BY PduParts
<1>3. from.command \in DOMAIN RelayedWith
  BY <1>2, MessagesAssumption DEF IsPdu
<1>4. IsContent(from.short_message) /\ \A t \in DOMAIN from.tlvs : IsContent(from.tlvs[t])
  <2>1. IsContent(Empty)
    BY DEF IsContent, Empty
  <2>2. from.tlvs = pdu.tlvs
    BY <1>2, <1>3 DEF IsPdu, RelayedWith
  <2>3. QED
    BY <1>2, <2>1, <2>2, MessagesAssumption DEF IsPdu
<1>5. IsContent(Body(from))
  BY <1>4 DEF Body
<1>6. \A f \in RelayedFields(from.command) :
        f \in DOMAIN args.fields /\ args.fields[f] = from.fields[f]
  <2>1. DOMAIN from.fields = PduFields
    BY DEF PduOf
  <2>2. QED
    BY <1>3, <2>1, RelayedAreArguments DEF Only
<1>7. args.destinations = <<>> /\ args.short_message = kwargs.short_message /\ args.tlvs = kwargs.tlvs
  OBVIOUS
<1> HIDE DEF from, h, args, sent, seen
<1>8. /\ Body(from).len <= SHORT_MESSAGE_MAX =>
           args.short_message = Body(from) /\ PAYLOAD \notin DOMAIN args.tlvs
      /\ Body(from).len > SHORT_MESSAGE_MAX =>
           /\ args.short_message = Empty
           /\ PAYLOAD \in DOMAIN args.tlvs /\ args.tlvs[PAYLOAD] = Body(from)
      /\ \A t \in RELAYED_TLVS \cap DOMAIN from.tlvs :
           t \in DOMAIN args.tlvs /\ args.tlvs[t] = from.tlvs[t]
  BY <1>5, <1>7, KwargsParts DEF IsContent
<1> HIDE DEF kwargs
<1>9. /\ args.short_message.len <= SHORT_MESSAGE_MAX /\ args.short_message.len \in Nat
      /\ args.short_message.len = 0 => args.short_message = Empty
      /\ args.short_message.len # 0 => PAYLOAD \notin DOMAIN args.tlvs
  <2>1. Empty.len = 0
    BY DEF Empty
  <2>2. QED
    BY <1>5, <1>8, <2>1 DEF IsContent, SHORT_MESSAGE_MAX
<1>10. ~Refuses(h, args)
  BY <1>3, <1>7, <1>9, RelayedAreArguments DEF h, Refuses, SHORT_MESSAGE_MAX
<1>11. ~sent.raised /\ IsBuilt(h, args, sent)
  BY <1>10, BuildParts DEF sent
<1>12. /\ h \in Helpers /\ CommandOf[h] = from.command /\ (h \in IsDataSm <=> from.command = "data_sm")
       /\ RelayedFields(from.command) \subseteq Arguments[h] /\ h # "submit_multi_via"
       /\ RelayedFields(from.command) \subseteq PduFields
  BY <1>3, RelayedAreArguments DEF h
<1>13. CodecTakes(sent)
  <2>1. Empty.len <= SHORT_MESSAGE_MAX /\ Len(<<>>) <= MaxDests
    BY DEF Empty, SHORT_MESSAGE_MAX, MaxDests
  <2>2. QED
    BY <1>7, <1>9, <1>11, <2>1 DEF CodecTakes, IsBuilt
<1>14. ASSUME NEW f \in RelayedFields(from.command) PROVE seen.fields[f] = from.fields[f]
  <2>1. f \in Arguments[h] /\ f \in PduFields
    BY <1>12
  <2>2. f \in FieldsRead[CommandOf[h]]
    BY <1>12, <2>1, ArgumentsAreRead
  <2>3. sent.fields[f] = from.fields[f] /\ sent.command = CommandOf[h]
    BY <1>6, <1>11, <2>1 DEF IsBuilt
  <2>4. QED
    BY <1>2, <2>1, <2>2, <2>3 DEF IsPdu
<1>15. /\ Body(seen) = Body(from)
       /\ \A t \in RELAYED_TLVS \cap DOMAIN from.tlvs : seen.tlvs[t] = from.tlvs[t]
  <2>1. sent.command = from.command /\ from.command \in {"submit_sm", "data_sm", "deliver_sm"}
    BY <1>3, <1>11, <1>12 DEF IsBuilt, RelayedWith
  <2>2. seen.tlvs = sent.tlvs
    BY <1>2, <2>1 DEF IsPdu
  <2>3. CASE h \in IsDataSm
    <3>1. seen.short_message = Empty /\ seen.tlvs = Fold(args.short_message, args.tlvs)
      BY <1>2, <1>11, <1>12, <2>1, <2>2, <2>3 DEF IsBuilt, IsPdu
    <3>2. PAYLOAD \notin RELAYED_TLVS
      BY DEF PAYLOAD, RELAYED_TLVS
    <3>3. \A t \in RELAYED_TLVS \cap DOMAIN from.tlvs : seen.tlvs[t] = from.tlvs[t]
      BY <1>8, <3>1, <3>2, FoldParts
    <3>4. CASE Body(from).len > SHORT_MESSAGE_MAX
      <4>1. args.short_message.len = 0
        BY <1>8, <3>4 DEF Empty
      <4>2. QED
        BY <1>8, <3>1, <3>3, <3>4, <4>1, FoldParts DEF Body
    <3>5. CASE Body(from).len <= SHORT_MESSAGE_MAX
      <4>1. args.short_message = Body(from) /\ PAYLOAD \notin DOMAIN args.tlvs
        BY <1>8, <3>5
      <4>2. Body(seen) = args.short_message
        BY <1>9, <3>1, <4>1, FoldParts DEF Body
      <4>3. QED
        BY <3>3, <4>1, <4>2
    <3>6. QED
      BY <1>5, <3>4, <3>5 DEF IsContent, SHORT_MESSAGE_MAX
  <2>4. CASE h \notin IsDataSm
    <3>1. seen.short_message = args.short_message /\ seen.tlvs = args.tlvs
      BY <1>2, <1>11, <1>12, <2>1, <2>2, <2>4 DEF IsBuilt, IsPdu
    <3>2. Body(from).len > SHORT_MESSAGE_MAX \/ Body(from).len <= SHORT_MESSAGE_MAX
      BY <1>5 DEF IsContent, SHORT_MESSAGE_MAX
    <3>3. Body(seen) = IF PAYLOAD \in DOMAIN args.tlvs THEN args.tlvs[PAYLOAD] ELSE args.short_message
      BY <3>1 DEF Body
    <3>4. QED
      BY <1>8, <3>1, <3>2, <3>3
  <2>5. QED
    BY <2>3, <2>4
<1>16. QED
  BY <1>1, <1>11, <1>13, <1>14, <1>15 DEF MessageArrives

\* A message arrives as it was sent, whatever the arguments of the helper
\* and whatever PDU the gateway is to relay.
THEOREM MessagesArrive == Spec => []MessageArrives
<1>1. Init => MessageArrives
  BY DEF Init, idle, MessageArrives
<1>2. MessageArrives /\ [Next]_call => MessageArrives'
  <2> SUFFICES ASSUME MessageArrives, [Next]_call PROVE MessageArrives'
    OBVIOUS
  <2>1. ASSUME call'.op \notin {"send", "relay"} PROVE MessageArrives'
    BY <2>1 DEF MessageArrives
  <2>2. ASSUME NEW c \in Calls, Send(c) PROVE MessageArrives'
    BY <2>2, SendArrives
  <2>3. ASSUME NEW pdu \in PeerPdus, RelayMessage(pdu) PROVE MessageArrives'
    BY <2>3, RelayArrives
  <2>4. CASE UNCHANGED call
    BY <2>4 DEF MessageArrives
  <2>5. QED
    BY <2>1, <2>2, <2>3, <2>4, OpOfCall DEF Next
<1>3. QED
  BY <1>1, <1>2, PTL DEF Spec

-----------------------------------------------------------------------------
(* The configuration.                                                       *)

\* The words of a variable's name.  (The provers do not know that a literal
\* is in STRING.)
Words == STRING \cup {"HOST", "SYSTEM", "ID", "PASSWORD", "PORT", "MAX", "MPS",
                     "ENQUIRE", "LINK", "MS", "RESPONSE", "BIND", "TYPE"}

\* What follows SMPP_BIND_, split at its underscores.
IsEnv(vars) ==
  \A key \in DOMAIN vars :
    key \in Seq(Words) /\ key # <<>> /\ \E i \in DOMAIN BindNames : BindNames[i] = key[1]

\* by_name has the fields of a bind under what follows its name.
LEMMA FieldsAreVariables ==
  ASSUME NEW vars, IsEnv(vars), NEW name \in Words, NEW f \in Seq(Words), f # <<>>
  PROVE  /\ f \in DOMAIN FieldsOf(vars, name) <=> <<name>> \o f \in DOMAIN vars
         /\ f \in DOMAIN FieldsOf(vars, name) => FieldsOf(vars, name)[f] = vars[<<name>> \o f]
<1> DEFINE Mine == {k \in DOMAIN vars : Len(k) > 1 /\ Head(k) = name}
           D == {Tail(k) : k \in Mine}
<1>1. FieldsOf(vars, name) = [field \in D |-> vars[<<name>> \o field]]
  BY Zenon DEF FieldsOf
<1>2. ASSUME f \in D PROVE <<name>> \o f \in DOMAIN vars
  <2>1. PICK k \in Mine : Tail(k) = f
    BY <1>2
  <2>2. k = <<name>> \o f
    BY <2>1, HeadThenTail DEF IsEnv
  <2>3. QED
    BY <2>1, <2>2
<1>3. ASSUME <<name>> \o f \in DOMAIN vars PROVE f \in D
  <2>1. <<name>> \o f \in Mine /\ Tail(<<name>> \o f) = f
    BY <1>3, HeadTailOfPair
  <2>2. QED
    BY <2>1, Zenon
<1> HIDE DEF D
<1>4. QED
  BY <1>1, <1>2, <1>3

\* So a field is given, and says, what the variable is and says.
LEMMA GivenFields ==
  ASSUME NEW vars, IsEnv(vars), NEW name \in Words, NEW f \in Seq(Words), f # <<>>
  PROVE  /\ Given(FieldsOf(vars, name), f) <=> Given(vars, <<name>> \o f)
         /\ Given(vars, <<name>> \o f) => FieldsOf(vars, name)[f] = vars[<<name>> \o f]
BY FieldsAreVariables DEF Given

\* The keys of a bind's variables.
LEMMA GivenKeys ==
  ASSUME NEW name \in Words
  PROVE  /\ <<name, "HOST">> = <<name>> \o <<"HOST">>
         /\ <<name, "SYSTEM", "ID">> = <<name>> \o <<"SYSTEM", "ID">>
         /\ <<name, "PASSWORD">> = <<name>> \o <<"PASSWORD">>
         /\ <<name, "PORT">> = <<name>> \o <<"PORT">>
         /\ <<name, "MAX", "MPS">> = <<name>> \o <<"MAX", "MPS">>
         /\ <<name, "BIND", "TYPE">> = <<name>> \o <<"BIND", "TYPE">>
         /\ <<name, "ENQUIRE", "LINK", "MS">> = <<name>> \o <<"ENQUIRE", "LINK", "MS">>
         /\ <<name, "RESPONSE", "MS">> = <<name>> \o <<"RESPONSE", "MS">>
OBVIOUS

\* binds_from_env goes through the binds declared, each once.
LEMMA DiscoveredHosts ==
  ASSUME NEW vars, IsEnv(vars)
  PROVE  /\ Discovered(vars) \in Seq(Words)
         /\ \A i \in 1 .. Len(Discovered(vars)) : Discovered(vars)[i] \in Hosts(vars)
         /\ \A n \in Hosts(vars) : \E i \in 1 .. Len(Discovered(vars)) : Discovered(vars)[i] = n
         /\ Cardinality(Hosts(vars)) = Len(Discovered(vars))
<1> DEFINE S == {name \in STRING : Given(FieldsOf(vars, name), <<"HOST">>)}
           names == Discovered(vars)
<1>1. /\ BindNames \in Seq(STRING) /\ BindNames \in Seq(Words)
      /\ \A i \in 1 .. Len(BindNames) : BindNames[i] \in STRING
      /\ \A n \in STRING : n \in Words
  BY ConfigAssumption, SeqMonotonic DEF Words
<1>2. names \in Seq(Words) /\ FilteredOf(BindNames, Len(BindNames), S, names)
  BY <1>1, FilterType, FilterElements, Zenon DEF Discovered
<1>3. <<"HOST">> \in Seq(Words) /\ <<"HOST">> # <<>>
  <2>1. "HOST" \in Words
    BY DEF Words
  <2>2. QED
    BY <2>1, ShortLists
<1>4. \A n \in Words : Given(FieldsOf(vars, n), <<"HOST">>) <=> Given(vars, <<n, "HOST">>)
  BY <1>3, GivenFields, GivenKeys
<1>5. ASSUME NEW n \in Words, Given(vars, <<n, "HOST">>) PROVE n \in Hosts(vars)
  <2>1. <<n, "HOST">> \in DOMAIN vars /\ <<n, "HOST">>[1] = n
    BY <1>5 DEF Given
  <2>2. QED
    BY <1>5, <2>1, Zenon DEF Hosts
<1>6. ASSUME NEW n \in Hosts(vars)
      PROVE  n \in S /\ \E i \in 1 .. Len(BindNames) : BindNames[i] = n
  <2>1. PICK k \in DOMAIN vars : n = k[1] /\ Given(vars, <<n, "HOST">>)
    BY DEF Hosts
  <2>2. PICK i \in 1 .. Len(BindNames) : BindNames[i] = n
    BY <1>1, <2>1 DEF IsEnv
  <2>3. n \in STRING /\ n \in Words
    BY <1>1, <2>2
  <2>4. QED
    BY <1>4, <2>1, <2>2, <2>3
<1>7. \A n \in S : n \in Hosts(vars)
  BY <1>1, <1>4, <1>5
<1> HIDE DEF names, S
<1>8. \A i \in 1 .. Len(names) : names[i] \in Hosts(vars)
  BY <1>2, <1>7, Zenon DEF FilteredOf
<1>9. ASSUME NEW n \in Hosts(vars) PROVE \E i \in 1 .. Len(names) : names[i] = n
  <2>1. PICK j \in 1 .. Len(BindNames) : BindNames[j] = n /\ n \in S
    BY <1>6
  <2>2. QED
    BY <1>2, <2>1, Zenon DEF FilteredOf
<1>10. Cardinality(Hosts(vars)) = Len(names)
  <2>1. DOMAIN BindNames = 1 .. Len(BindNames) /\ names \in [1 .. Len(names) -> Hosts(vars)]
    BY <1>1, <1>2, <1>8
  <2>2. \A i, j \in 1 .. Len(BindNames) : BindNames[i] = BindNames[j] => i = j
    BY <2>1, ConfigAssumption
  <2>3. \A i, j \in 1 .. Len(names) : names[i] = names[j] => i = j
    BY <1>2, <2>2, Zenon DEF FilteredOf
  <2>4. names \in Bijection(1 .. Len(names), Hosts(vars))
    <3>1. DOMAIN names = 1 .. Len(names)
      BY <2>1
    <3>2. names \in Injection(1 .. Len(names), Hosts(vars))
      BY <2>1, <2>3, <3>1, Zenon DEF Injection, IsInjective
    <3>3. names \in Surjection(1 .. Len(names), Hosts(vars))
      BY <1>9, <2>1, Zenon DEF Surjection
    <3>4. QED
      BY <3>2, <3>3, Zenon DEF Bijection
  <2>5. Len(names) \in Nat
    BY <1>2
  <2>6. QED
    BY <2>4, <2>5, FS_CountingElements, Zenon DEF ExistsBijection
<1>11. QED
  BY <1>2, <1>8, <1>9, <1>10 DEF names

\* `as u16` and `as u32` leave a number that fits alone.
LEMMA CastFits ==
  ASSUME NEW m \in Nat, NEW x \in 0 .. m - 1
  PROVE  x % m = x
OBVIOUS

\* The keys of the fields a bind has.
FieldKeys ==
  {<<"HOST">>, <<"SYSTEM", "ID">>, <<"PASSWORD">>, <<"BIND", "TYPE">>} \cup Numbers

LEMMA FieldKeysAreWords == \A f \in FieldKeys : f \in Seq(Words) /\ f # <<>>
<1>1. /\ <<"HOST">> \in Seq(Words) /\ <<"HOST">> # <<>>
      /\ <<"SYSTEM", "ID">> \in Seq(Words) /\ <<"SYSTEM", "ID">> # <<>>
      /\ <<"PASSWORD">> \in Seq(Words) /\ <<"PASSWORD">> # <<>>
      /\ <<"BIND", "TYPE">> \in Seq(Words) /\ <<"BIND", "TYPE">> # <<>>
      /\ <<"PORT">> \in Seq(Words) /\ <<"PORT">> # <<>>
      /\ <<"MAX", "MPS">> \in Seq(Words) /\ <<"MAX", "MPS">> # <<>>
      /\ <<"RESPONSE", "MS">> \in Seq(Words) /\ <<"RESPONSE", "MS">> # <<>>
  BY ShortLists DEF Words
<1>2. <<"ENQUIRE", "LINK", "MS">> \in Seq(Words) /\ <<"ENQUIRE", "LINK", "MS">> # <<>>
  BY DEF Words
<1>3. QED
  BY <1>1, <1>2, Zenon DEF FieldKeys, Numbers

\* What a bind's field says is what the variable does.
LEMMA FieldSays ==
  ASSUME NEW vars, IsEnv(vars), NEW n \in Words, NEW f \in FieldKeys
  PROVE  LET fields == FieldsOf(vars, n)
             key == <<n>> \o f
         IN  /\ Given(fields, f) <=> Given(vars, key)
             /\ Given(vars, key) => fields[f] = vars[key]
             /\ \A d : ParseU(fields, f, d) = IF Given(vars, key) THEN vars[key].num ELSE d
             /\ \A d : FieldText(fields, f, d) = FieldText(vars, key, d)
<1> DEFINE fields == FieldsOf(vars, n)
           key == <<n>> \o f
<1>1. f \in Seq(Words) /\ f # <<>>
  BY FieldKeysAreWords, Zenon
<1>2. /\ f \in DOMAIN fields <=> key \in DOMAIN vars
      /\ f \in DOMAIN fields => fields[f] = vars[key]
  BY <1>1, FieldsAreVariables, Zenon
<1>3. /\ Given(fields, f) <=> Given(vars, key)
      /\ Given(vars, key) => fields[f] = vars[key]
  BY <1>1, GivenFields, Zenon
<1> HIDE DEF fields, key
<1>4. \A d : ParseU(fields, f, d) = IF Given(vars, key) THEN vars[key].num ELSE d
  BY <1>3, Zenon DEF ParseU
<1>5. \A d : FieldText(fields, f, d) = FieldText(vars, key, d)
  BY <1>2, Zenon DEF FieldText
<1>6. QED
  BY <1>3, <1>4, <1>5, Zenon DEF fields, key

\* What a supervisor takes from its bind.
ClientOf(b, c) ==
  /\ c.name = b.name /\ c.host = b.host /\ c.port = b.port
  /\ c.system_id = b.system_id /\ c.password = b.password
  /\ c.max_msg_per_sec = b.max_msg_per_sec
  /\ c.enquire_link = b.enquire_link /\ c.response = b.response
  /\ c.tls <=> b.tls # <<>>
  /\ b.bind_type \in BindTypes => c.bind_type = b.bind_type

LEMMA ClientParts == ASSUME NEW b PROVE ClientOf(b, Client(b))
<1> DEFINE c == Client(b)
<1>1. /\ c.name = b.name /\ c.host = b.host /\ c.port = b.port
      /\ c.system_id = b.system_id /\ c.password = b.password
      /\ c.max_msg_per_sec = b.max_msg_per_sec
      /\ c.enquire_link = b.enquire_link /\ c.response = b.response
  BY DEF Client
<1>2. c.tls <=> b.tls # <<>>
  BY DEF Client
<1>3. c.bind_type = IF b.bind_type \in {"transmitter", "receiver"} THEN b.bind_type
                    ELSE "transceiver"
  BY DEF Client
<1> HIDE DEF c
<1>4. b.bind_type \in BindTypes => c.bind_type = b.bind_type
  BY <1>3 DEF BindTypes
<1>5. QED
  BY <1>1, <1>2, <1>4, Zenon DEF ClientOf, c

\* The script reads the same of it.
LEMMA ClientKeys ==
  ASSUME NEW b
  PROVE  \A k \in {"name", "host", "port", "system_id", "max_msg_per_sec"} : Client(b)[k] = b[k]
<1> DEFINE c == Client(b)
<1>1. /\ c.name = b.name /\ c.host = b.host /\ c.port = b.port
      /\ c.system_id = b.system_id /\ c.max_msg_per_sec = b.max_msg_per_sec
  BY ClientParts, Zenon DEF ClientOf
<1> HIDE DEF c
<1>2. \A k \in {"name", "host", "port", "system_id", "max_msg_per_sec"} : c[k] = b[k]
  BY <1>1
<1>3. QED
  BY <1>2 DEF c

\* The host an environment declares is one of the names binds can have.
LEMMA HostsAreWords ==
  ASSUME NEW vars, IsEnv(vars), NEW n \in Hosts(vars)
  PROVE  n \in Words
<1>1. PICK k \in DOMAIN vars : n = k[1]
  BY DEF Hosts
<1>2. k \in Seq(Words) /\ k # <<>>
  BY DEF IsEnv
<1>3. QED
  BY <1>1, <1>2

\* binds_from_env fails at a host exactly if something is wrong with it.
LEMMA EnvBindWrong ==
  ASSUME NEW vars, IsEnv(vars), NEW n \in Hosts(vars)
  PROVE  EnvBindFails(FieldsOf(vars, n)) <=> Wrong(vars, n)
<1> DEFINE fields == FieldsOf(vars, n)
<1>1. n \in Words
  BY HostsAreWords, Zenon
<1>2. \A f \in FieldKeys : /\ Given(fields, f) <=> Given(vars, <<n>> \o f)
                           /\ Given(vars, <<n>> \o f) => fields[f] = vars[<<n>> \o f]
  BY <1>1, FieldSays, Zenon
<1> HIDE DEF fields
<1>3. /\ Given(fields, <<"SYSTEM", "ID">>) <=> Given(vars, <<n, "SYSTEM", "ID">>)
      /\ Given(fields, <<"PASSWORD">>) <=> Given(vars, <<n, "PASSWORD">>)
  BY <1>1, <1>2, GivenKeys, Zenon DEF FieldKeys
<1>4. \A f \in Numbers : Given(fields, f) /\ fields[f].num = -1 <=>
                           Given(vars, <<n>> \o f) /\ vars[<<n>> \o f].num = -1
  BY <1>2, Zenon DEF FieldKeys
<1>5. EnvBindFails(fields) <=> Wrong(vars, n)
  BY <1>3, <1>4, Zenon DEF EnvBindFails, Wrong
<1>6. QED
  BY <1>5 DEF fields

\* The defaults are the documented ones.
LEMMA DocumentedDefaults ==
  /\ DefaultPort = DocumentedPort
  /\ default_enquire_link = Documented.enquire_link /\ default_response = Documented.response
  /\ \A t \in DOMAIN Documented : t \in DOMAIN ServerDefaults /\ ServerDefaults[t] = Documented[t]
<1>1. /\ Documented.session_init = default_session_init /\ Documented.inactivity = default_inactivity
      /\ Documented.enquire_link = default_enquire_link /\ Documented.response = default_response
      /\ DOMAIN Documented = {"session_init", "enquire_link", "inactivity", "response"}
  BY DEF Documented, default_session_init, default_inactivity, default_enquire_link, default_response
<1>2. /\ ServerDefaults.session_init = default_session_init
      /\ ServerDefaults.inactivity = default_inactivity
      /\ ServerDefaults.enquire_link = default_enquire_link /\ ServerDefaults.response = default_response
      /\ {"session_init", "enquire_link", "inactivity", "response"} \subseteq DOMAIN ServerDefaults
  BY DEF ServerDefaults
<1>3. \A t \in DOMAIN Documented : t \in DOMAIN ServerDefaults /\ ServerDefaults[t] = Documented[t]
  BY <1>1, <1>2
<1>4. QED
  BY <1>1, <1>3 DEF DefaultPort, DocumentedPort

\* What a bind of the environment is made of.
LEMMA EnvBindParts ==
  ASSUME NEW n, NEW fields
  PROVE  LET b == EnvBind(n, fields)
         IN  /\ b.name = n /\ b.host = fields[<<"HOST">>].text
             /\ b.system_id = fields[<<"SYSTEM", "ID">>].text
             /\ b.password = fields[<<"PASSWORD">>].text
             /\ b.port = ParseU(fields, <<"PORT">>, DefaultPort) % U16
             /\ b.max_msg_per_sec = ParseU(fields, <<"MAX", "MPS">>, 0) % U32
             /\ b.enquire_link = ParseU(fields, <<"ENQUIRE", "LINK", "MS">>, default_enquire_link)
             /\ b.response = ParseU(fields, <<"RESPONSE", "MS">>, default_response)
             /\ b.bind_type = FieldText(fields, <<"BIND", "TYPE">>, "transceiver")
BY DEF EnvBind

\* The client of a host is as the environment declares it.
LEMMA EnvBindRuns ==
  ASSUME NEW vars, IsEnv(vars), NEW n \in Hosts(vars), ~Wrong(vars, n)
  PROVE  AsDeclared(vars, n, Client(EnvBind(n, FieldsOf(vars, n))))
<1> DEFINE fields == FieldsOf(vars, n)
           b == EnvBind(n, fields)
           c == Client(b)
           Declared(key, default) == IF Given(vars, key) THEN vars[key].num ELSE default
           type == FieldText(vars, <<n, "BIND", "TYPE">>, "transceiver")
<1>1. n \in Words
  BY HostsAreWords, Zenon
<1>2. \A f \in FieldKeys :
        /\ Given(vars, <<n>> \o f) => fields[f] = vars[<<n>> \o f]
        /\ \A d : ParseU(fields, f, d) = Declared(<<n>> \o f, d)
        /\ \A d : FieldText(fields, f, d) = FieldText(vars, <<n>> \o f, d)
  BY <1>1, FieldSays, Zenon
<1>3. /\ b.name = n /\ b.host = fields[<<"HOST">>].text
      /\ b.system_id = fields[<<"SYSTEM", "ID">>].text /\ b.password = fields[<<"PASSWORD">>].text
      /\ b.port = ParseU(fields, <<"PORT">>, DefaultPort) % U16
      /\ b.max_msg_per_sec = ParseU(fields, <<"MAX", "MPS">>, 0) % U32
      /\ b.enquire_link = ParseU(fields, <<"ENQUIRE", "LINK", "MS">>, default_enquire_link)
      /\ b.response = ParseU(fields, <<"RESPONSE", "MS">>, default_response)
      /\ b.bind_type = FieldText(fields, <<"BIND", "TYPE">>, "transceiver")
  <2> HIDE DEF fields
  <2> QED BY EnvBindParts
<1>4. ClientOf(b, c)
  BY ClientParts, Zenon
<1>5. DefaultPort \in 0 .. U16 - 1 /\ 0 \in 0 .. U32 - 1 /\ U16 \in Nat /\ U32 \in Nat
  BY ConfigAssumption DEF DefaultPort
<1>6. Given(vars, <<n, "HOST">>) /\ Given(vars, <<n, "SYSTEM", "ID">>) /\ Given(vars, <<n, "PASSWORD">>)
  BY Zenon DEF Hosts, Wrong
<1> HIDE DEF fields, b, c, Declared, type
<1>7. /\ fields[<<"HOST">>] = vars[<<n, "HOST">>]
      /\ fields[<<"SYSTEM", "ID">>] = vars[<<n, "SYSTEM", "ID">>]
      /\ fields[<<"PASSWORD">>] = vars[<<n, "PASSWORD">>]
  BY <1>1, <1>2, <1>6, GivenKeys, Zenon DEF FieldKeys
<1>8. /\ \A d : ParseU(fields, <<"PORT">>, d) = Declared(<<n, "PORT">>, d)
      /\ \A d : ParseU(fields, <<"MAX", "MPS">>, d) = Declared(<<n, "MAX", "MPS">>, d)
      /\ \A d : ParseU(fields, <<"ENQUIRE", "LINK", "MS">>, d) = Declared(<<n, "ENQUIRE", "LINK", "MS">>, d)
      /\ \A d : ParseU(fields, <<"RESPONSE", "MS">>, d) = Declared(<<n, "RESPONSE", "MS">>, d)
      /\ FieldText(fields, <<"BIND", "TYPE">>, "transceiver") = type
  <2>1. \A f \in Numbers : f \in FieldKeys /\ \A d : ParseU(fields, f, d) = Declared(<<n>> \o f, d)
    BY <1>2, Zenon DEF FieldKeys
  <2>2. /\ <<"PORT">> \in Numbers /\ <<"MAX", "MPS">> \in Numbers
        /\ <<"ENQUIRE", "LINK", "MS">> \in Numbers /\ <<"RESPONSE", "MS">> \in Numbers
    BY Zenon DEF Numbers
  <2>3. FieldText(fields, <<"BIND", "TYPE">>, "transceiver") = type
    BY <1>1, <1>2, GivenKeys, Zenon DEF FieldKeys, type
  <2>4. \A d : ParseU(fields, <<"PORT">>, d) = Declared(<<n, "PORT">>, d)
    <3>1. <<n, "PORT">> = <<n>> \o <<"PORT">>
      BY <1>1, GivenKeys, Zenon
    <3>2. \A d : ParseU(fields, <<"PORT">>, d) = Declared(<<n>> \o <<"PORT">>, d)
      BY <2>1, <2>2, Zenon
    <3>3. QED
      BY <3>1, <3>2, Zenon
  <2>5. \A d : ParseU(fields, <<"MAX", "MPS">>, d) = Declared(<<n, "MAX", "MPS">>, d)
    <3>1. <<n, "MAX", "MPS">> = <<n>> \o <<"MAX", "MPS">>
      BY <1>1, GivenKeys, Zenon
    <3>2. \A d : ParseU(fields, <<"MAX", "MPS">>, d) = Declared(<<n>> \o <<"MAX", "MPS">>, d)
      BY <2>1, <2>2, Zenon
    <3>3. QED
      BY <3>1, <3>2, Zenon
  <2>6. \A d : ParseU(fields, <<"ENQUIRE", "LINK", "MS">>, d) = Declared(<<n, "ENQUIRE", "LINK", "MS">>, d)
    <3>1. <<n, "ENQUIRE", "LINK", "MS">> = <<n>> \o <<"ENQUIRE", "LINK", "MS">>
      BY <1>1, GivenKeys, Zenon
    <3>2. \A d : ParseU(fields, <<"ENQUIRE", "LINK", "MS">>, d) = Declared(<<n>> \o <<"ENQUIRE", "LINK", "MS">>, d)
      BY <2>1, <2>2, Zenon
    <3>3. QED
      BY <3>1, <3>2, Zenon
  <2>7. \A d : ParseU(fields, <<"RESPONSE", "MS">>, d) = Declared(<<n, "RESPONSE", "MS">>, d)
    <3>1. <<n, "RESPONSE", "MS">> = <<n>> \o <<"RESPONSE", "MS">>
      BY <1>1, GivenKeys, Zenon
    <3>2. \A d : ParseU(fields, <<"RESPONSE", "MS">>, d) = Declared(<<n>> \o <<"RESPONSE", "MS">>, d)
      BY <2>1, <2>2, Zenon
    <3>3. QED
      BY <3>1, <3>2, Zenon
  <2>8. QED
    BY <2>3, <2>4, <2>5, <2>6, <2>7, Zenon
<1>9. ASSUME Given(vars, <<n, "PORT">>) => vars[<<n, "PORT">>].num \in 0 .. U16 - 1
      PROVE  c.port = Declared(<<n, "PORT">>, DefaultPort)
  <2>1. Declared(<<n, "PORT">>, DefaultPort) \in 0 .. U16 - 1
    BY <1>5, <1>9, Zenon DEF Declared
  <2>2. Declared(<<n, "PORT">>, DefaultPort) % U16 = Declared(<<n, "PORT">>, DefaultPort)
    BY <1>5, <2>1, CastFits, Zenon
  <2>3. QED
    BY <1>3, <1>4, <1>8, <2>2, Zenon DEF ClientOf
<1>10. ASSUME Given(vars, <<n, "MAX", "MPS">>) => vars[<<n, "MAX", "MPS">>].num \in 0 .. U32 - 1
       PROVE  c.max_msg_per_sec = Declared(<<n, "MAX", "MPS">>, 0)
  <2>1. Declared(<<n, "MAX", "MPS">>, 0) \in 0 .. U32 - 1
    BY <1>5, <1>10, Zenon DEF Declared
  <2>2. Declared(<<n, "MAX", "MPS">>, 0) % U32 = Declared(<<n, "MAX", "MPS">>, 0)
    BY <1>5, <2>1, CastFits, Zenon
  <2>3. QED
    BY <1>3, <1>4, <1>8, <2>2, Zenon DEF ClientOf
<1>11. /\ c.name = n /\ c.host = vars[<<n, "HOST">>].text
       /\ c.system_id = vars[<<n, "SYSTEM", "ID">>].text /\ c.password = vars[<<n, "PASSWORD">>].text
       /\ type \in BindTypes => c.bind_type = type
       /\ c.enquire_link = Declared(<<n, "ENQUIRE", "LINK", "MS">>, default_enquire_link)
       /\ c.response = Declared(<<n, "RESPONSE", "MS">>, default_response)
  BY <1>3, <1>4, <1>7, <1>8, Zenon DEF ClientOf
<1>12. AsDeclared(vars, n, c)
  BY <1>9, <1>10, <1>11, DocumentedDefaults, Zenon DEF AsDeclared, Declared, type
<1>13. QED
  BY <1>12 DEF c, b, fields

\* A section of the file has its keys, and the defaults of the others.
LEMMA SectionOf ==
  ASSUME NEW keys, NEW defaults
  PROVE  /\ \A k \in DOMAIN keys : Section(keys, defaults)[k] = keys[k]
         /\ \A k \in DOMAIN defaults : Section(keys, defaults)[k] = Get(keys, k, defaults[k])
         /\ DOMAIN defaults \subseteq DOMAIN Section(keys, defaults)
BY Zenon DEF Section, Get

\* The client of a bind of the file is as its section says.
LEMMA WrittenBind ==
  ASSUME NEW keys, BindKeys \subseteq DOMAIN keys
  PROVE  AsWritten(keys, Client(Section(keys, BindDefaults)))
<1> DEFINE b == Section(keys, BindDefaults)
           c == Client(b)
<1>1. ClientOf(b, c)
  BY ClientParts, Zenon
<1>2. /\ \A k \in BindKeys : b[k] = keys[k]
      /\ \A k \in DOMAIN BindDefaults : b[k] = Get(keys, k, BindDefaults[k])
  BY SectionOf
<1> HIDE DEF b, c
<1>3. \A k \in BindKeys : c[k] = keys[k]
  BY <1>1, <1>2 DEF BindKeys, ClientOf
<1>4. /\ b.tls = Get(keys, "tls", <<>>) /\ b.max_msg_per_sec = Get(keys, "max_msg_per_sec", 0)
      /\ b.bind_type = Get(keys, "bind_type", "transceiver")
      /\ b.enquire_link = Get(keys, "enquire_link", default_enquire_link)
      /\ b.response = Get(keys, "response", default_response)
  BY <1>2 DEF BindDefaults
<1>5. AsWritten(keys, c)
  BY <1>1, <1>3, <1>4, DocumentedDefaults, Zenon DEF AsWritten, ClientOf
<1>6. QED
  BY <1>5 DEF c, b

\* from_file: the binds of the file and then those of the environment, which
\* also has the last word on the limit.
LoadedFrom(yaml, env, cfg) ==
  LET section == IF yaml.server = <<>> THEN <<>> ELSE yaml.server[1]
  IN  /\ cfg.binds = FromYaml(yaml).binds \o BindsFromEnv(env.binds)
      /\ cfg.server.max_msg_per_sec =
           IF env.max_mps \in {<<>>, <<-1>>} THEN Get(section, "max_msg_per_sec", 0) ELSE env.max_mps[1]
      /\ cfg.server.throttle_action =
           IF env.throttle_action \in {<<"pace">>, <<"reject">>} THEN env.throttle_action[1]
           ELSE Get(section, "throttle_action", "pace")
      /\ yaml.server # <<>> =>
           \A t \in DOMAIN Documented : cfg.server[t] = Get(section, t, Documented[t])

\* The file's server part, section or not, has every key.
LEMMA ReadKeys ==
  ASSUME NEW yaml
  PROVE  DOMAIN ServerDefaults \subseteq DOMAIN FromYaml(yaml).server
<1>1. FromYaml(yaml).server = IF yaml.server = <<>> THEN NoServerSection
                              ELSE Section(yaml.server[1], ServerDefaults)
  BY DEF FromYaml
<1>2. DOMAIN NoServerSection = DOMAIN ServerDefaults
  BY DEF NoServerSection
<1>3. DOMAIN ServerDefaults \subseteq DOMAIN Section(yaml.server[1], ServerDefaults)
  BY SectionOf, Zenon
<1>4. QED
  BY <1>1, <1>2, <1>3, Zenon

LEMMA LoadedParts ==
  ASSUME NEW yaml, NEW env
  PROVE  LoadedFrom(yaml, env,
           WithOverrides([FromYaml(yaml) EXCEPT !.binds = @ \o BindsFromEnv(env.binds)], env))
<1> DEFINE read == FromYaml(yaml)
           both == [read EXCEPT !.binds = @ \o BindsFromEnv(env.binds)]
           cfg == WithOverrides(both, env)
           section == IF yaml.server = <<>> THEN <<>> ELSE yaml.server[1]
           mps == "max_msg_per_sec"
           action == "throttle_action"
<1>1. DOMAIN read = {"server", "binds", "default_chain", "bind_address", "port"}
  BY DEF FromYaml
<1>2. /\ mps \in DOMAIN read.server /\ read.server[mps] = Get(section, mps, 0)
      /\ action \in DOMAIN read.server /\ read.server[action] = Get(section, action, "pace")
      /\ yaml.server # <<>> =>
           \A t \in DOMAIN Documented : read.server[t] = Get(section, t, Documented[t])
  <2>1. /\ mps \in DOMAIN ServerDefaults /\ ServerDefaults[mps] = 0
        /\ action \in DOMAIN ServerDefaults /\ ServerDefaults[action] = "pace"
        /\ \A t \in DOMAIN Documented : t \in DOMAIN ServerDefaults /\ ServerDefaults[t] = Documented[t]
    BY DocumentedDefaults DEF ServerDefaults
  <2>2. /\ mps \in DOMAIN NoServerSection /\ NoServerSection[mps] = 0
        /\ action \in DOMAIN NoServerSection /\ NoServerSection[action] = "pace"
    BY DEF NoServerSection, ServerDefaults
  <2>3. read.server = IF yaml.server = <<>> THEN NoServerSection
                      ELSE Section(yaml.server[1], ServerDefaults)
    BY DEF FromYaml
  <2>4. \A k, d : Get(<<>>, k, d) = d
    BY DEF Get
  <2> HIDE DEF read, mps, action
  <2>5. CASE yaml.server = <<>>
    BY <2>2, <2>3, <2>4, <2>5, Zenon
  <2>6. CASE yaml.server # <<>>
    <3>1. section = yaml.server[1] /\ read.server = Section(section, ServerDefaults)
      BY <2>3, <2>6, Zenon
    <3> HIDE DEF section
    <3>2. \A k \in DOMAIN ServerDefaults :
            k \in DOMAIN read.server /\ read.server[k] = Get(section, k, ServerDefaults[k])
      BY <3>1, SectionOf
    <3>3. QED
      BY <2>1, <3>2, Zenon
  <2>7. QED
    BY <2>5, <2>6, Zenon
<1> HIDE DEF read
<1>3. /\ both.binds = read.binds \o BindsFromEnv(env.binds) /\ both.server = read.server
      /\ DOMAIN both = DOMAIN read
  BY <1>1
<1> HIDE DEF both
<1>4. cfg.binds = both.binds
  BY <1>1, <1>3 DEF WithOverrides
<1>5. cfg.server.max_msg_per_sec = IF env.max_mps = <<>> \/ env.max_mps = <<-1>>
                                   THEN both.server.max_msg_per_sec ELSE env.max_mps[1]
  BY <1>1, <1>2, <1>3 DEF WithOverrides
<1>6. cfg.server.throttle_action = IF env.throttle_action \in {<<"pace">>, <<"reject">>}
                                   THEN env.throttle_action[1] ELSE both.server.throttle_action
  BY <1>1, <1>2, <1>3 DEF WithOverrides
<1>7. \A t \in DOMAIN Documented : cfg.server[t] = both.server[t]
  <2>1. "max_msg_per_sec" \notin DOMAIN Documented /\ "throttle_action" \notin DOMAIN Documented
    BY DEF Documented
  <2>2. DOMAIN Documented \subseteq DOMAIN read.server
    BY ReadKeys, DocumentedDefaults, Zenon DEF read
  <2>3. \A t \in DOMAIN read.server \ {"max_msg_per_sec", "throttle_action"} : cfg.server[t] = both.server[t]
    BY <1>1, <1>2, <1>3 DEF WithOverrides
  <2>4. QED
    BY <2>1, <2>2, <2>3, Zenon
<1> HIDE DEF cfg, section
<1>8. LoadedFrom(yaml, env, cfg)
  BY <1>2, <1>3, <1>4, <1>5, <1>6, <1>7, Zenon DEF LoadedFrom, section, read
<1>9. QED
  BY <1>8 DEF cfg, both, read

\* The server's part has all the keys the runtime and the script look at.
LEMMA ServerKeys ==
  ASSUME NEW yaml, NEW env
  PROVE  LET cfg == WithOverrides([FromYaml(yaml) EXCEPT !.binds = @ \o BindsFromEnv(env.binds)], env)
         IN  DOMAIN ServerDefaults \subseteq DOMAIN cfg.server
<1> DEFINE read == FromYaml(yaml)
           both == [read EXCEPT !.binds = @ \o BindsFromEnv(env.binds)]
           cfg == WithOverrides(both, env)
<1>1. DOMAIN read = {"server", "binds", "default_chain", "bind_address", "port"}
  BY DEF FromYaml
<1>2. DOMAIN ServerDefaults \subseteq DOMAIN read.server
  BY ReadKeys, Zenon
<1> HIDE DEF read
<1>3. DOMAIN both = DOMAIN read /\ both.server = read.server
  BY <1>1
<1> HIDE DEF both
<1>4. DOMAIN cfg.server = DOMAIN both.server
  BY <1>1, <1>3 DEF WithOverrides
<1>5. QED
  BY <1>2, <1>3, <1>4, Zenon DEF both, read

\* What runs: a client for every bind of the file, as it says, and then one
\* for every host of the environment, as that declares it.
IsRunning(yaml, vars, running) ==
  /\ DOMAIN running = 1 .. Len(running)
  /\ Len(running) = Len(yaml.binds) + Cardinality(Hosts(vars))
  /\ \A i \in DOMAIN yaml.binds : AsWritten(yaml.binds[i], running[i])
  /\ \A n \in Hosts(vars) : \E i \in DOMAIN running :
       i > Len(yaml.binds) /\ AsDeclared(vars, n, running[i])

\* spawn's supervisors are those.
LEMMA RunningBinds ==
  ASSUME NEW yaml \in Yamls, Deserializes(yaml),
         NEW vars, IsEnv(vars), \A n \in Hosts(vars) : ~Wrong(vars, n),
         NEW binds, binds = FromYaml(yaml).binds \o BindsFromEnv(vars)
  PROVE  IsRunning(yaml, vars, [i \in DOMAIN binds |-> Client(binds[i])])
<1> DEFINE names == Discovered(vars)
           file == FromYaml(yaml).binds
           more == BindsFromEnv(vars)
           S == {file[i] : i \in DOMAIN file} \cup {more[i] : i \in DOMAIN more}
           C == {Client(binds[i]) : i \in DOMAIN binds}
           running == [i \in DOMAIN binds |-> Client(binds[i])]
<1>1. /\ names \in Seq(Words)
      /\ \A i \in 1 .. Len(names) : names[i] \in Hosts(vars)
      /\ \A n \in Hosts(vars) : \E i \in 1 .. Len(names) : names[i] = n
      /\ Cardinality(Hosts(vars)) = Len(names)
  BY DiscoveredHosts
<1>2. /\ yaml.binds \in Seq({yaml.binds[i] : i \in DOMAIN yaml.binds})
      /\ \A i \in DOMAIN yaml.binds : BindKeys \subseteq DOMAIN yaml.binds[i]
  BY InputsAssumption DEF Deserializes
<1>3. Len(yaml.binds) \in Nat /\ DOMAIN yaml.binds = 1 .. Len(yaml.binds)
  BY <1>2, LenProperties
<1>4. file = [i \in 1 .. Len(yaml.binds) |-> Section(yaml.binds[i], BindDefaults)]
  BY <1>3 DEF FromYaml
<1>5. Len(names) \in Nat /\ DOMAIN names = 1 .. Len(names)
  BY <1>1
<1>6. more = [i \in 1 .. Len(names) |-> EnvBind(names[i], FieldsOf(vars, names[i]))]
  BY <1>5 DEF BindsFromEnv
<1>7. /\ file \in [1 .. Len(yaml.binds) -> S] /\ more \in [1 .. Len(names) -> S]
      /\ \A i \in 1 .. Len(yaml.binds) : file[i] = Section(yaml.binds[i], BindDefaults)
      /\ \A i \in 1 .. Len(names) : more[i] = EnvBind(names[i], FieldsOf(vars, names[i]))
  BY <1>4, <1>6, Zenon
<1> HIDE DEF names, file, more, S
<1>8. /\ file \in Seq(S) /\ Len(file) = Len(yaml.binds)
      /\ more \in Seq(S) /\ Len(more) = Len(names)
  BY <1>3, <1>5, <1>7, ListOfFunction
<1>9. OneAfter(file, more, binds)
  BY <1>8, ListAfterList DEF file, more
<1>10. /\ DOMAIN binds = 1 .. Len(binds) /\ Len(binds) = Len(file) + Len(more)
       /\ \A i \in 1 .. Len(file) : i \in 1 .. Len(binds) /\ binds[i] = file[i]
       /\ \A i \in 1 .. Len(more) : i + Len(file) \in 1 .. Len(binds) /\ binds[i + Len(file)] = more[i]
  BY <1>9, Zenon DEF OneAfter
<1>11. /\ DOMAIN running = 1 .. Len(binds) /\ \A i \in 1 .. Len(binds) : running[i] = Client(binds[i])
       /\ Len(running) = Len(binds)
  <2>1. running \in [1 .. Len(binds) -> C]
    BY <1>10, Zenon
  <2>2. Len(binds) \in Nat
    BY <1>3, <1>5, <1>8, <1>10
  <2>3. Len(running) = Len(binds)
    <3> HIDE DEF running, C
    <3> QED BY <2>1, <2>2, ListOfFunction
  <2>4. QED
    BY <1>10, <2>3, Zenon
<1> HIDE DEF running
<1>12. ASSUME NEW i \in DOMAIN yaml.binds PROVE AsWritten(yaml.binds[i], running[i])
  <2>1. i \in 1 .. Len(file) /\ i \in 1 .. Len(yaml.binds)
    BY <1>3, <1>8, Zenon
  <2>2. running[i] = Client(Section(yaml.binds[i], BindDefaults))
    BY <1>7, <1>10, <1>11, <2>1, Zenon
  <2>3. QED
    BY <1>2, <2>2, WrittenBind, Zenon
<1>13. ASSUME NEW n \in Hosts(vars)
       PROVE  \E i \in DOMAIN running : i > Len(yaml.binds) /\ AsDeclared(vars, n, running[i])
  <2>1. PICK i \in 1 .. Len(names) : names[i] = n
    BY <1>1
  <2>2. i \in 1 .. Len(more) /\ i + Len(file) > Len(yaml.binds)
    BY <1>3, <1>5, <1>8
  <2>3. running[i + Len(file)] = Client(EnvBind(n, FieldsOf(vars, n))) /\ i + Len(file) \in DOMAIN running
    <3>1. more[i] = EnvBind(n, FieldsOf(vars, n))
      BY <1>7, <2>1, Zenon
    <3>2. i + Len(file) \in 1 .. Len(binds) /\ binds[i + Len(file)] = more[i]
      BY <1>10, <2>2, Zenon
    <3>3. running[i + Len(file)] = Client(binds[i + Len(file)]) /\ i + Len(file) \in DOMAIN running
      BY <1>11, <3>2, Zenon
    <3>4. QED
      BY <3>1, <3>2, <3>3, Zenon
  <2>4. AsDeclared(vars, n, running[i + Len(file)])
    BY <2>3, EnvBindRuns, Zenon
  <2>5. QED
    BY <2>2, <2>3, <2>4, Zenon
<1>14. DOMAIN running = 1 .. Len(running) /\ Len(running) = Len(yaml.binds) + Cardinality(Hosts(vars))
  BY <1>1, <1>8, <1>10, <1>11, Zenon
<1>15. QED
  BY <1>12, <1>13, <1>14, Zenon DEF IsRunning, running

\* What the runtime and the script have of a configuration.
LEMMA SpawnParts ==
  ASSUME NEW cfg
  PROVE  LET runtime == Spawn(cfg)
             dict == ConfigDict(cfg)
         IN  /\ runtime.supervisors = [i \in DOMAIN cfg.binds |-> Client(cfg.binds[i])]
             /\ runtime.inbound_max_mps = cfg.server.max_msg_per_sec
             /\ runtime.inbound_throttle_action = cfg.server.throttle_action
             /\ \A t \in DOMAIN Documented : runtime.timers[t] = cfg.server[t]
             /\ \A k \in DOMAIN cfg.server \ {"tls"} : dict.server[k] = cfg.server[k]
             /\ \A i \in DOMAIN cfg.binds :
                  \A k \in {"name", "host", "port", "system_id", "max_msg_per_sec"} :
                    dict.binds[i][k] = cfg.binds[i][k]
<1>1. \A t \in DOMAIN Documented : Spawn(cfg).timers[t] = cfg.server[t]
  BY DEF Spawn, Documented
<1>2. \A k \in DOMAIN cfg.server \ {"tls"} : ConfigDict(cfg).server[k] = cfg.server[k]
  BY DEF ConfigDict
<1>3. \A i \in DOMAIN cfg.binds :
        \A k \in {"name", "host", "port", "system_id", "max_msg_per_sec"} :
          ConfigDict(cfg).binds[i][k] = cfg.binds[i][k]
  BY DEF ConfigDict
<1>4. /\ Spawn(cfg).supervisors = [i \in DOMAIN cfg.binds |-> Client(cfg.binds[i])]
      /\ Spawn(cfg).inbound_max_mps = cfg.server.max_msg_per_sec
      /\ Spawn(cfg).inbound_throttle_action = cfg.server.throttle_action
  BY DEF Spawn
<1>5. QED
  BY <1>1, <1>2, <1>3, <1>4

\* From the file and the environment to what runs and what the script reads.
LEMMA LoadRuns ==
  ASSUME NEW yaml \in Yamls, NEW env \in Envs, Load(yaml, env)
  PROVE  RunsAsDeclared'
<1> DEFINE vars == env.binds
           names == Discovered(vars)
           cfg == WithOverrides([FromYaml(yaml) EXCEPT !.binds = @ \o BindsFromEnv(vars)], env)
           Fails == \/ ~Deserializes(yaml)
                    \/ \E i \in DOMAIN names : EnvBindFails(FieldsOf(vars, names[i]))
<1>1. IsEnv(vars)
  <2>1. \A key : key \in Seq(STRING) => key \in Seq(Words)
    BY SeqMonotonic DEF Words
  <2>2. QED
    BY <2>1, InputsAssumption DEF IsEnv
<1>2. call'.op = "load" /\ call'.yaml = yaml /\ call'.env = env
  BY DEF Load
<1>3. Fails <=> ~Deserializes(yaml) \/ \E n \in Hosts(vars) : Wrong(vars, n)
  <2>1. /\ \A i \in 1 .. Len(names) : names[i] \in Hosts(vars)
        /\ \A n \in Hosts(vars) : \E i \in 1 .. Len(names) : names[i] = n
        /\ DOMAIN names = 1 .. Len(names)
    BY <1>1, DiscoveredHosts
  <2>2. \A n \in Hosts(vars) : EnvBindFails(FieldsOf(vars, n)) <=> Wrong(vars, n)
    BY <1>1, EnvBindWrong, Zenon
  <2> HIDE DEF names
  <2>3. QED
    BY <2>1, <2>2, Zenon
<1>4. CASE Fails
  <2>1. call'.ok = FALSE
    BY <1>4, Zenon DEF Load, FromFile
  <2>2. QED
    BY <1>2, <1>3, <1>4, <2>1, Zenon DEF RunsAsDeclared
<1>5. CASE ~Fails
  <2>1. call'.ok = TRUE /\ call'.dict = ConfigDict(cfg) /\ call'.runtime = Spawn(cfg)
    BY <1>5, Zenon DEF Load, FromFile
  <2>2. LoadedFrom(yaml, env, cfg)
    BY LoadedParts, Zenon
  <2> DEFINE running == [i \in DOMAIN cfg.binds |-> Client(cfg.binds[i])]
             sup == call'.runtime.supervisors
  <2>3. /\ sup = running
        /\ call'.runtime.inbound_max_mps = cfg.server.max_msg_per_sec
        /\ call'.runtime.inbound_throttle_action = cfg.server.throttle_action
        /\ \A t \in DOMAIN Documented : call'.runtime.timers[t] = cfg.server[t]
        /\ \A k \in DOMAIN cfg.server \ {"tls"} : call'.dict.server[k] = cfg.server[k]
        /\ \A i \in DOMAIN cfg.binds :
             \A k \in {"name", "host", "port", "system_id", "max_msg_per_sec"} :
               call'.dict.binds[i][k] = cfg.binds[i][k]
    <3> HIDE DEF cfg
    <3> QED BY <2>1, SpawnParts
  <2>4. {"max_msg_per_sec", "throttle_action"} \cup DOMAIN Documented \subseteq DOMAIN cfg.server \ {"tls"}
    <3>1. DOMAIN ServerDefaults \subseteq DOMAIN cfg.server
      BY ServerKeys, Zenon
    <3>2. {"max_msg_per_sec", "throttle_action"} \cup DOMAIN Documented \subseteq DOMAIN ServerDefaults \ {"tls"}
      BY DEF ServerDefaults, Documented
    <3>3. QED
      BY <3>1, <3>2, Zenon
  <2> HIDE DEF cfg
  <2>5. IsRunning(yaml, vars, running)
    BY <1>1, <1>3, <1>5, <2>2, RunningBinds, Zenon DEF LoadedFrom
  <2>6. BindsRun(call')
    BY <1>2, <2>3, <2>5, Zenon DEF BindsRun, IsRunning
  <2>7. LimitsRun(call')
    BY <1>2, <2>2, <2>3, Zenon DEF LimitsRun, LoadedFrom
  <2>8. call'.yaml.server # <<>> => TimersRun(call', call'.yaml.server[1])
    BY <1>2, <2>2, <2>3, Zenon DEF TimersRun, LoadedFrom
  <2>9. ScriptSees(call')
    <3>1. \A i \in DOMAIN cfg.binds :
            \A k \in {"name", "host", "port", "system_id", "max_msg_per_sec"} :
              sup[i][k] = cfg.binds[i][k]
      <4> TAKE i \in DOMAIN cfg.binds
      <4>1. sup[i] = Client(cfg.binds[i])
        BY <2>3, Zenon
      <4> DEFINE b == cfg.binds[i]
      <4>2. \A k \in {"name", "host", "port", "system_id", "max_msg_per_sec"} : Client(b)[k] = b[k]
        <5> HIDE DEF b
        <5> QED BY ClientKeys, Zenon
      <4> HIDE DEF sup
      <4>3. QED
        BY <4>1, <4>2, Zenon
    <3>2. DOMAIN sup = DOMAIN cfg.binds
      BY <2>3, Zenon
    <3>3. \A i \in DOMAIN sup : \A k \in {"name", "host", "port", "system_id", "max_msg_per_sec"} :
            call'.dict.binds[i][k] = sup[i][k]
      <4> TAKE i \in DOMAIN sup
      <4>1. i \in DOMAIN cfg.binds
        BY <3>2, Zenon
      <4>2. \A k \in {"name", "host", "port", "system_id", "max_msg_per_sec"} :
              call'.dict.binds[i][k] = cfg.binds[i][k]
        BY <2>3, <4>1, Zenon
      <4> HIDE DEF sup
      <4>3. QED
        BY <3>1, <4>1, <4>2, Zenon
    <3>4. /\ call'.dict.server.max_msg_per_sec = call'.runtime.inbound_max_mps
          /\ call'.dict.server.throttle_action = call'.runtime.inbound_throttle_action
          /\ \A t \in DOMAIN Documented : call'.dict.server[t] = call'.runtime.timers[t]
      BY <2>3, <2>4, Zenon
    <3>5. QED
      BY <3>3, <3>4, Zenon DEF ScriptSees
  <2>10. QED
    BY <1>2, <1>3, <1>5, <2>1, <2>6, <2>7, <2>8, <2>9, Zenon DEF RunsAsDeclared
<1>6. QED
  BY <1>4, <1>5

\* The load fails exactly if the file does not fit its schema or something is
\* wrong with a host of the environment; otherwise every bind declared in either,
\* the inbound limit and the timers of a `server:` section run as declared, and
\* the script reads what runs.  For every file and every environment.
THEOREM DeclaredIsRun == Spec => []RunsAsDeclared
<1>1. Init => RunsAsDeclared
  BY DEF Init, idle, RunsAsDeclared
<1>2. RunsAsDeclared /\ [Next]_call => RunsAsDeclared'
  <2> SUFFICES ASSUME RunsAsDeclared, [Next]_call PROVE RunsAsDeclared'
    OBVIOUS
  <2>1. ASSUME call'.op # "load" PROVE RunsAsDeclared'
    BY <2>1 DEF RunsAsDeclared
  <2>2. ASSUME NEW yaml \in Yamls, NEW env \in Envs, Load(yaml, env) PROVE RunsAsDeclared'
    BY <2>2, LoadRuns
  <2>3. CASE UNCHANGED call
    BY <2>3 DEF RunsAsDeclared
  <2>4. QED
    BY <2>1, <2>2, <2>3, OpOfCall DEF Next
<1>3. QED
  BY <1>1, <1>2, PTL DEF Spec

-----------------------------------------------------------------------------
(* Reading receipts.                                                        *)

\* The least of some numbers.
LEMMA LeastIsLeast ==
  ASSUME NEW S \in SUBSET Nat, S # {}
  PROVE  Least(S) \in S /\ \A j \in S : Least(S) <= j
<1>1. \E i \in S : \A j \in S : i <= j
  BY LeastNatural
<1>2. QED
  BY <1>1, Zenon DEF Least

\* A number of a set no other is below is the least.
LEMMA LeastUnique ==
  ASSUME NEW S \in SUBSET Nat, NEW i \in S, \A j \in S : i <= j
  PROVE  Least(S) = i
<1>1. Least(S) \in S /\ Least(S) <= i
  BY LeastIsLeast
<1>2. i <= Least(S)
  BY <1>1
<1>3. i \in Nat /\ Least(S) \in Nat
  BY <1>1
<1>4. QED
  BY <1>1, <1>2, <1>3

\* Where a needle occurs, token by token.
LEMMA OccurrencesAre ==
  ASSUME NEW X, NEW s \in Seq(X), NEW n \in Seq(X), Len(n) > 0, NEW i
  PROVE  i \in Occurrences(s, n) <=>
           /\ i \in 1 .. Len(s) /\ i + Len(n) - 1 <= Len(s)
           /\ \A k \in 1 .. Len(n) : s[i + k - 1] = n[k]
<1>1. Len(s) \in Nat /\ Len(n) \in Nat
  OBVIOUS
<1>2. ASSUME i \in 1 .. Len(s) - Len(n) + 1
      PROVE  SubSeq(s, i, i + Len(n) - 1) = n <=> \A k \in 1 .. Len(n) : s[i + k - 1] = n[k]
  <2> DEFINE u == SubSeq(s, i, i + Len(n) - 1)
  <2>1. u \in Seq(X) /\ Len(u) = Len(n) /\ \A k \in 1 .. Len(n) : u[k] = s[i + k - 1]
    BY <1>1, <1>2
  <2> HIDE DEF u
  <2>2. (\A k \in 1 .. Len(n) : u[k] = n[k]) => u = n
    BY <2>1
  <2>3. QED
    BY <2>1, <2>2 DEF u
<1>3. i \in 1 .. Len(s) - Len(n) + 1 <=> i \in 1 .. Len(s) /\ i + Len(n) - 1 <= Len(s)
  BY <1>1
<1>4. QED
  BY <1>2, <1>3, Zenon DEF Occurrences

\* The keys the parser looks for.
LEMMA NeedleNames ==
  DOMAIN Needle = {"submit_date", "done_date", "dlvrd", "stat", "text", "sub", "err", "id"}
BY DEF Needle

\* The tokens of a body.  The provers do not know that a string they are shown is
\* in STRING, hence the ones Receipt writes out.
Tokens ==
  STRING \cup {" ", "submit", "done", "date:", "dlvrd:", "stat:", "text:", "sub:", "err:", "id:",
              "001", "000", "UNKNOWN", "ENROUTE", "DELIVRD", "EXPIRED", "DELETED", "UNDELIV",
              "ACCEPTD", "REJECTD"}

\* The tokens keys are made of.
LEMMA KeyTokens ==
  {" ", "submit", "done", "date:", "dlvrd:", "stat:", "text:", "sub:", "err:", "id:"} \subseteq Tokens
BY Zenon DEF Tokens

\* Texts of one and of three tokens.
LEMMA ShortTexts ==
  ASSUME NEW S, NEW a \in S, NEW b \in S, NEW c \in S
  PROVE  /\ <<a>> \in Seq(S) /\ Len(<<a>>) = 1 /\ <<a>>[1] = a
         /\ <<a, b, c>> \in Seq(S) /\ Len(<<a, b, c>>) = 3
         /\ <<a, b, c>>[1] = a /\ <<a, b, c>>[2] = b /\ <<a, b, c>>[3] = c
OBVIOUS

\* What the keys are made of, key by key.
LEMMA NeedleTable ==
  /\ Needle["submit_date"] = <<"submit", Blank, "date:">> /\ Needle["done_date"] = <<"done", Blank, "date:">>
  /\ Needle["dlvrd"] = <<"dlvrd:">> /\ Needle["stat"] = <<"stat:">> /\ Needle["text"] = <<"text:">>
  /\ Needle["sub"] = <<"sub:">> /\ Needle["err"] = <<"err:">> /\ Needle["id"] = <<"id:">>
BY DEF Needle

\* What the keys are made of.
LEMMA NeedleTokens ==
  ASSUME NEW f \in DOMAIN Needle
  PROVE  /\ Needle[f] \in Seq(Tokens)
         /\ Len(Needle[f]) = IF f \in {"submit_date", "done_date"} THEN 3 ELSE 1
         /\ f \in {"submit_date", "done_date"} =>
              /\ Needle[f][1] = IF f = "submit_date" THEN "submit" ELSE "done"
              /\ Needle[f][2] = Blank /\ Needle[f][3] = "date:"
         /\ f = "dlvrd" => Needle[f][1] = "dlvrd:"
         /\ f = "stat" => Needle[f][1] = "stat:"
         /\ f = "text" => Needle[f][1] = "text:"
         /\ f = "sub" => Needle[f][1] = "sub:"
         /\ f = "err" => Needle[f][1] = "err:"
         /\ f = "id" => Needle[f][1] = "id:"
<1>1. ASSUME NEW a \in Tokens, NEW b \in Tokens, NEW c \in Tokens, Needle[f] = <<a, b, c>>
      PROVE  /\ Needle[f] \in Seq(Tokens) /\ Len(Needle[f]) = 3
             /\ Needle[f][1] = a /\ Needle[f][2] = b /\ Needle[f][3] = c
  <2>1. <<a, b, c>> \in Seq(Tokens) /\ Len(<<a, b, c>>) = 3
    BY ShortTexts, Zenon
  <2>2. <<a, b, c>>[1] = a /\ <<a, b, c>>[2] = b /\ <<a, b, c>>[3] = c
    OBVIOUS
  <2>3. QED
    BY <1>1, <2>1, <2>2
<1>2. ASSUME NEW a \in Tokens, Needle[f] = <<a>>
      PROVE  Needle[f] \in Seq(Tokens) /\ Len(Needle[f]) = 1 /\ Needle[f][1] = a
  BY <1>2, ShortTexts, Zenon
<1>3. CASE f = "submit_date"
  <2>1. Needle[f] = <<"submit", Blank, "date:">>
    BY <1>3, NeedleTable, Zenon
  <2>2. "submit" \in Tokens /\ Blank \in Tokens /\ "date:" \in Tokens
    BY KeyTokens DEF Blank
  <2>3. /\ Needle[f] \in Seq(Tokens) /\ Len(Needle[f]) = 3
        /\ Needle[f][1] = "submit" /\ Needle[f][2] = Blank /\ Needle[f][3] = "date:"
    BY <2>1, <2>2, <1>1
  <2>4. QED
    BY <1>3, <2>3
<1>4. CASE f = "done_date"
  <2>1. Needle[f] = <<"done", Blank, "date:">>
    BY <1>4, NeedleTable, Zenon
  <2>2. "done" \in Tokens /\ Blank \in Tokens /\ "date:" \in Tokens
    BY KeyTokens DEF Blank
  <2>3. /\ Needle[f] \in Seq(Tokens) /\ Len(Needle[f]) = 3
        /\ Needle[f][1] = "done" /\ Needle[f][2] = Blank /\ Needle[f][3] = "date:"
    BY <2>1, <2>2, <1>1
  <2>4. QED
    BY <1>4, <2>3
<1>5. CASE f = "dlvrd"
  <2>1. Needle[f] = <<"dlvrd:">>
    BY <1>5, NeedleTable, Zenon
  <2>2. QED
    BY <1>5, <2>1, <1>2, KeyTokens
<1>6. CASE f = "stat"
  <2>1. Needle[f] = <<"stat:">>
    BY <1>6, NeedleTable, Zenon
  <2>2. QED
    BY <1>6, <2>1, <1>2, KeyTokens
<1>7. CASE f = "text"
  <2>1. Needle[f] = <<"text:">>
    BY <1>7, NeedleTable, Zenon
  <2>2. QED
    BY <1>7, <2>1, <1>2, KeyTokens
<1>8. CASE f = "sub"
  <2>1. Needle[f] = <<"sub:">>
    BY <1>8, NeedleTable, Zenon
  <2>2. QED
    BY <1>8, <2>1, <1>2, KeyTokens
<1>9. CASE f = "err"
  <2>1. Needle[f] = <<"err:">>
    BY <1>9, NeedleTable, Zenon
  <2>2. QED
    BY <1>9, <2>1, <1>2, KeyTokens
<1>10. CASE f = "id"
  <2>1. Needle[f] = <<"id:">>
    BY <1>10, NeedleTable, Zenon
  <2>2. QED
    BY <1>10, <2>1, <1>2, KeyTokens
<1>11. QED
  BY <1>3, <1>4, <1>5, <1>6, <1>7, <1>8, <1>9, <1>10, NeedleNames

\* No key begins inside a key.
LEMMA NeedlesApart ==
  ASSUME NEW f \in DOMAIN Needle, NEW g \in DOMAIN Needle, NEW k \in 1 .. Len(Needle[f]),
         Needle[f][k] = Needle[g][1]
  PROVE  f = g /\ k = 1
<1>1. CASE k = 1
  BY <1>1, NeedleTokens, NeedleNames
<1>2. CASE k # 1
  <2>1. Needle[f][k] \in {" ", "date:"}
    <3>1. Len(Needle[f]) = 3 /\ k \in {2, 3} /\ f \in {"submit_date", "done_date"}
      BY <1>2, NeedleTokens
    <3>2. QED
      BY <3>1, NeedleTokens DEF Blank
  <2>2. Needle[g][1] \notin {" ", "date:"}
    BY NeedleTokens, NeedleNames
  <2>3. QED
    BY <2>1, <2>2
<1>3. QED
  BY <1>1, <1>2

\* What a key ends in, it has nowhere else, and is no blank.
LEMMA NeedleEnds ==
  ASSUME NEW f \in DOMAIN Needle, NEW g \in DOMAIN Needle, NEW k \in 1 .. Len(Needle[g]),
         Needle[f][Len(Needle[f])] = Needle[g][k]
  PROVE  k = Len(Needle[g]) /\ Needle[g][k] # Blank
<1>1. Needle[f][Len(Needle[f])] \in {"date:", "dlvrd:", "stat:", "text:", "sub:", "err:", "id:"}
  <2>1. CASE f \in {"submit_date", "done_date"}
    <3>1. Len(Needle[f]) = 3 /\ Needle[f][3] = "date:"
      BY <2>1, NeedleTokens, Zenon
    <3>2. QED
      BY <3>1
  <2>2. CASE f \notin {"submit_date", "done_date"}
    <3>1. Len(Needle[f]) = 1
      BY <2>2, NeedleTokens, Zenon
    <3>2. f \in {"dlvrd", "stat", "text", "sub", "err", "id"}
      BY <2>2, NeedleNames
    <3>3. Needle[f][1] \in {"date:", "dlvrd:", "stat:", "text:", "sub:", "err:", "id:"}
      BY <3>2, NeedleTokens, Zenon
    <3>4. QED
      BY <3>1, <3>3, Zenon
  <2>3. QED
    BY <2>1, <2>2
<1>2. CASE k = Len(Needle[g])
  BY <1>1, <1>2 DEF Blank
<1>3. CASE k # Len(Needle[g])
  <2>1. Needle[g][k] \in {"submit", "done", " "}
    <3>1. Len(Needle[g]) = 3 /\ k \in {1, 2} /\ g \in {"submit_date", "done_date"}
      <4>1. Len(Needle[g]) = IF g \in {"submit_date", "done_date"} THEN 3 ELSE 1
        BY NeedleTokens
      <4>2. QED
        BY <1>3, <4>1
    <3>2. QED
      BY <3>1, NeedleTokens DEF Blank
  <2>2. QED
    BY <1>1, <2>1
<1>4. QED
  BY <1>2, <1>3

\* Where a key occurs, token by token.
LEMMA KeyAt ==
  ASSUME NEW s \in Seq(Tokens), NEW f \in DOMAIN Needle, NEW i
  PROVE  /\ Len(Needle[f]) \in Nat /\ Len(Needle[f]) > 0
         /\ i \in Occurrences(s, Needle[f]) <=>
              /\ i \in 1 .. Len(s) /\ i + Len(Needle[f]) - 1 <= Len(s)
              /\ \A k \in 1 .. Len(Needle[f]) : s[i + k - 1] = Needle[f][k]
<1>1. Needle[f] \in Seq(Tokens) /\ Len(Needle[f]) \in Nat /\ Len(Needle[f]) > 0
  <2>1. Needle[f] \in Seq(Tokens)
    BY NeedleTokens, Zenon
  <2>2. Len(Needle[f]) \in {1, 3}
    BY NeedleTokens, Zenon
  <2>3. \A n \in {1, 3} : n \in Nat /\ n > 0
    OBVIOUS
  <2>4. QED
    BY <2>1, <2>2, <2>3, Zenon
<1>2. i \in Occurrences(s, Needle[f]) <=>
        /\ i \in 1 .. Len(s) /\ i + Len(Needle[f]) - 1 <= Len(s)
        /\ \A k \in 1 .. Len(Needle[f]) : s[i + k - 1] = Needle[f][k]
  <2> DEFINE n == Needle[f]
  <2>1. n \in Seq(Tokens) /\ Len(n) > 0
    BY <1>1, Zenon
  <2> HIDE DEF n
  <2>2. i \in Occurrences(s, n) <=>
          /\ i \in 1 .. Len(s) /\ i + Len(n) - 1 <= Len(s)
          /\ \A k \in 1 .. Len(n) : s[i + k - 1] = n[k]
    BY <2>1, OccurrencesAre
  <2>3. QED
    BY <2>2, Zenon DEF n
<1>3. QED
  BY <1>1, <1>2, Zenon

\* The parser finds the first of the places a key occurs at.
LEMMA FindFinds ==
  ASSUME NEW s \in Seq(Tokens), NEW f \in DOMAIN Needle, Occurrences(s, Needle[f]) # {}
  PROVE  /\ Find(s, f) \in Occurrences(s, Needle[f])
         /\ \A i \in Occurrences(s, Needle[f]) : Find(s, f) <= i
         /\ Find(s, f) \in 1 .. Len(s) /\ Find(s, f) + Len(Needle[f]) - 1 <= Len(s)
<1>1. Occurrences(s, Needle[f]) \in SUBSET Nat
  BY KeyAt
<1>2. /\ Find(s, f) \in Occurrences(s, Needle[f])
      /\ \A i \in Occurrences(s, Needle[f]) : Find(s, f) <= i
  BY <1>1, LeastIsLeast, Zenon DEF Find
<1>3. QED
  BY <1>2, KeyAt

\* Keys do not overlap.
LEMMA KeysApart ==
  ASSUME NEW s \in Seq(Tokens), NEW f \in DOMAIN Needle, NEW g \in DOMAIN Needle,
         NEW i \in Occurrences(s, Needle[f]), NEW j \in Occurrences(s, Needle[g]),
         i <= j, j <= i + Len(Needle[f]) - 1
  PROVE  f = g /\ i = j
<1> DEFINE k == j - i + 1
<1>1. i \in Nat /\ j \in Nat /\ Len(Needle[f]) \in Nat /\ Len(Needle[g]) \in Nat /\ Len(Needle[g]) > 0
  BY KeyAt
<1>2. k \in 1 .. Len(Needle[f]) /\ i + k - 1 = j
  BY <1>1
<1>3. s[j] = Needle[f][k]
  <2>1. \A m \in 1 .. Len(Needle[f]) : s[i + m - 1] = Needle[f][m]
    BY KeyAt
  <2> HIDE DEF k
  <2>2. s[i + k - 1] = Needle[f][k]
    BY <1>2, <2>1
  <2>3. QED
    BY <1>2, <2>2
<1>4. s[j] = Needle[g][1]
  <2>1. \A m \in 1 .. Len(Needle[g]) : s[j + m - 1] = Needle[g][m]
    BY KeyAt
  <2>2. 1 \in 1 .. Len(Needle[g]) /\ j + 1 - 1 = j
    BY <1>1
  <2>3. QED
    BY <2>1, <2>2
<1>5. f = g /\ k = 1
  <2> HIDE DEF k
  <2> QED BY <1>2, <1>3, <1>4, NeedlesApart, Zenon
<1>6. QED
  BY <1>1, <1>5

-----------------------------------------------------------------------------

\* The keys that occur in a text.
Keys(s) == {f \in DOMAIN Needle : Occurrences(s, Needle[f]) # {}}

HitOf(body, f) == [pos |-> Find(body, f), len |-> Len(Needle[f]), field |-> f]

\* The first n of KEYS have been looked for, and q is what was found.
FoundOf(body, n, q) ==
  /\ q \in Seq({HitOf(body, f) : f \in Keys(body)})
  /\ \A i \in 1 .. Len(q) : \E k \in 1 .. n : q[i].field = KEYS[k]
  /\ \A k \in 1 .. n : KEYS[k] \in Keys(body) => \E i \in 1 .. Len(q) : q[i].field = KEYS[k]
  /\ \A i, j \in 1 .. Len(q) : q[i].field = q[j].field => i = j

\* KEYS names every key once.
LEMMA KeysNamed ==
  /\ Len(KEYS) = 8
  /\ \A k \in 1 .. 8 : KEYS[k] \in DOMAIN Needle
  /\ \A k, m \in 1 .. 8 : KEYS[k] = KEYS[m] => k = m
  /\ \A f \in DOMAIN Needle : \E k \in 1 .. 8 : KEYS[k] = f
<1>1. KEYS[1] = "submit_date" /\ KEYS[2] = "done_date" /\ KEYS[3] = "dlvrd" /\ KEYS[4] = "stat"
  BY DEF KEYS
<1>2. KEYS[5] = "text" /\ KEYS[6] = "sub" /\ KEYS[7] = "err" /\ KEYS[8] = "id"
  BY DEF KEYS
<1>3. Len(KEYS) = 8
  BY DEF KEYS
<1>4. \A k \in 1 .. 8 : k \in {1, 2, 3, 4, 5, 6, 7, 8}
  OBVIOUS
<1>5. \A k \in 1 .. 8 : KEYS[k] \in DOMAIN Needle
  BY <1>1, <1>2, <1>4, NeedleNames
<1>6. \A k, m \in 1 .. 8 : KEYS[k] = KEYS[m] => k = m
  BY <1>1, <1>2, <1>4
<1>7. \A f \in DOMAIN Needle : \E k \in 1 .. 8 : KEYS[k] = f
  BY <1>1, <1>2, NeedleNames
<1>8. QED
  BY <1>3, <1>5, <1>6, <1>7

\* A turn of the loop over KEYS.  The places the keys before it claimed are not
\* in its way: keys do not overlap.
LEMMA FoundTurn ==
  ASSUME NEW body \in Seq(Tokens), NEW n \in 1 .. 8, NEW q, FoundOf(body, n - 1, q)
  PROVE  FoundOf(body, n, AddHit(body, q, KEYS[n]))
<1> DEFINE f == KEYS[n]
           H == {HitOf(body, g) : g \in Keys(body)}
           r == Append(q, HitOf(body, f))
<1>1. f \in DOMAIN Needle /\ \A k \in 1 .. n - 1 : KEYS[k] # f
  BY KeysNamed
<1>2. q \in Seq(H) /\ Len(q) \in Nat
  BY DEF FoundOf
<1>3. \A i \in 1 .. Len(q) : q[i].field # f
  BY <1>1 DEF FoundOf
<1>4. CASE f \notin Keys(body)
  <2>1. AddHit(body, q, f) = q
    BY <1>1, <1>4 DEF AddHit, Keys
  <2>2. \A k \in 1 .. n : k \in 1 .. n - 1 \/ KEYS[k] = f
    OBVIOUS
  <2>3. FoundOf(body, n, q)
    BY <1>4, <2>2 DEF FoundOf
  <2>4. QED
    BY <2>1, <2>3
<1>5. CASE f \in Keys(body)
  <2>1. \A i \in DOMAIN q : ~(Find(body, f) \in q[i].pos .. q[i].pos + q[i].len - 1)
    <3> SUFFICES ASSUME NEW i \in 1 .. Len(q), Find(body, f) \in q[i].pos .. q[i].pos + q[i].len - 1
                 PROVE  FALSE
      BY <1>2
    <3>1. PICK g \in Keys(body) : q[i] = HitOf(body, g)
      <4>1. q[i] \in H
        BY <1>2
      <4>2. QED
        BY <4>1
    <3>2. q[i].field = g /\ q[i].pos = Find(body, g) /\ q[i].len = Len(Needle[g])
      BY <3>1 DEF HitOf
    <3>3. g \in DOMAIN Needle /\ Find(body, g) \in Occurrences(body, Needle[g])
      BY FindFinds DEF Keys
    <3>4. Find(body, f) \in Occurrences(body, Needle[f])
      BY <1>1, <1>5, FindFinds DEF Keys
    <3>5. Find(body, g) \in Nat /\ Find(body, f) \in Nat /\ Len(Needle[g]) \in Nat
      BY <1>1, <3>3, <3>4, KeyAt
    <3>6. Find(body, g) <= Find(body, f) /\ Find(body, f) <= Find(body, g) + Len(Needle[g]) - 1
      BY <3>2, <3>5
    <3>7. g = f
      BY <1>1, <3>3, <3>4, <3>6, KeysApart
    <3>8. QED
      BY <1>3, <3>2, <3>7
  <2>2. AddHit(body, q, f) = r
    <3>1. Occurrences(body, Needle[f]) # {}
      BY <1>5 DEF Keys
    <3>2. QED
      BY <2>1, <3>1, Zenon DEF AddHit, HitOf
  <2>3. HitOf(body, f) \in H /\ HitOf(body, f).field = f
    BY <1>5 DEF HitOf
  <2>4. r \in Seq(H) /\ Len(r) = Len(q) + 1 /\ r[Len(q) + 1] = HitOf(body, f)
        /\ \A i \in 1 .. Len(q) : r[i] = q[i]
    <3> HIDE DEF H
    <3> QED BY <1>2, <2>3
  <2> HIDE DEF r, H
  <2>5. \A i \in 1 .. Len(r) : i \in 1 .. Len(q) \/ i = Len(q) + 1
    BY <1>2, <2>4
  <2>6. \A i \in 1 .. Len(r) : \E k \in 1 .. n : r[i].field = KEYS[k]
    <3>1. ASSUME NEW i \in 1 .. Len(q)
          PROVE  \E k \in 1 .. n : r[i].field = KEYS[k]
      <4>1. PICK k \in 1 .. n - 1 : q[i].field = KEYS[k]
        BY DEF FoundOf
      <4>2. k \in 1 .. n /\ r[i].field = KEYS[k]
        BY <2>4, <4>1
      <4>3. QED
        BY <4>2
    <3>2. n \in 1 .. n /\ r[Len(q) + 1].field = KEYS[n]
      BY <2>3, <2>4
    <3>3. QED
      BY <2>5, <3>1, <3>2
  <2>7. ASSUME NEW k \in 1 .. n, KEYS[k] \in Keys(body)
        PROVE  \E i \in 1 .. Len(r) : r[i].field = KEYS[k]
    <3>1. CASE k = n
      BY <1>2, <3>1, <2>3, <2>4
    <3>2. CASE k # n
      <4>1. PICK i \in 1 .. Len(q) : q[i].field = KEYS[k]
        BY <3>2, <2>7 DEF FoundOf
      <4>2. i \in 1 .. Len(r) /\ r[i].field = KEYS[k]
        BY <1>2, <4>1, <2>4
      <4>3. QED
        BY <4>2
    <3>3. QED
      BY <3>1, <3>2
  <2>8. ASSUME NEW i \in 1 .. Len(r), NEW j \in 1 .. Len(r), r[i].field = r[j].field
        PROVE  i = j
    <3>1. \A k \in 1 .. Len(q) : r[k].field # f /\ r[k] = q[k]
      BY <1>3, <2>4, Zenon
    <3>2. r[Len(q) + 1].field = f
      BY <2>3, <2>4, Zenon
    <3>3. CASE i \in 1 .. Len(q) /\ j \in 1 .. Len(q)
      BY <2>8, <3>1, <3>3, Zenon DEF FoundOf
    <3>4. QED
      BY <2>5, <2>8, <3>1, <3>2, <3>3, Zenon
  <2>9. QED
    BY <2>2, <2>4, <2>6, <2>7, <2>8 DEF FoundOf, H
<1>6. QED
  BY <1>4, <1>5

\* The loop finds every key that occurs, once and at its first place.
LEMMA FoundAll ==
  ASSUME NEW body \in Seq(Tokens)
  PROVE  FoundOf(body, 8, Found(body))
<1> DEFINE Q == Seq({HitOf(body, f) : f \in DOMAIN Needle})
           Loop(g) == [n \in 0 .. Len(KEYS) |-> IF n = 0 THEN <<>> ELSE AddHit(body, g[n - 1], KEYS[n])]
           M == CHOOSE g : g = Loop(g)
           step == [n \in 1 .. 8 |-> [q \in Q |-> AddHit(body, q, KEYS[n])]]
<1>1. ASSUME NEW n \in 1 .. 8, NEW q \in Q
      PROVE  AddHit(body, q, KEYS[n]) \in Q
  <2> DEFINE H == {HitOf(body, f) : f \in DOMAIN Needle}
  <2>1. HitOf(body, KEYS[n]) \in H
    BY KeysNamed
  <2>2. AddHit(body, q, KEYS[n]) = q \/ AddHit(body, q, KEYS[n]) = Append(q, HitOf(body, KEYS[n]))
    BY Zenon DEF AddHit, HitOf
  <2> HIDE DEF H
  <2>3. Append(q, HitOf(body, KEYS[n])) \in Seq(H)
    BY <2>1 DEF H
  <2>4. QED
    BY <2>2, <2>3, Zenon DEF H
<1>2. step \in [1 .. 8 -> [Q -> Q]] /\ <<>> \in Q
  <2> HIDE DEF Q
  <2>1. step \in [1 .. 8 -> [Q -> Q]]
    BY <1>1, Zenon
  <2>2. <<>> \in Q
    BY DEF Q
  <2>3. QED
    BY <2>1, <2>2
<1>3. PICK g : g \in [0 .. 8 -> Q] /\ g[0] = <<>> /\ \A n \in 1 .. 8 : g[n] = step[n][g[n - 1]]
  <2> HIDE DEF step, Q
  <2>1. PICK g : g \in Runs(8, Q, <<>>, step)
    BY <1>2, RecursionExists
  <2>2. QED
    BY <2>1, Zenon DEF Runs
<1>4. ASSUME NEW n \in 1 .. 8
      PROVE  n \in 0 .. 8 /\ n # 0 /\ n - 1 \in 0 .. 8
  OBVIOUS
<1>5. ASSUME NEW n \in 0 .. 8, n # 0
      PROVE  n \in 1 .. 8
  BY <1>5
<1>6. g = Loop(g)
  <2> HIDE DEF Q
  <2>1. ASSUME NEW n \in 0 .. 8
        PROVE  g[n] = IF n = 0 THEN <<>> ELSE AddHit(body, g[n - 1], KEYS[n])
    <3>1. CASE n = 0
      BY <3>1, <1>3, Zenon
    <3>2. CASE n # 0
      <4>1. n \in 1 .. 8 /\ g[n - 1] \in Q
        BY <3>2, <1>3, <1>4, <1>5, Zenon
      <4>2. QED
        BY <3>2, <4>1, <1>3, Zenon
    <3>3. QED
      BY <3>1, <3>2
  <2>2. QED
    BY <2>1, <1>3, KeysNamed, Zenon
<1>7. M = Loop(M)
  <2> HIDE DEF Loop
  <2> QED BY <1>6, Zenon
<1>8. Found(body) = M[8]
  BY KeysNamed, Zenon DEF Found
<1> HIDE DEF M
<1>9. M[0] = <<>> /\ \A n \in 1 .. 8 : M[n] = AddHit(body, M[n - 1], KEYS[n])
  <2>1. 0 \in 0 .. 8
    OBVIOUS
  <2>2. QED
    BY <1>4, <1>7, <2>1, KeysNamed, Zenon
<1> DEFINE T == {n \in 0 .. 8 : FoundOf(body, n, M[n])}
<1>10. 0 \in T
  <2>1. FoundOf(body, 0, <<>>)
    BY DEF FoundOf
  <2>2. 0 \in 0 .. 8
    OBVIOUS
  <2>3. QED
    BY <1>9, <2>1, <2>2, Zenon
<1>11. \A n \in 1 .. 8 : n - 1 \in T => n \in T
  BY <1>4, <1>9, FoundTurn, Zenon
<1>12. \A n \in 0 .. 8 : n \in T
  <2> HIDE DEF T
  <2> QED BY <1>10, <1>11, BoundedInduction
<1>13. 8 \in 0 .. 8
  OBVIOUS
<1>14. QED
  BY <1>8, <1>12, <1>13, Zenon

\* The places of hits: a list of places, none twice.
Places(q) ==
  /\ q \in Seq({q[i] : i \in DOMAIN q})
  /\ \A i \in DOMAIN q : q[i].pos \in Nat
  /\ \A i, j \in DOMAIN q : q[i].pos = q[j].pos => i = j

\* sort_by_key: the same hits, by their places.
LEMMA SortedSorts ==
  ASSUME NEW q, Places(q)
  PROVE  /\ DOMAIN Sorted(q) = 1 .. Len(q) /\ Len(Sorted(q)) = Len(q) /\ Len(q) \in Nat
         /\ Sorted(q) = [n \in 1 .. Len(q) |-> Sorted(q)[n]]
         /\ \A n \in 1 .. Len(q) : \E i \in 1 .. Len(q) : Sorted(q)[n] = q[i]
         /\ \A i \in 1 .. Len(q) : \E n \in 1 .. Len(q) : Sorted(q)[n] = q[i]
         /\ \A m, n \in 1 .. Len(q) : m < n => Sorted(q)[m].pos < Sorted(q)[n].pos
<1> DEFINE N == Len(q)
           D == DOMAIN q
           Below(i) == {j \in D : q[j].pos <= q[i].pos}
           Rank(i) == Cardinality(Below(i))
           rank == [i \in D |-> Rank(i)]
           at(n) == CHOOSE i \in D : Rank(i) = n
<1>1. N \in Nat /\ D = 1 .. N
  <2> DEFINE X == {q[i] : i \in DOMAIN q}
  <2>1. q \in Seq(X)
    BY Zenon DEF Places
  <2> HIDE DEF X
  <2>2. QED
    BY <2>1
<1>2. \A i \in D : q[i].pos \in Nat
  BY <1>1, Zenon DEF Places
<1>3. \A i, j \in D : q[i].pos = q[j].pos => i = j
  BY <1>1, Zenon DEF Places
<1> HIDE DEF N, D
<1>4. IsFiniteSet(D) /\ Cardinality(D) = N
  BY <1>1, FS_Interval
<1>5. ASSUME NEW i \in D
      PROVE  IsFiniteSet(Below(i)) /\ Rank(i) \in D
  <2>1. Below(i) \in SUBSET D /\ i \in Below(i)
    BY <1>2
  <2> HIDE DEF Below
  <2>2. IsFiniteSet(Below(i)) /\ Cardinality(Below(i)) <= N
    BY <1>4, <2>1, FS_Subset
  <2>3. Cardinality(Below(i)) \in Nat /\ Cardinality(Below(i)) # 0
    BY <2>1, <2>2, FS_CardinalityType, FS_EmptySet
  <2>4. QED
    BY <1>1, <2>2, <2>3
<1>6. ASSUME NEW i \in D, NEW j \in D, q[i].pos < q[j].pos
      PROVE  Rank(i) < Rank(j)
  <2>1. Below(i) \in SUBSET Below(j) /\ j \in Below(j) /\ j \notin Below(i)
    BY <1>2, <1>6
  <2> HIDE DEF Below
  <2>2. IsFiniteSet(Below(j)) /\ Rank(i) \in D /\ Rank(j) \in D
    BY <1>5
  <2>3. Cardinality(Below(i)) <= Cardinality(Below(j)) /\ Cardinality(Below(i)) # Cardinality(Below(j))
    BY <2>1, <2>2, FS_Subset
  <2>4. QED
    BY <1>1, <2>2, <2>3
<1> HIDE DEF Rank, Below
<1>7. \A i, j \in D : Rank(i) = Rank(j) => i = j
  <2> SUFFICES ASSUME NEW i \in D, NEW j \in D, Rank(i) = Rank(j) PROVE i = j
    OBVIOUS
  <2>1. Rank(i) \in Nat
    <3>1. Rank(i) \in D
      BY <1>5, Zenon
    <3>2. QED
      BY <1>1, <3>1
  <2>2. ~(q[i].pos < q[j].pos) /\ ~(q[j].pos < q[i].pos)
    BY <1>6, <2>1
  <2>3. q[i].pos = q[j].pos
    BY <1>2, <2>2
  <2>4. QED
    BY <1>3, <2>3
<1>8. ASSUME NEW n \in D
      PROVE  \E i \in D : Rank(i) = n
  <2>1. rank \in [D -> D] /\ \A i \in D : rank[i] = Rank(i)
    BY <1>5
  <2> HIDE DEF rank
  <2>2. rank \in Injection(D, D)
    BY <1>7, <2>1, Zenon DEF Injection, IsInjective
  <2>3. rank \in Surjection(D, D)
    BY <1>4, <2>2, FS_Injection
  <2>4. QED
    BY <2>1, <2>3, Zenon DEF Surjection
<1>9. ASSUME NEW n \in D
      PROVE  at(n) \in D /\ Rank(at(n)) = n
  BY <1>8, Zenon
<1>10. Sorted(q) = [n \in D |-> q[at(n)]] /\ DOMAIN Sorted(q) = D /\ \A n \in D : Sorted(q)[n] = q[at(n)]
  <2>1. Sorted(q) = [n \in D |-> q[at(n)]]
    BY Zenon DEF Sorted, Rank, Below, D
  <2>2. QED
    BY <2>1, Zenon
<1>11. ASSUME NEW i \in D
       PROVE  Sorted(q)[Rank(i)] = q[i]
  <2>1. at(Rank(i)) = i
    BY <1>5, <1>7, <1>9, Zenon
  <2>2. QED
    BY <1>5, <1>10, <2>1, Zenon
<1> HIDE DEF at
<1>12. ASSUME NEW m \in D, NEW n \in D, m < n
       PROVE  Sorted(q)[m].pos < Sorted(q)[n].pos
  <2>1. ~(q[at(n)].pos < q[at(m)].pos)
    <3>1. at(m) \in D /\ Rank(at(m)) = m /\ at(n) \in D /\ Rank(at(n)) = n
      BY <1>9, Zenon
    <3>2. q[at(n)].pos < q[at(m)].pos => n < m
      BY <1>6, <3>1, Zenon
    <3>3. QED
      BY <1>1, <1>12, <3>2
  <2>2. q[at(n)].pos # q[at(m)].pos
    <3>1. at(m) \in D /\ Rank(at(m)) = m /\ at(n) \in D /\ Rank(at(n)) = n
      BY <1>9, Zenon
    <3>2. m # n
      BY <1>1, <1>12
    <3>3. QED
      BY <1>3, <3>1, <3>2, Zenon
  <2>3. q[at(m)].pos < q[at(n)].pos
    BY <1>2, <1>9, <2>1, <2>2
  <2>4. QED
    BY <1>10, <2>3
<1>13. Len(Sorted(q)) = N
  <2> DEFINE s == [n \in D |-> q[at(n)]]
  <2>1. s \in [D -> {q[i] : i \in D}]
    BY <1>9, Zenon
  <2>2. Sorted(q) = s
    BY <1>10, Zenon
  <2>3. QED
    BY <1>1, <2>1, <2>2, ListOfFunction, Zenon
<1>14. Sorted(q) = [n \in D |-> Sorted(q)[n]]
  BY <1>10, Zenon
<1>15. QED
  BY <1>1, <1>5, <1>9, <1>10, <1>11, <1>12, <1>13, <1>14, Zenon DEF N

\* h lists the keys that occur in the body, in the order of their first places.
HitList(body, h) ==
  /\ DOMAIN h = 1 .. Len(h) /\ Len(h) \in Nat /\ h = [n \in 1 .. Len(h) |-> h[n]]
  /\ \A n \in 1 .. Len(h) : \E f \in Keys(body) : h[n] = HitOf(body, f)
  /\ \A f \in Keys(body) : \E n \in 1 .. Len(h) : h[n] = HitOf(body, f)
  /\ \A m, n \in 1 .. Len(h) : m < n => h[m].pos < h[n].pos

\* The place and the length of a hit.
LEMMA HitParts ==
  ASSUME NEW body \in Seq(Tokens), NEW f \in Keys(body)
  PROVE  /\ HitOf(body, f).pos = Find(body, f) /\ HitOf(body, f).len = Len(Needle[f])
         /\ HitOf(body, f).field = f
         /\ f \in DOMAIN Needle /\ Find(body, f) \in Occurrences(body, Needle[f])
         /\ Find(body, f) \in 1 .. Len(body) /\ Len(Needle[f]) \in Nat /\ Len(body) \in Nat
<1>1. f \in DOMAIN Needle /\ Occurrences(body, Needle[f]) # {}
  BY DEF Keys
<1>2. QED
  BY <1>1, FindFinds, KeyAt DEF HitOf

\* Two keys are not first found at the same place.
LEMMA FindApart ==
  ASSUME NEW body \in Seq(Tokens), NEW f \in Keys(body), NEW g \in Keys(body),
         Find(body, f) = Find(body, g)
  PROVE  f = g
<1>1. /\ f \in DOMAIN Needle /\ Find(body, f) \in Occurrences(body, Needle[f])
      /\ g \in DOMAIN Needle /\ Find(body, g) \in Occurrences(body, Needle[g])
      /\ Find(body, f) \in Nat
  BY HitParts
<1>2. Len(Needle[f]) \in Nat /\ Len(Needle[f]) > 0
  BY <1>1, KeyAt
<1>3. QED
  BY <1>1, <1>2, KeysApart

\* What parse has found when the hits are sorted.
LEMMA HitsAre ==
  ASSUME NEW body \in Seq(Tokens)
  PROVE  HitList(body, Hits(body))
<1> DEFINE q == Found(body)
           H == {HitOf(body, f) : f \in Keys(body)}
<1>1. q \in Seq(H) /\ \A i, j \in 1 .. Len(q) : q[i].field = q[j].field => i = j
  BY FoundAll DEF FoundOf
<1>2. \A f \in Keys(body) : \E i \in 1 .. Len(q) : q[i].field = f
  <2>1. \A f \in Keys(body) : \E k \in 1 .. 8 : KEYS[k] = f
    BY KeysNamed DEF Keys
  <2>2. \A k \in 1 .. 8 : KEYS[k] \in Keys(body) => \E i \in 1 .. Len(q) : q[i].field = KEYS[k]
    BY FoundAll, Zenon DEF FoundOf
  <2>3. QED
    BY <2>1, <2>2, Zenon
<1> HIDE DEF q
<1>3. DOMAIN q = 1 .. Len(q) /\ Len(q) \in Nat /\ \A i \in 1 .. Len(q) : q[i] \in H
  <2> HIDE DEF H
  <2> QED BY <1>1
<1>4. \A i \in 1 .. Len(q) : \E f \in Keys(body) : q[i] = HitOf(body, f)
  BY <1>3, Zenon
<1>5. ASSUME NEW i \in 1 .. Len(q), NEW j \in 1 .. Len(q), q[i].pos = q[j].pos
      PROVE  i = j
  <2>1. PICK f \in Keys(body) : q[i] = HitOf(body, f)
    BY <1>4
  <2>2. PICK g \in Keys(body) : q[j] = HitOf(body, g)
    BY <1>4
  <2>3. f = g
    <3>1. q[i].pos = Find(body, f) /\ q[j].pos = Find(body, g)
      BY <2>1, <2>2, HitParts, Zenon
    <3>2. QED
      BY <1>5, <3>1, FindApart
  <2>4. QED
    BY <1>1, <2>1, <2>2, <2>3
<1>6. \A i \in 1 .. Len(q) : q[i].pos \in Nat
  BY <1>4, HitParts
<1>7. Places(q)
  <2> DEFINE X == {q[i] : i \in DOMAIN q}
  <2>1. q \in Seq(X)
    <3>1. \A i \in 1 .. Len(q) : q[i] \in X
      BY <1>3
    <3>2. q = [i \in 1 .. Len(q) |-> q[i]]
      BY <1>1
    <3> HIDE DEF X
    <3>3. QED
      BY <1>3, <3>1, <3>2
  <2>2. QED
    BY <1>3, <1>5, <1>6, <2>1, Zenon DEF Places
<1>8. Hits(body) = Sorted(q)
  BY Zenon DEF Hits, q
<1>9. QED
  <2> DEFINE h == Sorted(q)
  <2>1. /\ DOMAIN h = 1 .. Len(q) /\ Len(h) = Len(q) /\ Len(q) \in Nat
        /\ h = [n \in 1 .. Len(q) |-> h[n]]
        /\ \A n \in 1 .. Len(q) : \E i \in 1 .. Len(q) : h[n] = q[i]
        /\ \A i \in 1 .. Len(q) : \E n \in 1 .. Len(q) : h[n] = q[i]
        /\ \A m, n \in 1 .. Len(q) : m < n => h[m].pos < h[n].pos
    BY <1>7, SortedSorts, Zenon
  <2> HIDE DEF h
  <2>2. ASSUME NEW f \in Keys(body)
        PROVE  \E n \in 1 .. Len(q) : h[n] = HitOf(body, f)
    <3>1. PICK i \in 1 .. Len(q) : q[i].field = f
      BY <1>2
    <3>2. q[i] = HitOf(body, f)
      BY <1>4, <3>1, HitParts, Zenon
    <3>3. QED
      BY <2>1, <3>2, Zenon
  <2>3. ASSUME NEW n \in 1 .. Len(q)
        PROVE  \E f \in Keys(body) : h[n] = HitOf(body, f)
    <3>1. PICK i \in 1 .. Len(q) : h[n] = q[i]
      BY <2>1, Zenon
    <3>2. QED
      BY <1>4, <3>1, Zenon
  <2>4. HitList(body, h)
    BY <2>1, <2>2, <2>3, Zenon DEF HitList
  <2>5. QED
    BY <1>8, <2>4, Zenon DEF h

\* Where a field's value ends, and the value, as ReferenceParse has them.
Ends(body, f) ==
  {Find(body, g) : g \in {h \in Keys(body) : Find(body, h) > Find(body, f)}} \cup {Len(body) + 1}
ValueOf(body, f) ==
  Trim(SubSeq(body, Find(body, f) + Len(Needle[f]), Least(Ends(body, f)) - 1))

\* ReferenceParse in these words.
LEMMA ReferenceParts ==
  ASSUME NEW body
  PROVE  /\ DOMAIN ReferenceParse(body) = Keys(body)
         /\ \A f \in Keys(body) : ReferenceParse(body)[f] = ValueOf(body, f)
         /\ ReferenceParse(body) = [f \in Keys(body) |-> ValueOf(body, f)]
<1>1. ReferenceParse(body) = [f \in Keys(body) |-> ValueOf(body, f)]
  BY Zenon DEF ReferenceParse, Keys, ValueOf, Ends
<1>2. QED
  BY <1>1, Zenon

\* Where a value ends, given a place that is one of its ends and no later than
\* the others.
LEMMA EndIs ==
  ASSUME NEW body \in Seq(Tokens), NEW f \in Keys(body), NEW e \in Ends(body, f),
         \A g \in Keys(body) : Find(body, g) > Find(body, f) => e <= Find(body, g),
         e <= Len(body) + 1
  PROVE  Least(Ends(body, f)) = e
<1>1. Ends(body, f) \in SUBSET Nat
  BY HitParts DEF Ends
<1>2. \A x \in Ends(body, f) : e <= x
  BY DEF Ends
<1>3. QED
  BY <1>1, <1>2, LeastUnique

\* The hit after a field's is the next key that was found.
LEMMA NextHit ==
  ASSUME NEW body \in Seq(Tokens), NEW f \in Keys(body), NEW h, HitList(body, h),
         NEW n \in 1 .. Len(h), h[n] = HitOf(body, f)
  PROVE  (IF n < Len(h) THEN h[n + 1].pos - 1 ELSE Len(body)) = Least(Ends(body, f)) - 1
<1>1. Len(h) \in Nat /\ Len(body) \in Nat /\ h[n].pos = Find(body, f) /\ Find(body, f) \in Nat
  <2>1. Len(h) \in Nat
    BY Zenon DEF HitList
  <2>2. QED
    BY <2>1, HitParts
<1>2. ASSUME NEW g \in Keys(body), Find(body, g) > Find(body, f)
      PROVE  \E m \in 1 .. Len(h) : m > n /\ h[m].pos = Find(body, g)
  <2>1. PICK m \in 1 .. Len(h) : h[m] = HitOf(body, g)
    BY DEF HitList
  <2>2. h[m].pos = Find(body, g) /\ Find(body, g) \in Nat
    BY <2>1, HitParts
  <2>3. m < n => h[m].pos < h[n].pos
    BY Zenon DEF HitList
  <2>4. m > n
    <3>1. m # n
      BY <1>1, <1>2, <2>2
    <3>2. ~(m < n)
      BY <1>1, <1>2, <2>2, <2>3
    <3>3. QED
      BY <1>1, <3>1, <3>2
  <2>5. QED
    BY <2>2, <2>4
<1>3. CASE n < Len(h)
  <2>1. n + 1 \in 1 .. Len(h) /\ n < n + 1
    BY <1>1, <1>3
  <2>2. PICK g \in Keys(body) : h[n + 1] = HitOf(body, g)
    BY <2>1 DEF HitList
  <2>3. h[n + 1].pos = Find(body, g) /\ Find(body, g) \in 1 .. Len(body)
    BY <2>2, HitParts
  <2>4. Find(body, g) > Find(body, f)
    BY <1>1, <2>1, <2>3 DEF HitList
  <2>5. ASSUME NEW k \in Keys(body), Find(body, k) > Find(body, f)
        PROVE  Find(body, g) <= Find(body, k)
    <3>1. PICK m \in 1 .. Len(h) : m > n /\ h[m].pos = Find(body, k)
      BY <1>2, <2>5
    <3>2. m = n + 1 \/ n + 1 < m
      BY <3>1
    <3>3. Find(body, k) \in Nat
      BY HitParts
    <3>4. n + 1 < m => h[n + 1].pos < h[m].pos
      BY <2>1, Zenon DEF HitList
    <3>5. QED
      BY <2>3, <3>1, <3>2, <3>3, <3>4
  <2>6. Find(body, g) \in Ends(body, f)
    BY <2>4 DEF Ends
  <2>7. Find(body, g) <= Len(body) + 1
    BY <1>1, <2>3
  <2>8. Least(Ends(body, f)) = Find(body, g)
    BY <2>5, <2>6, <2>7, EndIs, Zenon
  <2>9. QED
    BY <1>3, <2>3, <2>8
<1>4. CASE ~(n < Len(h))
  <2>1. \A g \in Keys(body) : ~(Find(body, g) > Find(body, f))
    BY <1>1, <1>2, <1>4
  <2>2. Len(body) + 1 \in Ends(body, f) /\ Len(body) + 1 <= Len(body) + 1
    BY <1>1 DEF Ends
  <2>3. Least(Ends(body, f)) = Len(body) + 1
    BY <2>1, <2>2, EndIs, Zenon
  <2>4. QED
    BY <1>1, <1>4, <2>3
<1>5. QED
  BY <1>3, <1>4

\* What parse returns: nothing if no key occurs, else the values of the keys
\* that occur, and the body.
LEMMA ParseIs ==
  ASSUME NEW body \in Seq(Tokens)
  PROVE  /\ Keys(body) = {} => Parse(body) = None
         /\ Keys(body) # {} => Parse(body) = FillIn([f \in Keys(body) |-> ValueOf(body, f)], [raw |-> body])
<1> DEFINE h == Hits(body)
           End(i) == IF i < Len(h) THEN h[i + 1].pos - 1 ELSE Len(body)
           Value(i) == Trim(SubSeq(body, h[i].pos + h[i].len, End(i)))
           At(field) == CHOOSE i \in DOMAIN h : h[i].field = field
           found == {h[i].field : i \in DOMAIN h}
<1>1. Parse(body) = IF h = <<>> THEN None ELSE FillIn([field \in found |-> Value(At(field))], [raw |-> body])
  BY Zenon DEF Parse
<1>2. HitList(body, h)
  BY HitsAre
<1> HIDE DEF h
<1>3. found = Keys(body)
  <2>1. DOMAIN h = 1 .. Len(h)
    BY <1>2, Zenon DEF HitList
  <2>2. ASSUME NEW i \in DOMAIN h
        PROVE  h[i].field \in Keys(body)
    <3>1. PICK f \in Keys(body) : h[i] = HitOf(body, f)
      BY <1>2, <2>1, Zenon DEF HitList
    <3>2. QED
      BY <3>1, HitParts
  <2>3. ASSUME NEW f \in Keys(body)
        PROVE  \E i \in DOMAIN h : h[i].field = f
    <3>1. PICK i \in DOMAIN h : h[i] = HitOf(body, f)
      BY <1>2, <2>1, Zenon DEF HitList
    <3>2. QED
      BY <3>1, HitParts
  <2>4. QED
    BY <2>2, <2>3, Zenon
<1>4. ASSUME NEW f \in Keys(body)
      PROVE  Value(At(f)) = ValueOf(body, f)
  <2> DEFINE i == At(f)
  <2>1. i \in DOMAIN h /\ h[i].field = f
    <3>1. f \in found
      BY <1>3
    <3>2. QED
      BY <3>1, Zenon
  <2> HIDE DEF i
  <2>2. i \in 1 .. Len(h) /\ h[i] = HitOf(body, f)
    <3>1. i \in 1 .. Len(h)
      BY <1>2, <2>1, Zenon DEF HitList
    <3>2. PICK g \in Keys(body) : h[i] = HitOf(body, g)
      BY <1>2, <3>1, Zenon DEF HitList
    <3>3. g = f
      BY <2>1, <3>2, HitParts
    <3>4. QED
      BY <3>1, <3>2, <3>3
  <2>3. End(i) = Least(Ends(body, f)) - 1
    BY <1>2, <2>2, NextHit, Zenon
  <2>4. h[i].pos = Find(body, f) /\ h[i].len = Len(Needle[f])
    BY <2>2, HitParts
  <2> HIDE DEF End
  <2>5. Value(i) = ValueOf(body, f)
    BY <2>3, <2>4, Zenon DEF ValueOf
  <2>6. QED
    BY <2>5 DEF i
<1>5. h = <<>> <=> Keys(body) = {}
  <2>1. h = <<>> => DOMAIN h = {}
    OBVIOUS
  <2>2. DOMAIN h = 1 .. Len(h) /\ Len(h) \in Nat
    BY <1>2, Zenon DEF HitList
  <2>3. DOMAIN h = {} => h = <<>>
    <3>1. h = [i \in DOMAIN h |-> h[i]]
      BY <1>2, Zenon DEF HitList
    <3>2. QED
      BY <3>1, <2>2
  <2>4. QED
    BY <1>3, <2>1, <2>3, Zenon
<1>6. [field \in found |-> Value(At(field))] = [f \in Keys(body) |-> ValueOf(body, f)]
  <2> HIDE DEF Value, At, found
  <2> QED BY <1>3, <1>4, Zenon
<1>7. QED
  BY <1>1, <1>5, <1>6, Zenon

\* A dict filled in from another.
LEMMA FilledIn ==
  ASSUME NEW d, NEW e
  PROVE  /\ DOMAIN FillIn(d, e) = DOMAIN d \cup DOMAIN e
         /\ \A k \in DOMAIN d : FillIn(d, e)[k] = d[k]
         /\ \A k \in DOMAIN e : k \notin DOMAIN d => FillIn(d, e)[k] = e[k]
BY Zenon DEF FillIn

\* parse and ReferenceParse agree.
LEMMA ParseParts ==
  ASSUME NEW body \in Seq(Tokens)
  PROVE  /\ Parse(body) = None <=> Keys(body) = {}
         /\ Keys(body) # {} => /\ DOMAIN Parse(body) = Keys(body) \cup {"raw"} /\ "raw" \notin Keys(body)
                               /\ \A f \in Keys(body) : Parse(body)[f] = ValueOf(body, f)
<1> DEFINE d == [f \in Keys(body) |-> ValueOf(body, f)]
           e == [raw |-> body]
<1>1. DOMAIN d = Keys(body) /\ \A f \in Keys(body) : d[f] = ValueOf(body, f)
  BY Zenon
<1>2. DOMAIN e = {"raw"}
  OBVIOUS
<1>3. Keys(body) # {} => Parse(body) = FillIn(d, e)
  BY ParseIs, Zenon
<1>4. "raw" \notin Keys(body)
  BY NeedleNames DEF Keys
<1> HIDE DEF d, e
<1>5. ASSUME Keys(body) # {}
      PROVE  /\ DOMAIN Parse(body) = Keys(body) \cup {"raw"}
             /\ \A f \in Keys(body) : Parse(body)[f] = ValueOf(body, f)
  <2>1. Parse(body) = FillIn(d, e)
    BY <1>3, <1>5
  <2>2. DOMAIN FillIn(d, e) = Keys(body) \cup {"raw"}
    BY <1>1, <1>2, FilledIn
  <2>3. \A f \in DOMAIN d : FillIn(d, e)[f] = d[f]
    BY FilledIn, Zenon
  <2>4. QED
    BY <1>1, <2>1, <2>2, <2>3, Zenon
<1>6. DOMAIN None = {}
  BY DEF None
<1>7. QED
  BY <1>4, <1>5, <1>6, ParseIs, Zenon

-----------------------------------------------------------------------------
(* Relaying a receipt.                                                      *)

-----------------------------------------------------------------------------
(* Receipts put together and read again.                                    *)

\* No key lies across the border of s and t.
Cut(s, t) ==
  \A g \in DOMAIN Needle : \A k \in 1 .. Len(Needle[g]) - 1 :
    ~(Len(s) > 0 /\ Len(t) > 0 /\ s[Len(s)] = Needle[g][k] /\ t[1] = Needle[g][k + 1])

\* The tokens of one text after another.
LEMMA Joined ==
  ASSUME NEW s \in Seq(Tokens), NEW t \in Seq(Tokens)
  PROVE  /\ s \o t \in Seq(Tokens) /\ Len(s \o t) = Len(s) + Len(t) /\ Len(s) \in Nat /\ Len(t) \in Nat
         /\ \A i \in 1 .. Len(s) : (s \o t)[i] = s[i]
         /\ \A i \in 1 .. Len(t) : (s \o t)[Len(s) + i] = t[i]
         /\ \A i \in Len(s) + 1 .. Len(s) + Len(t) : (s \o t)[i] = t[i - Len(s)]
<1>1. s \o t \in Seq(Tokens) /\ Len(s \o t) = Len(s) + Len(t) /\ Len(s) \in Nat /\ Len(t) \in Nat
  OBVIOUS
<1>2. \A i \in 1 .. Len(s) : (s \o t)[i] = s[i]
  BY <1>1
<1>3. \A i \in Len(s) + 1 .. Len(s) + Len(t) : (s \o t)[i] = t[i - Len(s)]
  BY <1>1
<1>4. ASSUME NEW i \in 1 .. Len(t)
      PROVE  (s \o t)[Len(s) + i] = t[i]
  BY <1>1
<1>5. QED
  BY <1>1, <1>2, <1>3, <1>4

\* A key occurs in the one or in the other.
LEMMA CutOccurrences ==
  ASSUME NEW s \in Seq(Tokens), NEW t \in Seq(Tokens), Cut(s, t), NEW f \in DOMAIN Needle
  PROVE  /\ \A i : i \in Occurrences(s \o t, Needle[f]) =>
                     \/ i \in Occurrences(s, Needle[f])
                     \/ i - Len(s) \in Occurrences(t, Needle[f]) /\ i \in Nat
         /\ \A i \in Occurrences(s, Needle[f]) : i \in Occurrences(s \o t, Needle[f])
         /\ \A i \in Occurrences(t, Needle[f]) : Len(s) + i \in Occurrences(s \o t, Needle[f])
<1> DEFINE u == s \o t
           n == Len(Needle[f])
<1>1. n \in Nat /\ n > 0
  BY KeyAt
<1>2. /\ u \in Seq(Tokens) /\ Len(u) = Len(s) + Len(t) /\ Len(s) \in Nat /\ Len(t) \in Nat
      /\ \A i \in 1 .. Len(s) : u[i] = s[i]
      /\ \A i \in 1 .. Len(t) : u[Len(s) + i] = t[i]
  BY Joined
<1> HIDE DEF u, n
<1>3. ASSUME NEW i \in Occurrences(u, Needle[f])
      PROVE  i \in Occurrences(s, Needle[f]) \/ (i - Len(s) \in Occurrences(t, Needle[f]) /\ i \in Nat)
  <2>1. i \in 1 .. Len(u) /\ i + n - 1 <= Len(u) /\ \A k \in 1 .. n : u[i + k - 1] = Needle[f][k]
    BY <1>2, KeyAt DEF n
  <2>2. CASE i + n - 1 <= Len(s)
    <3>1. i \in 1 .. Len(s)
      BY <1>1, <1>2, <2>1, <2>2
    <3>2. ASSUME NEW k \in 1 .. n
          PROVE  s[i + k - 1] = Needle[f][k]
      <4>1. i + k - 1 \in 1 .. Len(s)
        BY <1>1, <1>2, <2>1, <2>2
      <4>2. QED
        BY <1>2, <2>1, <4>1
    <3>3. QED
      BY <2>2, <3>1, <3>2, KeyAt DEF n
  <2>3. CASE i > Len(s)
    <3> DEFINE j == i - Len(s)
    <3>1. j \in 1 .. Len(t) /\ j + n - 1 <= Len(t) /\ i \in Nat
      BY <1>1, <1>2, <2>1, <2>3
    <3>2. ASSUME NEW k \in 1 .. n
          PROVE  t[j + k - 1] = Needle[f][k]
      <4>1. j + k - 1 \in 1 .. Len(t) /\ Len(s) + (j + k - 1) = i + k - 1
        BY <1>1, <1>2, <3>1
      <4>2. u[Len(s) + (j + k - 1)] = t[j + k - 1]
        BY <1>2, <4>1
      <4>3. u[i + k - 1] = Needle[f][k]
        BY <2>1
      <4>4. QED
        BY <4>1, <4>2, <4>3
    <3> HIDE DEF j
    <3>3. j \in Occurrences(t, Needle[f])
      BY <3>1, <3>2, KeyAt DEF n
    <3>4. QED
      BY <3>1, <3>3 DEF j
  <2>4. CASE i <= Len(s) /\ i + n - 1 > Len(s)
    <3> DEFINE k == Len(s) - i + 1
    <3>1. /\ k \in 1 .. n - 1 /\ k \in 1 .. n /\ k + 1 \in 1 .. n /\ i + k - 1 = Len(s)
          /\ i + (k + 1) - 1 = Len(s) + 1 /\ Len(s) > 0 /\ Len(t) > 0
      BY <1>1, <1>2, <2>1, <2>4
    <3> HIDE DEF k
    <3>2. u[i + k - 1] = Needle[f][k] /\ u[i + (k + 1) - 1] = Needle[f][k + 1]
      BY <2>1, <3>1
    <3>3. u[Len(s)] = s[Len(s)] /\ u[Len(s) + 1] = t[1]
      BY <1>2, <3>1
    <3>4. s[Len(s)] = Needle[f][k] /\ t[1] = Needle[f][k + 1]
      BY <3>1, <3>2, <3>3
    <3>5. QED
      BY <3>1, <3>4, Zenon DEF Cut, n
  <2>5. QED
    BY <1>1, <1>2, <2>1, <2>2, <2>3, <2>4
<1>4. ASSUME NEW i \in Occurrences(s, Needle[f])
      PROVE  i \in Occurrences(u, Needle[f])
  <2>1. i \in 1 .. Len(s) /\ i + n - 1 <= Len(s) /\ \A k \in 1 .. n : s[i + k - 1] = Needle[f][k]
    BY KeyAt DEF n
  <2>2. \A k \in 1 .. n : i + k - 1 \in 1 .. Len(s)
    BY <1>1, <1>2, <2>1
  <2>3. i \in 1 .. Len(u) /\ i + n - 1 <= Len(u)
    BY <1>1, <1>2, <2>1
  <2>4. \A k \in 1 .. n : u[i + k - 1] = Needle[f][k]
    BY <1>2, <2>1, <2>2, Zenon
  <2>5. QED
    BY <1>2, <2>3, <2>4, KeyAt DEF n
<1>5. ASSUME NEW i \in Occurrences(t, Needle[f])
      PROVE  Len(s) + i \in Occurrences(u, Needle[f])
  <2> DEFINE j == Len(s) + i
  <2>1. i \in 1 .. Len(t) /\ i + n - 1 <= Len(t) /\ \A k \in 1 .. n : t[i + k - 1] = Needle[f][k]
    BY KeyAt DEF n
  <2>2. j \in 1 .. Len(u) /\ j + n - 1 <= Len(u)
    BY <1>1, <1>2, <2>1
  <2>3. ASSUME NEW k \in 1 .. n
        PROVE  u[j + k - 1] = Needle[f][k]
    <3>1. i + k - 1 \in 1 .. Len(t) /\ Len(s) + (i + k - 1) = j + k - 1
      BY <1>1, <1>2, <2>1
    <3>2. u[Len(s) + (i + k - 1)] = t[i + k - 1]
      BY <1>2, <3>1
    <3>3. QED
      BY <2>1, <3>1, <3>2
  <2> HIDE DEF j
  <2>4. j \in Occurrences(u, Needle[f])
    BY <1>2, <2>2, <2>3, KeyAt DEF n
  <2>5. QED
    BY <2>4 DEF j
<1>6. QED
  BY <1>3, <1>4, <1>5 DEF u

\* A text that begins with a key starts something new: no key lies across.
LEMMA CutBeforeKey ==
  ASSUME NEW s \in Seq(Tokens), NEW t \in Seq(Tokens), NEW f \in DOMAIN Needle,
         Len(t) > 0, t[1] = Needle[f][1]
  PROVE  Cut(s, t)
<1> SUFFICES ASSUME NEW g \in DOMAIN Needle, NEW k \in 1 .. Len(Needle[g]) - 1,
                    t[1] = Needle[g][k + 1]
             PROVE  FALSE
  BY Zenon DEF Cut
<1>1. k + 1 \in 1 .. Len(Needle[g]) /\ k + 1 # 1
  BY KeyAt
<1>2. QED
  BY <1>1, NeedlesApart, Zenon

\* Neither does one across the end of a key.
LEMMA CutAfterKey ==
  ASSUME NEW t \in Seq(Tokens), NEW f \in DOMAIN Needle
  PROVE  Cut(Needle[f], t)
<1> SUFFICES ASSUME NEW g \in DOMAIN Needle, NEW k \in 1 .. Len(Needle[g]) - 1,
                    Needle[f][Len(Needle[f])] = Needle[g][k]
             PROVE  FALSE
  BY Zenon DEF Cut
<1>1. k \in 1 .. Len(Needle[g]) /\ k # Len(Needle[g])
  BY KeyAt
<1>2. QED
  BY <1>1, NeedleEnds, Zenon

\* A blank after a text without keys makes no key.
LEMMA KeylessBlank ==
  ASSUME NEW v \in Seq(Tokens), Keyless(v)
  PROVE  v \o <<Blank>> \in Seq(Tokens) /\ Len(v \o <<Blank>>) = Len(v) + 1 /\ Keyless(v \o <<Blank>>)
<1> DEFINE u == v \o <<Blank>>
<1>1. Blank \in Tokens
  BY KeyTokens DEF Blank
<1>2. /\ <<Blank>> \in Seq(Tokens) /\ Len(<<Blank>>) = 1 /\ <<Blank>>[1] = Blank
  BY <1>1, ShortTexts
<1>3. /\ u \in Seq(Tokens) /\ Len(u) = Len(v) + 1 /\ Len(v) \in Nat
      /\ \A i \in 1 .. Len(v) : u[i] = v[i]
      /\ u[Len(v) + 1] = Blank
  BY <1>2, Joined
<1> HIDE DEF u
<1>4. ASSUME NEW f \in DOMAIN Needle, NEW i \in Occurrences(u, Needle[f])
      PROVE  FALSE
  <2> DEFINE n == Len(Needle[f])
  <2>1. n \in Nat /\ n > 0
    BY KeyAt
  <2>2. i \in 1 .. Len(u) /\ i + n - 1 <= Len(u) /\ \A k \in 1 .. n : u[i + k - 1] = Needle[f][k]
    BY <1>3, KeyAt
  <2>3. Needle[f][n] # Blank
    <3>1. n \in 1 .. n
      BY <2>1
    <3>2. QED
      BY <3>1, NeedleEnds, Zenon
  <2> HIDE DEF n
  <2>4. i + n - 1 # Len(v) + 1
    <3>1. n \in 1 .. n
      BY <2>1
    <3>2. u[i + n - 1] = Needle[f][n]
      BY <2>2, <3>1
    <3>3. QED
      BY <1>3, <2>3, <3>2
  <2>5. i \in 1 .. Len(v) /\ i + n - 1 <= Len(v)
    <3>1. i \in 1 .. Len(v) + 1 /\ i + n - 1 <= Len(v) + 1 /\ Len(v) \in Nat
      BY <1>3, <2>2, Zenon
    <3>2. QED
      BY <2>1, <2>4, <3>1
  <2>6. \A k \in 1 .. n : i + k - 1 \in 1 .. Len(v)
    BY <1>3, <2>1, <2>5
  <2>7. \A k \in 1 .. n : v[i + k - 1] = Needle[f][k]
    BY <1>3, <2>2, <2>6, Zenon
  <2>8. i \in Occurrences(v, Needle[f])
    BY <2>5, <2>7, KeyAt DEF n
  <2>9. QED
    BY <2>8 DEF Keyless
<1>5. Keyless(u)
  BY <1>4 DEF Keyless
<1>6. QED
  BY <1>3, <1>5 DEF u

\* A field of a receipt: its key, once, at its beginning.
LEMMA FieldParts ==
  ASSUME NEW f \in DOMAIN Needle, NEW v \in Seq(Tokens), Keyless(v)
  PROVE  /\ Field(f, v) \in Seq(Tokens) /\ Field(f, v) = Needle[f] \o (v \o <<Blank>>)
         /\ Len(Field(f, v)) = Len(Needle[f]) + Len(v) + 1
         /\ Field(f, v)[1] = Needle[f][1]
         /\ 1 \in Occurrences(Field(f, v), Needle[f])
         /\ \A g \in DOMAIN Needle : \A i \in Occurrences(Field(f, v), Needle[g]) : g = f /\ i = 1
<1> DEFINE n == Needle[f]
           w == v \o <<Blank>>
           u == n \o w
<1>1. w \in Seq(Tokens) /\ Keyless(w) /\ Len(w) = Len(v) + 1
  BY KeylessBlank
<1>2. n \in Seq(Tokens) /\ Len(n) \in Nat /\ Len(n) > 0
  BY NeedleTokens, KeyAt
<1>3. Field(f, v) = u
  <2>1. <<Blank>> \in Seq(Tokens)
    <3>1. Blank \in Tokens
      BY KeyTokens DEF Blank
    <3>2. QED
      BY <3>1, ShortTexts
  <2>2. (n \o v) \o <<Blank>> = n \o (v \o <<Blank>>)
    BY <1>2, <2>1, ConcatAssociative
  <2>3. QED
    BY <2>2 DEF Field
<1>4. Cut(n, w)
  BY <1>1, CutAfterKey
<1> HIDE DEF w
<1>5. u \in Seq(Tokens) /\ Len(u) = Len(n) + Len(w) /\ u[1] = n[1]
  <2>1. 1 \in 1 .. Len(n)
    BY <1>2
  <2>2. n \in Seq(Tokens) /\ w \in Seq(Tokens)
    BY <1>1, <1>2, Zenon
  <2> HIDE DEF n
  <2>3. u \in Seq(Tokens) /\ Len(u) = Len(n) + Len(w) /\ \A i \in 1 .. Len(n) : u[i] = n[i]
    BY <2>2, Joined, Zenon
  <2>4. QED
    BY <2>1, <2>3, Zenon
<1>6. 1 \in Occurrences(n, Needle[f])
  <2>1. 1 \in 1 .. Len(n) /\ 1 + Len(n) - 1 <= Len(n)
    BY <1>2
  <2>2. \A k \in 1 .. Len(n) : n[1 + k - 1] = Needle[f][k]
    BY <1>2
  <2>3. QED
    BY <1>2, <2>1, <2>2, KeyAt
<1>7. 1 \in Occurrences(u, Needle[f])
  BY <1>1, <1>2, <1>4, <1>6, CutOccurrences
<1>8. ASSUME NEW g \in DOMAIN Needle, NEW i \in Occurrences(u, Needle[g])
      PROVE  g = f /\ i = 1
  <2>1. i \in Occurrences(n, Needle[g]) \/ i - Len(n) \in Occurrences(w, Needle[g])
    BY <1>1, <1>2, <1>4, CutOccurrences
  <2>2. i \in Occurrences(n, Needle[g])
    BY <1>1, <2>1 DEF Keyless
  <2>3. i \in 1 .. Len(n)
    BY <1>2, <2>2, KeyAt
  <2>4. 1 <= i /\ i <= 1 + Len(n) - 1
    BY <1>2, <2>3
  <2>5. QED
    BY <1>2, <1>6, <2>2, <2>4, KeysApart
<1>9. Len(u) = Len(n) + Len(v) + 1
  BY <1>1, <1>2, <1>5
<1>10. QED
  BY <1>3, <1>5, <1>7, <1>8, <1>9, Zenon DEF w

\* A value without blanks around it.
Trimmed(v) == Len(v) > 0 => v[1] # Blank /\ v[Len(v)] # Blank

\* The greatest of some numbers up to a bound.
LEMMA Greatest ==
  ASSUME NEW m \in Nat, NEW S \in SUBSET (1 .. m), S # {}
  PROVE  \E i \in S : \A j \in S : j <= i
<1> DEFINE R == {m - i : i \in S}
<1>1. \A i \in S : i \in 1 .. m /\ i \in Int /\ m - i \in Nat
  OBVIOUS
<1>2. R \in SUBSET Nat /\ R # {}
  BY <1>1
<1>3. PICK r \in R : \A x \in R : r <= x
  <2> HIDE DEF R
  <2> QED BY <1>2, LeastNatural
<1>4. PICK i \in S : r = m - i
  BY <1>3
<1>5. ASSUME NEW j \in S
      PROVE  j <= i
  <2>1. m - i <= m - j
    BY <1>3, <1>4
  <2>2. QED
    BY <1>1, <2>1
<1>6. QED
  BY <1>5

\* Trim cuts at the first and the last token that is no blank.
LEMMA TrimIs ==
  ASSUME NEW s \in Seq(Tokens), NEW a \in 1 .. Len(s), NEW b \in 1 .. Len(s),
         s[a] # Blank, s[b] # Blank, \A i \in 1 .. Len(s) : s[i] # Blank => a <= i /\ i <= b
  PROVE  Trim(s) = SubSeq(s, a, b)
<1> DEFINE solid == {i \in DOMAIN s : s[i] # Blank}
           most == CHOOSE i \in solid : \A j \in solid : j <= i
<1>1. DOMAIN s = 1 .. Len(s) /\ Len(s) \in Nat
  OBVIOUS
<1>2. a \in solid /\ b \in solid /\ solid \in SUBSET Nat /\ \A i \in solid : a <= i /\ i <= b
  BY <1>1
<1>3. Trim(s) = IF solid = {} THEN <<>> ELSE SubSeq(s, Least(solid), most)
  BY Zenon DEF Trim
<1> HIDE DEF solid
<1>4. Least(solid) = a
  BY <1>2, LeastUnique
<1>5. most = b
  <2>1. most \in solid /\ b <= most
    BY <1>2, Zenon
  <2>2. most <= b /\ most \in Nat
    BY <1>2, <2>1
  <2>3. QED
    BY <2>1, <2>2
<1>6. QED
  BY <1>2, <1>3, <1>4, <1>5, Zenon

\* Only blanks trim to nothing.
LEMMA TrimBlanks ==
  ASSUME NEW s \in Seq(Tokens), \A i \in 1 .. Len(s) : s[i] = Blank
  PROVE  Trim(s) = <<>>
<1>1. {i \in DOMAIN s : s[i] # Blank} = {}
  OBVIOUS
<1>2. QED
  BY <1>1, Zenon DEF Trim

\* What trimming leaves has no blanks around it.
LEMMA TrimTrims ==
  ASSUME NEW s \in Seq(Tokens)
  PROVE  Trim(s) \in Seq(Tokens) /\ Trimmed(Trim(s))
<1> DEFINE solid == {i \in 1 .. Len(s) : s[i] # Blank}
<1>1. CASE solid = {}
  <2>1. Trim(s) = <<>>
    BY <1>1, TrimBlanks
  <2>2. QED
    BY <2>1 DEF Trimmed
<1>2. CASE solid # {}
  <2>1. Len(s) \in Nat /\ solid \in SUBSET (1 .. Len(s)) /\ solid \in SUBSET Nat
    OBVIOUS
  <2>2. PICK a \in solid : \A j \in solid : a <= j
    <3> HIDE DEF solid
    <3> QED BY <1>2, <2>1, LeastNatural
  <2>3. PICK b \in solid : \A j \in solid : j <= b
    <3> HIDE DEF solid
    <3> QED BY <1>2, <2>1, Greatest
  <2>4. /\ a \in 1 .. Len(s) /\ b \in 1 .. Len(s) /\ s[a] # Blank /\ s[b] # Blank /\ a <= b
        /\ \A i \in 1 .. Len(s) : s[i] # Blank => a <= i /\ i <= b
    BY <2>2, <2>3
  <2>5. Trim(s) = SubSeq(s, a, b)
    BY <2>4, TrimIs
  <2> DEFINE u == SubSeq(s, a, b)
  <2>6. u \in Seq(Tokens) /\ Len(u) = b - a + 1
    BY <2>1, <2>4
  <2>7. u[1] = s[a] /\ u[Len(u)] = s[b]
    <3>1. \A k \in 1 .. b - a + 1 : u[k] = s[a + k - 1]
      BY <2>1, <2>4
    <3> HIDE DEF u
    <3>2. 1 \in 1 .. b - a + 1 /\ b - a + 1 \in 1 .. b - a + 1 /\ a + 1 - 1 = a /\ a + (b - a + 1) - 1 = b
      BY <2>4
    <3>3. u[1] = s[a + 1 - 1] /\ u[b - a + 1] = s[a + (b - a + 1) - 1]
      BY <3>1, <3>2, Zenon
    <3>4. QED
      BY <2>6, <3>2, <3>3
  <2>8. QED
    BY <2>4, <2>5, <2>6, <2>7 DEF Trimmed
<1>3. QED
  BY <1>1, <1>2

\* A trimmed value stays as it is, with or without the blank after it.
LEMMA TrimValue ==
  ASSUME NEW v \in Seq(Tokens), Trimmed(v)
  PROVE  Trim(v) = v /\ Trim(v \o <<Blank>>) = v
<1> DEFINE u == v \o <<Blank>>
<1>1. <<Blank>> \in Seq(Tokens) /\ Len(<<Blank>>) = 1 /\ <<Blank>>[1] = Blank
  <2>1. Blank \in Tokens
    BY KeyTokens DEF Blank
  <2>2. QED
    BY <2>1, ShortTexts
<1>2. /\ u \in Seq(Tokens) /\ Len(u) = Len(v) + 1 /\ Len(v) \in Nat
      /\ \A i \in 1 .. Len(v) : u[i] = v[i]
      /\ u[Len(v) + 1] = Blank
  BY <1>1, Joined
<1>3. CASE Len(v) = 0
  <2>1. v = <<>>
    BY <1>3
  <2>2. \A i \in 1 .. Len(u) : u[i] = Blank
    <3> HIDE DEF u
    <3> QED BY <1>2, <1>3
  <2>3. \A i \in 1 .. Len(v) : v[i] = Blank
    BY <1>3
  <2>4. QED
    BY <1>2, <2>1, <2>2, <2>3, TrimBlanks
<1>4. CASE Len(v) > 0
  <2> HIDE DEF u
  <2>1. 1 \in 1 .. Len(v) /\ Len(v) \in 1 .. Len(v) /\ 1 \in 1 .. Len(u) /\ Len(v) \in 1 .. Len(u)
    BY <1>2, <1>4
  <2>2. v[1] # Blank /\ v[Len(v)] # Blank /\ u[1] # Blank /\ u[Len(v)] # Blank
    BY <1>2, <1>4, <2>1 DEF Trimmed
  <2>3. \A i \in 1 .. Len(v) : 1 <= i /\ i <= Len(v)
    BY <1>2
  <2>4. \A i \in 1 .. Len(u) : u[i] # Blank => 1 <= i /\ i <= Len(v)
    BY <1>2
  <2>5. Trim(v) = SubSeq(v, 1, Len(v))
    BY <2>1, <2>2, <2>3, TrimIs
  <2>6. Trim(u) = SubSeq(u, 1, Len(v))
    BY <1>2, <2>1, <2>2, <2>4, TrimIs
  <2>7. SubSeq(v, 1, Len(v)) = v
    BY <1>2
  <2>8. SubSeq(u, 1, Len(v)) = v
    <3> DEFINE x == SubSeq(u, 1, Len(v))
    <3>1. x \in Seq(Tokens) /\ Len(x) = Len(v) /\ \A i \in 1 .. Len(v) : x[i] = u[i]
      BY <1>2
    <3> HIDE DEF x
    <3>2. x = v
      BY <1>2, <3>1
    <3>3. QED
      BY <3>2 DEF x
  <2>9. QED
    BY <2>5, <2>6, <2>7, <2>8 DEF u
<1>5. QED
  BY <1>2, <1>3, <1>4

\* The first place of a key.
LEMMA FindIs ==
  ASSUME NEW s \in Seq(Tokens), NEW f \in DOMAIN Needle, NEW i \in Occurrences(s, Needle[f]),
         \A j \in Occurrences(s, Needle[f]) : i <= j
  PROVE  f \in Keys(s) /\ Find(s, f) = i
<1>1. Occurrences(s, Needle[f]) \in SUBSET Nat
  BY KeyAt
<1>2. QED
  BY <1>1, LeastUnique DEF Keys, Find

\* A text, a field and more: where keys occur.
LEMMA ThreeParts ==
  ASSUME NEW p \in Seq(Tokens), NEW f \in DOMAIN Needle, NEW v \in Seq(Tokens), Keyless(v)
  PROVE  /\ p \o Field(f, v) \in Seq(Tokens)
         /\ Len(p \o Field(f, v)) = Len(p) + Len(Field(f, v))
         /\ Len(p) + 1 \in Occurrences(p \o Field(f, v), Needle[f])
         /\ \A g \in DOMAIN Needle :
              /\ \A i \in Occurrences(p, Needle[g]) : i \in Occurrences(p \o Field(f, v), Needle[g])
              /\ \A i \in Occurrences(p \o Field(f, v), Needle[g]) :
                   i \in Occurrences(p, Needle[g]) \/ (g = f /\ i = Len(p) + 1)
<1> DEFINE u == Field(f, v)
<1>1. /\ u \in Seq(Tokens) /\ u[1] = Needle[f][1] /\ 1 \in Occurrences(u, Needle[f])
      /\ \A g \in DOMAIN Needle : \A i \in Occurrences(u, Needle[g]) : g = f /\ i = 1
  BY FieldParts, Zenon
<1>2. Len(u) = Len(Needle[f]) + Len(v) + 1
  BY FieldParts, Zenon
<1> HIDE DEF u
<1>3. Len(u) > 0
  BY <1>2, KeyAt
<1>4. Cut(p, u)
  BY <1>1, <1>3, CutBeforeKey
<1>5. p \o u \in Seq(Tokens) /\ Len(p \o u) = Len(p) + Len(u) /\ Len(p) \in Nat
  BY <1>1, Joined
<1>6. Len(p) + 1 \in Occurrences(p \o u, Needle[f])
  BY <1>1, <1>4, CutOccurrences
<1>7. ASSUME NEW g \in DOMAIN Needle
      PROVE  /\ \A i \in Occurrences(p, Needle[g]) : i \in Occurrences(p \o u, Needle[g])
             /\ \A i \in Occurrences(p \o u, Needle[g]) :
                  i \in Occurrences(p, Needle[g]) \/ (g = f /\ i = Len(p) + 1)
  <2>1. \A i \in Occurrences(p, Needle[g]) : i \in Occurrences(p \o u, Needle[g])
    BY <1>1, <1>4, CutOccurrences
  <2>2. ASSUME NEW i \in Occurrences(p \o u, Needle[g]), i \notin Occurrences(p, Needle[g])
        PROVE  g = f /\ i = Len(p) + 1
    <3>1. i - Len(p) \in Occurrences(u, Needle[g]) /\ i \in Nat
      BY <1>1, <1>4, <2>2, CutOccurrences
    <3>2. g = f /\ i - Len(p) = 1
      BY <1>1, <3>1, Zenon
    <3>3. QED
      BY <1>5, <3>1, <3>2
  <2>3. QED
    BY <2>1, <2>2
<1>8. QED
  BY <1>5, <1>6, <1>7 DEF u

\* The keys of a text and a field after it.
LEMMA KeysOfPrefix ==
  ASSUME NEW p \in Seq(Tokens), NEW f \in DOMAIN Needle, NEW v \in Seq(Tokens), Keyless(v)
  PROVE  p \o Field(f, v) \in Seq(Tokens) /\ Keys(p \o Field(f, v)) = Keys(p) \cup {f}
<1> DEFINE u == p \o Field(f, v)
<1>1. /\ u \in Seq(Tokens) /\ Len(p) + 1 \in Occurrences(u, Needle[f])
      /\ \A g \in DOMAIN Needle :
              /\ \A i \in Occurrences(p, Needle[g]) : i \in Occurrences(u, Needle[g])
              /\ \A i \in Occurrences(u, Needle[g]) : i \in Occurrences(p, Needle[g]) \/ (g = f /\ i = Len(p) + 1)
  BY ThreeParts, Zenon
<1> HIDE DEF u
<1>2. Keys(u) = Keys(p) \cup {f}
  BY <1>1, Zenon DEF Keys
<1>3. QED
  BY <1>1, <1>2 DEF u

\* A value that a field other than the last can carry.
Carried(v) == v \in Seq(Tokens) /\ Keyless(v) /\ Trimmed(v)

\* A text in which neither of two keys has occurred.
Room(p, f, g) ==
  p \in Seq(Tokens) /\ f \in DOMAIN Needle /\ g # f /\ f \notin Keys(p) /\ g \notin Keys(p)

\* A field and what the parser reads as its value.
ReadsAs(body, f, v) == f \in Keys(body) /\ ValueOf(body, f) = v

\* A text that begins with a key.
Headed(t, g) == t \in Seq(Tokens) /\ g \in DOMAIN Needle /\ 1 \in Occurrences(t, Needle[g])

\* Texts that agree token by token.
LEMMA SameText ==
  ASSUME NEW x \in Seq(Tokens), NEW v \in Seq(Tokens), Len(x) = Len(v), \A k \in 1 .. Len(v) : x[k] = v[k]
  PROVE  x = v
OBVIOUS

\* A piece of a text, token by token.
IsPiece(s, v, a, b) ==
  /\ s \in Seq(Tokens) /\ v \in Seq(Tokens) /\ a \in 1 .. Len(s) + 1 /\ b \in 0 .. Len(s)
  /\ b - a + 1 = Len(v)
  /\ \A k \in 1 .. Len(v) : s[a + k - 1] = v[k]

\* SubSeq cuts that piece out.
LEMMA Piece ==
  ASSUME NEW s, NEW v, NEW a, NEW b, IsPiece(s, v, a, b)
  PROVE  SubSeq(s, a, b) = v
<1> DEFINE x == SubSeq(s, a, b)
<1>1. /\ s \in Seq(Tokens) /\ v \in Seq(Tokens) /\ a \in 1 .. Len(s) + 1 /\ b \in 0 .. Len(s)
      /\ b - a + 1 = Len(v) /\ Len(s) \in Nat /\ Len(v) \in Nat
  BY DEF IsPiece
<1>2. x \in Seq(Tokens) /\ Len(x) = Len(v)
  BY <1>1
<1>3. \A k \in 1 .. Len(v) : x[k] = s[a + k - 1]
  BY <1>1
<1> HIDE DEF x
<1>4. \A k \in 1 .. Len(v) : x[k] = v[k]
  BY <1>3, Zenon DEF IsPiece
<1>5. x = v
  BY <1>1, <1>2, <1>4, SameText, Zenon
<1>6. QED
  BY <1>5 DEF x

\* A field with a key after it is read back: no key of the text before it is its
\* own or the one after.
LEMMA ValueIs ==
  ASSUME NEW p, NEW f, NEW v, NEW t, NEW g, Room(p, f, g), Carried(v), Headed(t, g),
         NEW body, body = (p \o Field(f, v)) \o t
  PROVE  ReadsAs(body, f, v)
<1>a. /\ p \in Seq(Tokens) /\ f \in DOMAIN Needle /\ g # f /\ f \notin Keys(p) /\ g \notin Keys(p)
      /\ v \in Seq(Tokens) /\ Keyless(v) /\ Trimmed(v)
      /\ t \in Seq(Tokens) /\ g \in DOMAIN Needle /\ 1 \in Occurrences(t, Needle[g])
  BY DEF Carried, Headed, Room
<1> USE <1>a
<1> DEFINE c == p \o Field(f, v)
           w == v \o <<Blank>>
           a == Len(p)
           n == Len(Needle[f])
           e == Len(c) + 1
<1>1. /\ c \in Seq(Tokens) /\ Len(c) = Len(p) + Len(Field(f, v)) /\ Len(p) + 1 \in Occurrences(c, Needle[f])
      /\ \A h \in DOMAIN Needle : \A i \in Occurrences(c, Needle[h]) :
           i \in Occurrences(p, Needle[h]) \/ (h = f /\ i = Len(p) + 1)
  BY ThreeParts, Zenon
<1>2. /\ Field(f, v) = Needle[f] \o w /\ Len(Field(f, v)) = n + Len(v) + 1
      /\ Field(f, v) \in Seq(Tokens)
  BY FieldParts, Zenon
<1>3. w \in Seq(Tokens) /\ Len(w) = Len(v) + 1
  BY KeylessBlank
<1>4. Len(p) \in Nat /\ Len(v) \in Nat /\ Len(t) \in Nat /\ n \in Nat /\ n > 0 /\ Len(t) > 0 /\ Needle[f] \in Seq(Tokens)
  <2>1. 1 \in 1 .. Len(t)
    BY KeyAt
  <2>2. n \in Nat /\ n > 0
    BY KeyAt
  <2>3. QED
    BY <2>1, <2>2, NeedleTokens
<1>5. Cut(c, t)
  <2>1. 1 \in 1 .. Len(Needle[g]) /\ \A k \in 1 .. Len(Needle[g]) : t[1 + k - 1] = Needle[g][k]
    BY KeyAt
  <2>2. t[1] = Needle[g][1]
    BY <2>1
  <2>3. QED
    BY <1>1, <1>4, <2>2, CutBeforeKey
<1> HIDE DEF c, n, w
<1>6. body \in Seq(Tokens) /\ Len(body) = Len(c) + Len(t) /\ \A i \in 1 .. Len(c) : body[i] = c[i]
  <2>1. body = c \o t
    BY DEF c
  <2>2. c \in Seq(Tokens)
    BY <1>1
  <2>3. /\ c \o t \in Seq(Tokens) /\ Len(c \o t) = Len(c) + Len(t)
        /\ \A i \in 1 .. Len(c) : (c \o t)[i] = c[i]
    BY <2>2, Joined, Zenon
  <2>4. QED
    BY <2>1, <2>3
<1>7. ASSUME NEW h \in DOMAIN Needle, NEW i \in Occurrences(body, Needle[h])
      PROVE  \/ i \in Occurrences(p, Needle[h])
             \/ h = f /\ i = a + 1
             \/ i >= e
  <2>1. i \in Occurrences(c, Needle[h]) \/ (i - Len(c) \in Occurrences(t, Needle[h]) /\ i \in Nat)
    BY <1>1, <1>5, CutOccurrences DEF c
  <2>2. CASE i \in Occurrences(c, Needle[h])
    BY <1>1, <2>2, Zenon
  <2>3. CASE i - Len(c) \in Occurrences(t, Needle[h]) /\ i \in Nat
    <3>1. i - Len(c) \in 1 .. Len(t)
      BY <2>3, KeyAt
    <3>2. Len(c) \in Nat
      BY <1>1
    <3>3. QED
      BY <2>3, <3>1, <3>2
  <2>4. QED
    BY <2>1, <2>2, <2>3
<1>8. a + 1 \in Occurrences(body, Needle[f]) /\ e \in Occurrences(body, Needle[g])
  <2>1. a + 1 \in Occurrences(c \o t, Needle[f])
    BY <1>1, <1>5, CutOccurrences
  <2>2. Len(c) + 1 \in Occurrences(c \o t, Needle[g])
    BY <1>1, <1>5, CutOccurrences
  <2>3. QED
    BY <2>1, <2>2 DEF c
<1>9. e \in Nat /\ e = a + n + Len(v) + 2 /\ e <= Len(body) + 1 /\ Len(c) = a + n + Len(v) + 1
  <2>1. Len(c) = Len(p) + (n + Len(v) + 1)
    BY <1>1, <1>2, Zenon
  <2>2. Len(body) = Len(c) + Len(t)
    BY <1>6
  <2>3. QED
    BY <1>4, <2>1, <2>2
<1>10. Occurrences(p, Needle[f]) = {} /\ Occurrences(p, Needle[g]) = {}
  BY DEF Keys
<1>11. f \in Keys(body) /\ Find(body, f) = a + 1
  <2>1. \A i \in Occurrences(body, Needle[f]) : i = a + 1 \/ i >= e
    BY <1>7, <1>10, Zenon
  <2>2. Occurrences(body, Needle[f]) \in SUBSET Nat
    <3>1. \A i \in Occurrences(body, Needle[f]) : i \in 1 .. Len(body)
      BY <1>6, KeyAt, Zenon
    <3>2. \A i \in 1 .. Len(body) : i \in Nat
      OBVIOUS
    <3>3. QED
      BY <3>1, <3>2, Zenon
  <2>3. \A i \in Occurrences(body, Needle[f]) : a + 1 <= i
    <3>1. a \in Nat /\ e \in Nat /\ a + 1 <= e
      BY <1>4, <1>9
    <3> HIDE DEF a, e
    <3>2. \A i \in Nat : i = a + 1 \/ i >= e => a + 1 <= i
      BY <3>1
    <3>3. QED
      BY <2>1, <2>2, <3>2, Zenon
  <2>4. QED
    BY <1>6, <1>8, <2>3, FindIs, Zenon
<1>12. g \in Keys(body) /\ Find(body, g) = e
  <2>1. \A i \in Occurrences(body, Needle[g]) : e <= i
    BY <1>4, <1>7, <1>9, <1>10
  <2>2. QED
    BY <1>6, <1>8, <2>1, FindIs, Zenon
<1> HIDE DEF e, a
<1>13. ASSUME NEW h \in Keys(body), Find(body, h) > Find(body, f)
       PROVE  e <= Find(body, h)
  <2>1. h \in DOMAIN Needle /\ Find(body, h) \in Occurrences(body, Needle[h]) /\ Find(body, h) \in Nat
    <3>1. body \in Seq(Tokens)
      BY <1>6
    <3>2. /\ h \in DOMAIN Needle /\ Find(body, h) \in Occurrences(body, Needle[h])
          /\ Find(body, h) \in 1 .. Len(body)
      BY <3>1, HitParts, Zenon
    <3>3. QED
      BY <3>2
  <2>2. ~(Find(body, h) \in Occurrences(p, Needle[h]))
    <3>1. Find(body, h) \in Occurrences(p, Needle[h]) => Find(body, h) \in 1 .. Len(p)
      BY <2>1, KeyAt
    <3>2. QED
      BY <1>4, <1>11, <1>13, <3>1 DEF a
  <2>3. Find(body, h) # a + 1
    BY <1>4, <1>11, <1>13, <2>1 DEF a
  <2>4. Find(body, h) >= e
    BY <1>7, <2>1, <2>2, <2>3, Zenon
  <2>5. QED
    BY <1>9, <2>1, <2>4
<1>14. Least(Ends(body, f)) = e
  <2>1. e \in Ends(body, f)
    <3>1. Find(body, g) > Find(body, f)
      BY <1>4, <1>9, <1>11, <1>12 DEF a
    <3>2. QED
      BY <1>12, <3>1 DEF Ends
  <2>2. QED
    BY <1>6, <1>9, <1>11, <1>13, <2>1, EndIs, Zenon
<1>15. SubSeq(body, a + 1 + n, e - 1) = w
  <2> DEFINE from == a + 1 + n
             to == e - 1
  <2>1. /\ a \in Nat /\ n \in Nat /\ Len(v) \in Nat /\ Len(w) = Len(v) + 1 /\ e = a + n + Len(v) + 2
        /\ e <= Len(body) + 1 /\ Len(c) = a + n + Len(v) + 1 /\ Len(Field(f, v)) = n + Len(v) + 1
    BY <1>2, <1>3, <1>4, <1>9, Zenon DEF a
  <2>2. body \in Seq(Tokens) /\ w \in Seq(Tokens) /\ Len(body) \in Nat
    BY <1>3, <1>6
  <2>3. ASSUME NEW k \in 1 .. Len(w)
        PROVE  body[from + k - 1] = w[k]
    <3>1. /\ from + k - 1 = a + (n + k) /\ n + k \in 1 .. Len(Field(f, v))
          /\ a + (n + k) \in 1 .. Len(c)
      BY <2>1
    <3>2. c[a + (n + k)] = Field(f, v)[n + k]
      <4> DEFINE u == Field(f, v)
      <4>1. u \in Seq(Tokens) /\ p \in Seq(Tokens) /\ n + k \in 1 .. Len(u)
        BY <1>2, <3>1, Zenon
      <4> HIDE DEF u
      <4>2. \A i \in 1 .. Len(u) : (p \o u)[Len(p) + i] = u[i]
        BY <4>1, Joined, Zenon
      <4>3. QED
        BY <4>1, <4>2, Zenon DEF c, a, u
    <3>3. Field(f, v)[n + k] = w[k]
      <4>1. Needle[f] \in Seq(Tokens) /\ w \in Seq(Tokens)
        BY <1>3, <1>4, Zenon
      <4>2. \A i \in 1 .. Len(w) : (Needle[f] \o w)[Len(Needle[f]) + i] = w[i]
        BY <4>1, Joined, Zenon
      <4>3. QED
        BY <1>2, <4>2, Zenon DEF n
    <3>4. QED
      BY <1>6, <3>1, <3>2, <3>3
  <2>4. from \in 1 .. Len(body) + 1 /\ to \in 0 .. Len(body) /\ to - from + 1 = Len(w)
    BY <2>1, <2>2
  <2> HIDE DEF from, to
  <2>5. IsPiece(body, w, from, to)
    BY <2>2, <2>3, <2>4, Zenon DEF IsPiece
  <2>6. SubSeq(body, from, to) = w
    BY <2>5, Piece, Zenon
  <2>7. QED
    BY <2>6 DEF from, to
<1>16. ValueOf(body, f) = v
  <2>1. Trim(w) = v
    BY TrimValue DEF w
  <2>2. QED
    BY <1>11, <1>14, <1>15, <2>1, Zenon DEF ValueOf, n
<1>17. QED
  BY <1>11, <1>16, Zenon DEF ReadsAs

\* The last field is read back whatever it holds: the other keys have all
\* occurred before it.
LEMMA LastValueIs ==
  ASSUME NEW p \in Seq(Tokens), NEW f \in DOMAIN Needle, NEW v \in Seq(Tokens), Trimmed(v),
         Keys(p) = DOMAIN Needle \ {f}, NEW body, body = p \o (Needle[f] \o v)
  PROVE  /\ body \in Seq(Tokens) /\ f \in Keys(body) /\ ValueOf(body, f) = v
         /\ Needle[f] \o v \in Seq(Tokens) /\ 1 \in Occurrences(Needle[f] \o v, Needle[f])
<1> DEFINE t == Needle[f] \o v
           n == Len(Needle[f])
           a == Len(p)
<1>1. Needle[f] \in Seq(Tokens) /\ n \in Nat /\ n > 0 /\ a \in Nat /\ Len(v) \in Nat
  BY NeedleTokens, KeyAt
<1>2. /\ t \in Seq(Tokens) /\ Len(t) = n + Len(v)
      /\ \A i \in 1 .. n : t[i] = Needle[f][i]
      /\ \A i \in 1 .. Len(v) : t[n + i] = v[i]
  BY <1>1, Joined, Zenon
<1> HIDE DEF t, n
<1>3. body = p \o t
  BY DEF t
<1>4. /\ body \in Seq(Tokens) /\ Len(body) = a + Len(t)
      /\ \A i \in 1 .. Len(t) : body[a + i] = t[i]
  <2>1. /\ p \o t \in Seq(Tokens) /\ Len(p \o t) = a + Len(t)
        /\ \A i \in 1 .. Len(t) : (p \o t)[a + i] = t[i]
    BY <1>2, Joined, Zenon
  <2>2. QED
    BY <1>3, <2>1
<1>5. 1 \in Occurrences(t, Needle[f]) /\ Len(t) > 0 /\ t[1] = Needle[f][1]
  <2>1. 1 \in 1 .. Len(t) /\ 1 + n - 1 <= Len(t) /\ 1 \in 1 .. n
    BY <1>1, <1>2
  <2>2. ASSUME NEW k \in 1 .. n
        PROVE  t[1 + k - 1] = Needle[f][k]
    <3>1. 1 + k - 1 = k
      BY <1>1
    <3>2. QED
      BY <1>2, <3>1
  <2>3. 1 \in Occurrences(t, Needle[f])
    BY <1>2, <2>1, <2>2, KeyAt, Zenon DEF n
  <2>4. QED
    BY <1>1, <1>2, <2>1, <2>3
<1>6. Cut(p, t)
  BY <1>2, <1>5, CutBeforeKey, Zenon
<1>7. f \in Keys(body) /\ Find(body, f) = a + 1
  <2>1. a + 1 \in Occurrences(body, Needle[f])
    BY <1>2, <1>3, <1>5, <1>6, CutOccurrences, Zenon
  <2>2. ASSUME NEW i \in Occurrences(body, Needle[f])
        PROVE  a + 1 <= i
    <3>1. i \in Occurrences(p, Needle[f]) \/ (i - a \in Occurrences(t, Needle[f]) /\ i \in Nat)
      BY <1>2, <1>3, <1>6, CutOccurrences, Zenon
    <3>2. Occurrences(p, Needle[f]) = {}
      BY Zenon DEF Keys
    <3>3. i - a \in 1 .. Len(t) /\ i \in Nat
      BY <1>2, <3>1, <3>2, KeyAt, Zenon
    <3>4. QED
      BY <1>1, <3>3
  <2>3. QED
    BY <1>4, <2>1, <2>2, FindIs, Zenon
<1>8. ASSUME NEW g \in Keys(body)
      PROVE  ~(Find(body, g) > Find(body, f))
  <2>1. CASE g = f
    BY <1>1, <1>7, <2>1
  <2>2. CASE g # f
    <3>1. g \in Keys(p) /\ g \in DOMAIN Needle
      BY <2>2, Zenon DEF Keys
    <3>2. Find(p, g) \in Occurrences(p, Needle[g]) /\ Find(p, g) \in 1 .. Len(p)
      BY <3>1, HitParts, Zenon
    <3>3. Find(p, g) \in Occurrences(body, Needle[g])
      BY <1>2, <1>3, <1>6, <3>1, <3>2, CutOccurrences, Zenon
    <3>4. Find(body, g) <= Find(p, g) /\ Find(body, g) \in 1 .. Len(body)
      BY <1>4, <3>1, <3>3, FindFinds, Zenon
    <3>5. Len(body) \in Nat
      BY <1>4
    <3> DEFINE x == Find(body, g)
               y == Find(p, g)
    <3>6. x <= y /\ x \in Nat /\ y \in Nat /\ y <= a /\ Find(body, f) = a + 1
      BY <1>1, <1>7, <3>2, <3>4, <3>5
    <3> HIDE DEF x, y
    <3>7. ~(x > a + 1)
      BY <1>1, <3>6
    <3>8. QED
      BY <3>6, <3>7 DEF x
  <2>3. QED
    BY <2>1, <2>2
<1>9. Least(Ends(body, f)) = Len(body) + 1
  <2>1. Len(body) + 1 \in Ends(body, f)
    BY Zenon DEF Ends
  <2>2. Len(body) + 1 <= Len(body) + 1
    BY <1>4
  <2>3. QED
    BY <1>4, <1>7, <1>8, <2>1, <2>2, EndIs, Zenon
<1>10. SubSeq(body, a + 1 + n, (Len(body) + 1) - 1) = v
  <2> DEFINE from == a + 1 + n
             to == (Len(body) + 1) - 1
  <2>1. from \in 1 .. Len(body) + 1 /\ to \in 0 .. Len(body) /\ to - from + 1 = Len(v) /\ Len(body) \in Nat
    <3>1. Len(body) = a + (n + Len(v)) /\ n \in Nat /\ a \in Nat /\ Len(v) \in Nat
      BY <1>1, <1>2, <1>4, Zenon
    <3> HIDE DEF a
    <3>2. QED
      BY <3>1
  <2>2. ASSUME NEW k \in 1 .. Len(v)
        PROVE  body[from + k - 1] = v[k]
    <3>1. from + k - 1 = a + (n + k) /\ n + k \in 1 .. Len(t)
      BY <1>1, <1>2
    <3>2. body[a + (n + k)] = t[n + k] /\ t[n + k] = v[k]
      BY <1>2, <1>4, <3>1, Zenon
    <3>3. QED
      BY <3>1, <3>2
  <2> HIDE DEF from, to
  <2>3. IsPiece(body, v, from, to)
    BY <1>4, <2>1, <2>2, Zenon DEF IsPiece
  <2>4. SubSeq(body, from, to) = v
    BY <2>3, Piece, Zenon
  <2>5. QED
    BY <2>4 DEF from, to
<1>11. ValueOf(body, f) = v
  <2>1. Trim(v) = v
    BY TrimValue, Zenon
  <2>2. SubSeq(body, Find(body, f) + n, Least(Ends(body, f)) - 1) = v
    BY <1>7, <1>9, <1>10, Zenon
  <2>3. QED
    BY <2>1, <2>2, Zenon DEF ValueOf, n
<1>12. QED
  BY <1>2, <1>4, <1>5, <1>7, <1>11 DEF t

\* The same text, cut before its last field but one.
LEMMA StepBack ==
  ASSUME NEW p \in Seq(Tokens), NEW f \in DOMAIN Needle, NEW v, Carried(v), NEW t, NEW g, Headed(t, g)
  PROVE  (p \o Field(f, v)) \o t = p \o (Field(f, v) \o t) /\ Headed(Field(f, v) \o t, f)
<1>a. /\ v \in Seq(Tokens) /\ Keyless(v)
      /\ t \in Seq(Tokens) /\ g \in DOMAIN Needle /\ 1 \in Occurrences(t, Needle[g])
  BY DEF Carried, Headed
<1> USE <1>a
<1> DEFINE u == Field(f, v)
<1>1. u \in Seq(Tokens) /\ 1 \in Occurrences(u, Needle[f])
  BY FieldParts, Zenon
<1> HIDE DEF u
<1>2. Cut(u, t)
  <2>1. 1 \in 1 .. Len(t) /\ \A k \in 1 .. Len(Needle[g]) : t[1 + k - 1] = Needle[g][k]
    BY KeyAt
  <2>2. 1 \in 1 .. Len(Needle[g]) /\ Len(t) > 0
    BY <2>1, KeyAt
  <2>3. t[1] = Needle[g][1]
    BY <2>1, <2>2
  <2>4. QED
    BY <1>1, <2>2, <2>3, CutBeforeKey, Zenon
<1>3. 1 \in Occurrences(u \o t, Needle[f])
  BY <1>1, <1>2, CutOccurrences, Zenon
<1>4. (p \o u) \o t = p \o (u \o t)
  BY <1>1, ConcatAssociative
<1>5. u \o t \in Seq(Tokens)
  BY <1>1, Joined
<1>6. QED
  BY <1>3, <1>4, <1>5 DEF u, Headed

\* A word that begins no key is no key.
LEMMA KeylessWord ==
  ASSUME NEW w \in Tokens, \A f \in DOMAIN Needle : w # Needle[f][1]
  PROVE  <<w>> \in Seq(Tokens) /\ Keyless(<<w>>)
<1>1. <<w>> \in Seq(Tokens) /\ Len(<<w>>) = 1 /\ <<w>>[1] = w
  BY ShortTexts, Zenon
<1>2. ASSUME NEW f \in DOMAIN Needle, NEW i \in Occurrences(<<w>>, Needle[f])
      PROVE  FALSE
  <2> DEFINE s == <<w>>
  <2>1. s \in Seq(Tokens) /\ Len(s) = 1 /\ s[1] = w
    BY <1>1
  <2> HIDE DEF s
  <2>2. i \in Occurrences(s, Needle[f])
    BY DEF s
  <2>3. i \in 1 .. 1 /\ \A k \in 1 .. Len(Needle[f]) : s[i + k - 1] = Needle[f][k]
    BY <2>1, <2>2, KeyAt
  <2>4. 1 \in 1 .. Len(Needle[f]) /\ i = 1
    <3>1. Len(Needle[f]) \in Nat /\ Len(Needle[f]) > 0
      BY <2>1, KeyAt, Zenon
    <3>2. QED
      BY <2>3, <3>1
  <2>5. s[1] = Needle[f][1]
    BY <2>3, <2>4
  <2>6. QED
    BY <2>1, <2>5
<1>3. QED
  BY <1>1, <1>2 DEF Keyless

\* The values the gateway fills in are such values.
LEMMA Defaults ==
  Carried(<<>>) /\ Carried(<<"UNKNOWN">>) /\ Carried(<<"000">>) /\ Carried(<<"001">>)
<1>1. ASSUME NEW f \in DOMAIN Needle
      PROVE  Needle[f][1] \in {"submit", "done", "dlvrd:", "stat:", "text:", "sub:", "err:", "id:"}
  BY NeedleTokens, NeedleNames
<1>2. ASSUME NEW w \in {"UNKNOWN", "000", "001"}
      PROVE  Carried(<<w>>)
  <2>1. w \in Tokens
    BY DEF Tokens
  <2>2. \A f \in DOMAIN Needle : w # Needle[f][1]
    BY <1>1
  <2>3. <<w>> \in Seq(Tokens) /\ Keyless(<<w>>)
    BY <2>1, <2>2, KeylessWord, Zenon
  <2>4. <<w>>[1] = w /\ Len(<<w>>) = 1
    OBVIOUS
  <2>5. w # " "
    OBVIOUS
  <2>6. Trimmed(<<w>>)
    BY <2>4, <2>5 DEF Trimmed, Blank
  <2>7. QED
    BY <2>3, <2>6 DEF Carried
<1>3. Carried(<<>>)
  <2>1. <<>> \in Seq(Tokens) /\ Len(<<>>) = 0
    OBVIOUS
  <2>2. Trimmed(<<>>)
    BY <2>1 DEF Trimmed
  <2>3. Keyless(<<>>)
    <3>1. ASSUME NEW f \in DOMAIN Needle, NEW i \in Occurrences(<<>>, Needle[f])
          PROVE  FALSE
      <4>1. i \in 1 .. Len(<<>>)
        BY <2>1, KeyAt, Zenon
      <4>2. QED
        BY <2>1, <4>1
    <3>2. QED
      BY <3>1 DEF Keyless
  <2>4. QED
    BY <2>1, <2>2, <2>3 DEF Carried
<1>4. QED
  BY <1>2, <1>3

\* The body the gateway rebuilds, from values it can carry.
RebuiltFrom(body, our, sdate, ddate, stat, err, text) ==
  /\ Carried(our) /\ Carried(sdate) /\ Carried(ddate) /\ Carried(stat) /\ Carried(err)
  /\ text \in Seq(Tokens) /\ Trimmed(text)
  /\ body = Field("id", our) \o Field("sub", <<"001">>) \o Field("dlvrd", <<"001">>)
               \o Field("submit_date", sdate) \o Field("done_date", ddate)
               \o Field("stat", stat) \o Field("err", err) \o (Needle.text \o text)

\* That body, read by the ESME's parser.
LEMMA RebuiltReads ==
  ASSUME NEW our, NEW sdate, NEW ddate, NEW stat, NEW err, NEW text, NEW body,
         RebuiltFrom(body, our, sdate, ddate, stat, err, text)
  PROVE  /\ body \in Seq(Tokens)
         /\ ReadsAs(body, "id", our) /\ ReadsAs(body, "submit_date", sdate) /\ ReadsAs(body, "done_date", ddate)
         /\ ReadsAs(body, "stat", stat) /\ ReadsAs(body, "err", err) /\ ReadsAs(body, "text", text)
<1> DEFINE one == <<"001">>
           p0 == <<>>
           p1 == p0 \o Field("id", our)
           p2 == p1 \o Field("sub", one)
           p3 == p2 \o Field("dlvrd", one)
           p4 == p3 \o Field("submit_date", sdate)
           p5 == p4 \o Field("done_date", ddate)
           p6 == p5 \o Field("stat", stat)
           p7 == p6 \o Field("err", err)
           t8 == Needle["text"] \o text
           t7 == Field("err", err) \o t8
           t6 == Field("stat", stat) \o t7
           t5 == Field("done_date", ddate) \o t6
           t4 == Field("submit_date", sdate) \o t5
           t3 == Field("dlvrd", one) \o t4
           t2 == Field("sub", one) \o t3
<1>1. /\ our \in Seq(Tokens) /\ Keyless(our) /\ Trimmed(our)
      /\ sdate \in Seq(Tokens) /\ Keyless(sdate) /\ Trimmed(sdate)
      /\ ddate \in Seq(Tokens) /\ Keyless(ddate) /\ Trimmed(ddate)
      /\ stat \in Seq(Tokens) /\ Keyless(stat) /\ Trimmed(stat)
      /\ err \in Seq(Tokens) /\ Keyless(err) /\ Trimmed(err)
      /\ one \in Seq(Tokens) /\ Keyless(one)
      /\ text \in Seq(Tokens) /\ Trimmed(text)
  BY Defaults DEF Carried, RebuiltFrom
<1> HIDE DEF one
<1>b. Carried(our) /\ Carried(sdate) /\ Carried(ddate) /\ Carried(stat) /\ Carried(err) /\ Carried(one)
  BY Defaults DEF RebuiltFrom, one
<1>2. p0 \in Seq(Tokens) /\ Keys(p0) = {}
  BY Defaults DEF Carried, Keyless, Keys
<1>3. body = p7 \o t8
  <2>1. p0 \o Field("id", our) = Field("id", our)
    <3>1. Field("id", our) \in Seq(Tokens)
      BY <1>1, FieldParts, NeedleNames
    <3>2. QED
      BY <3>1
  <2>2. Needle.text = Needle["text"]
    OBVIOUS
  <2>3. QED
    BY <2>1, <2>2, Zenon DEF one, RebuiltFrom
<1> HIDE DEF p0
<1>4. /\ "id" \in DOMAIN Needle
      /\ "sub" \in DOMAIN Needle
      /\ "dlvrd" \in DOMAIN Needle
      /\ "submit_date" \in DOMAIN Needle
      /\ "done_date" \in DOMAIN Needle
      /\ "stat" \in DOMAIN Needle
      /\ "err" \in DOMAIN Needle
      /\ "text" \in DOMAIN Needle
  BY NeedleNames
<1>5. p1 \in Seq(Tokens) /\ Keys(p1) = Keys(p0) \cup {"id"}
  BY <1>1, <1>2, <1>4, KeysOfPrefix, Zenon
<1> HIDE DEF p1
<1>6. p2 \in Seq(Tokens) /\ Keys(p2) = Keys(p1) \cup {"sub"}
  BY <1>1, <1>5, <1>4, KeysOfPrefix, Zenon
<1> HIDE DEF p2
<1>7. p3 \in Seq(Tokens) /\ Keys(p3) = Keys(p2) \cup {"dlvrd"}
  BY <1>1, <1>6, <1>4, KeysOfPrefix, Zenon
<1> HIDE DEF p3
<1>8. p4 \in Seq(Tokens) /\ Keys(p4) = Keys(p3) \cup {"submit_date"}
  BY <1>1, <1>7, <1>4, KeysOfPrefix, Zenon
<1> HIDE DEF p4
<1>9. p5 \in Seq(Tokens) /\ Keys(p5) = Keys(p4) \cup {"done_date"}
  BY <1>1, <1>8, <1>4, KeysOfPrefix, Zenon
<1> HIDE DEF p5
<1>10. p6 \in Seq(Tokens) /\ Keys(p6) = Keys(p5) \cup {"stat"}
  BY <1>1, <1>9, <1>4, KeysOfPrefix, Zenon
<1> HIDE DEF p6
<1>11. p7 \in Seq(Tokens) /\ Keys(p7) = Keys(p6) \cup {"err"}
  BY <1>1, <1>10, <1>4, KeysOfPrefix, Zenon
<1> HIDE DEF p7
<1>12. Keys(p7) = DOMAIN Needle \ {"text"}
  BY <1>2, <1>5, <1>6, <1>7, <1>8, <1>9, <1>10, <1>11, NeedleNames
<1>13. /\ body \in Seq(Tokens) /\ "text" \in Keys(body) /\ ValueOf(body, "text") = text
       /\ Headed(t8, "text")
  <2>1. text \in Seq(Tokens) /\ Trimmed(text) /\ p7 \in Seq(Tokens) /\ "text" \in DOMAIN Needle
    BY <1>1, <1>4, <1>11, Zenon
  <2> DEFINE b == p7 \o (Needle["text"] \o text)
  <2>2. /\ b \in Seq(Tokens) /\ "text" \in Keys(b) /\ ValueOf(b, "text") = text
        /\ t8 \in Seq(Tokens) /\ 1 \in Occurrences(t8, Needle["text"])
    BY <1>12, <2>1, LastValueIs, Zenon
  <2>3. body = b
    BY <1>3
  <2> HIDE DEF b
  <2>4. QED
    BY <1>4, <2>2, <2>3, Zenon DEF Headed
<1> HIDE DEF t8
<1>14. body = p6 \o t7 /\ Headed(t7, "err")
  <2> DEFINE u == Field("err", err)
  <2>1. body = (p6 \o u) \o t8
    BY <1>3, Zenon DEF p7
  <2>2. /\ p6 \in Seq(Tokens) /\ "err" \in DOMAIN Needle /\ Carried(err) /\ Headed(t8, "text")
    BY <1>b, <1>4, <1>10, <1>13, Zenon
  <2>3. (p6 \o u) \o t8 = p6 \o (u \o t8) /\ Headed(u \o t8, "err")
    BY <2>2, StepBack
  <2>4. QED
    BY <2>1, <2>3, Zenon
<1> HIDE DEF t7
<1>15. body = p5 \o t6 /\ Headed(t6, "stat")
  <2> DEFINE u == Field("stat", stat)
  <2>1. body = (p5 \o u) \o t7
    BY <1>14, Zenon DEF p6
  <2>2. /\ p5 \in Seq(Tokens) /\ "stat" \in DOMAIN Needle /\ Carried(stat) /\ Headed(t7, "err")
    BY <1>b, <1>4, <1>9, <1>14, Zenon
  <2>3. (p5 \o u) \o t7 = p5 \o (u \o t7) /\ Headed(u \o t7, "stat")
    BY <2>2, StepBack
  <2>4. QED
    BY <2>1, <2>3, Zenon
<1> HIDE DEF t6
<1>16. body = p4 \o t5 /\ Headed(t5, "done_date")
  <2> DEFINE u == Field("done_date", ddate)
  <2>1. body = (p4 \o u) \o t6
    BY <1>15, Zenon DEF p5
  <2>2. /\ p4 \in Seq(Tokens) /\ "done_date" \in DOMAIN Needle /\ Carried(ddate) /\ Headed(t6, "stat")
    BY <1>b, <1>4, <1>8, <1>15, Zenon
  <2>3. (p4 \o u) \o t6 = p4 \o (u \o t6) /\ Headed(u \o t6, "done_date")
    BY <2>2, StepBack
  <2>4. QED
    BY <2>1, <2>3, Zenon
<1> HIDE DEF t5
<1>17. body = p3 \o t4 /\ Headed(t4, "submit_date")
  <2> DEFINE u == Field("submit_date", sdate)
  <2>1. body = (p3 \o u) \o t5
    BY <1>16, Zenon DEF p4
  <2>2. /\ p3 \in Seq(Tokens) /\ "submit_date" \in DOMAIN Needle /\ Carried(sdate) /\ Headed(t5, "done_date")
    BY <1>b, <1>4, <1>7, <1>16, Zenon
  <2>3. (p3 \o u) \o t5 = p3 \o (u \o t5) /\ Headed(u \o t5, "submit_date")
    BY <2>2, StepBack
  <2>4. QED
    BY <2>1, <2>3, Zenon
<1> HIDE DEF t4
<1>18. body = p2 \o t3 /\ Headed(t3, "dlvrd")
  <2> DEFINE u == Field("dlvrd", one)
  <2>1. body = (p2 \o u) \o t4
    BY <1>17, Zenon DEF p3
  <2>2. /\ p2 \in Seq(Tokens) /\ "dlvrd" \in DOMAIN Needle /\ Carried(one) /\ Headed(t4, "submit_date")
    BY <1>b, <1>4, <1>6, <1>17, Zenon
  <2>3. (p2 \o u) \o t4 = p2 \o (u \o t4) /\ Headed(u \o t4, "dlvrd")
    BY <2>2, StepBack
  <2>4. QED
    BY <2>1, <2>3, Zenon
<1> HIDE DEF t3
<1>19. body = p1 \o t2 /\ Headed(t2, "sub")
  <2> DEFINE u == Field("sub", one)
  <2>1. body = (p1 \o u) \o t3
    BY <1>18, Zenon DEF p2
  <2>2. /\ p1 \in Seq(Tokens) /\ "sub" \in DOMAIN Needle /\ Carried(one) /\ Headed(t3, "dlvrd")
    BY <1>b, <1>4, <1>5, <1>18, Zenon
  <2>3. (p1 \o u) \o t3 = p1 \o (u \o t3) /\ Headed(u \o t3, "sub")
    BY <2>2, StepBack
  <2>4. QED
    BY <2>1, <2>3, Zenon
<1> HIDE DEF t2
<1>20. ReadsAs(body, "id", our)
  <2>1. "id" \notin Keys(p0) /\ "sub" \notin Keys(p0) /\ "sub" # "id"
    BY <1>2
  <2>2. body = (p0 \o Field("id", our)) \o t2
    BY <1>19, Zenon DEF p1
  <2>3. Room(p0, "id", "sub") /\ Carried(our) /\ Headed(t2, "sub")
    BY <1>b, <1>4, <1>2, <1>19, <2>1, Zenon DEF Room
  <2> DEFINE b == (p0 \o Field("id", our)) \o t2
  <2>4. ReadsAs(b, "id", our)
    BY <2>3, ValueIs, Zenon
  <2>5. QED
    BY <2>2, <2>4, Zenon
<1>21. ReadsAs(body, "submit_date", sdate)
  <2>1. "submit_date" \notin Keys(p3) /\ "done_date" \notin Keys(p3) /\ "done_date" # "submit_date"
    BY <1>2, <1>5, <1>6, <1>7
  <2>2. body = (p3 \o Field("submit_date", sdate)) \o t5
    BY <1>16, Zenon DEF p4
  <2>3. Room(p3, "submit_date", "done_date") /\ Carried(sdate) /\ Headed(t5, "done_date")
    BY <1>b, <1>4, <1>7, <1>16, <2>1, Zenon DEF Room
  <2> DEFINE b == (p3 \o Field("submit_date", sdate)) \o t5
  <2>4. ReadsAs(b, "submit_date", sdate)
    BY <2>3, ValueIs, Zenon
  <2>5. QED
    BY <2>2, <2>4, Zenon
<1>22. ReadsAs(body, "done_date", ddate)
  <2>1. "done_date" \notin Keys(p4) /\ "stat" \notin Keys(p4) /\ "stat" # "done_date"
    BY <1>2, <1>5, <1>6, <1>7, <1>8
  <2>2. body = (p4 \o Field("done_date", ddate)) \o t6
    BY <1>15, Zenon DEF p5
  <2>3. Room(p4, "done_date", "stat") /\ Carried(ddate) /\ Headed(t6, "stat")
    BY <1>b, <1>4, <1>8, <1>15, <2>1, Zenon DEF Room
  <2> DEFINE b == (p4 \o Field("done_date", ddate)) \o t6
  <2>4. ReadsAs(b, "done_date", ddate)
    BY <2>3, ValueIs, Zenon
  <2>5. QED
    BY <2>2, <2>4, Zenon
<1>23. ReadsAs(body, "stat", stat)
  <2>1. "stat" \notin Keys(p5) /\ "err" \notin Keys(p5) /\ "err" # "stat"
    BY <1>2, <1>5, <1>6, <1>7, <1>8, <1>9
  <2>2. body = (p5 \o Field("stat", stat)) \o t7
    BY <1>14, Zenon DEF p6
  <2>3. Room(p5, "stat", "err") /\ Carried(stat) /\ Headed(t7, "err")
    BY <1>b, <1>4, <1>9, <1>14, <2>1, Zenon DEF Room
  <2> DEFINE b == (p5 \o Field("stat", stat)) \o t7
  <2>4. ReadsAs(b, "stat", stat)
    BY <2>3, ValueIs, Zenon
  <2>5. QED
    BY <2>2, <2>4, Zenon
<1>24. ReadsAs(body, "err", err)
  <2>1. "err" \notin Keys(p6) /\ "text" \notin Keys(p6) /\ "text" # "err"
    BY <1>2, <1>5, <1>6, <1>7, <1>8, <1>9, <1>10
  <2>2. body = (p6 \o Field("err", err)) \o t8
    BY <1>3, Zenon DEF p7
  <2>3. Room(p6, "err", "text") /\ Carried(err) /\ Headed(t8, "text")
    BY <1>b, <1>4, <1>10, <1>13, <1>3, <2>1, Zenon DEF Room
  <2> DEFINE b == (p6 \o Field("err", err)) \o t8
  <2>4. ReadsAs(b, "err", err)
    BY <2>3, ValueIs, Zenon
  <2>5. QED
    BY <2>2, <2>4, Zenon
<1>25. QED
  BY <1>13, <1>20, <1>21, <1>22, <1>23, <1>24 DEF ReadsAs

\* A value the parser reads is a text it has trimmed.
LEMMA ValueTrimmed ==
  ASSUME NEW body \in Seq(Tokens), NEW f \in Keys(body)
  PROVE  ValueOf(body, f) \in Seq(Tokens) /\ Trimmed(ValueOf(body, f))
<1> DEFINE a == Find(body, f) + Len(Needle[f])
           b == Least(Ends(body, f))
<1>1. /\ Find(body, f) \in 1 .. Len(body) /\ Len(Needle[f]) \in Nat /\ Len(body) \in Nat
      /\ \A g \in Keys(body) : Find(body, g) \in 1 .. Len(body)
  BY HitParts, Zenon
<1>2. Ends(body, f) \in SUBSET Nat /\ Len(body) + 1 \in Ends(body, f)
  <2>1. \A g \in Keys(body) : Find(body, g) \in Nat
    BY <1>1
  <2>2. Len(body) + 1 \in Nat
    BY <1>1
  <2>3. QED
    BY <2>1, <2>2, Zenon DEF Ends
<1>3. b \in Nat /\ b <= Len(body) + 1
  BY <1>2, LeastIsLeast, Zenon
<1>4. a \in Nat /\ a >= 1 /\ b - 1 \in Int /\ b - 1 <= Len(body)
  BY <1>1, <1>3
<1> HIDE DEF a, b
<1>5. SubSeq(body, a, b - 1) \in Seq(Tokens)
  <2> DEFINE c == b - 1
  <2>1. c \in Int /\ c <= Len(body)
    BY <1>4
  <2> HIDE DEF c
  <2>2. SubSeq(body, a, c) \in Seq(Tokens)
    BY <1>1, <1>4, <2>1
  <2>3. QED
    BY <2>2 DEF c
<1>6. QED
  BY <1>5, TrimTrims, Zenon DEF ValueOf, a, b

\* Pdu.receipt: what the text says, and what the optional parameters say.
TextOf(pdu) ==
  IF Parse(pdu.body) # None THEN Parse(pdu.body)
  ELSE IF pdu.id # {} \/ pdu.state # {} THEN [raw |-> pdu.body] ELSE None

OptionKeys(pdu) ==
  {"id" : v \in pdu.id} \cup {"stat" : s \in pdu.state \cap DOMAIN StateName}
    \cup {"message_state" : s \in pdu.state}

OptionsOf(pdu) ==
  [k \in OptionKeys(pdu) |->
     CASE k = "id" -> CHOOSE v \in pdu.id : TRUE
       [] k = "stat" -> <<StateName[CHOOSE s \in pdu.state \cap DOMAIN StateName : TRUE]>>
       [] k = "message_state" -> CHOOSE s \in pdu.state : TRUE]

\* The two put together: what the text says wins.
LEMMA ReceiptIs ==
  ASSUME NEW pdu
  PROVE  ReceiptOf(pdu) = IF ~pdu.is_dlr \/ TextOf(pdu) = None THEN None
                          ELSE FillIn(TextOf(pdu), OptionsOf(pdu))
BY Zenon DEF ReceiptOf, TextOf, OptionsOf, OptionKeys

\* What the optional parameters say.
LEMMA OptionParts ==
  ASSUME NEW pdu
  PROVE  /\ DOMAIN OptionsOf(pdu) \subseteq {"id", "stat", "message_state"}
         /\ pdu.id # {} => "id" \in DOMAIN OptionsOf(pdu) /\ OptionsOf(pdu)["id"] \in pdu.id
         /\ "stat" \in DOMAIN OptionsOf(pdu) <=> pdu.state \cap DOMAIN StateName # {}
         /\ "stat" \in DOMAIN OptionsOf(pdu) =>
              \E s \in pdu.state \cap DOMAIN StateName : OptionsOf(pdu)["stat"] = <<StateName[s]>>
<1> DEFINE named == pdu.state \cap DOMAIN StateName
           o == OptionsOf(pdu)
<1>1. DOMAIN o = OptionKeys(pdu)
  BY Zenon DEF OptionsOf
<1>2. "id" # "stat" /\ "id" # "message_state" /\ "stat" # "message_state"
  OBVIOUS
<1>3. /\ OptionKeys(pdu) \subseteq {"id", "stat", "message_state"}
      /\ "id" \in OptionKeys(pdu) <=> pdu.id # {}
      /\ "stat" \in OptionKeys(pdu) <=> named # {}
  BY <1>2, Zenon DEF OptionKeys
<1>4. ASSUME pdu.id # {}
      PROVE  o["id"] \in pdu.id
  <2>1. o["id"] = CHOOSE v \in pdu.id : TRUE
    BY <1>2, <1>3, <1>4 DEF OptionsOf
  <2>2. QED
    BY <1>4, <2>1
<1>5. ASSUME named # {}
      PROVE  \E s \in named : o["stat"] = <<StateName[s]>>
  <2>1. o["stat"] = <<StateName[CHOOSE s \in named : TRUE]>>
    BY <1>2, <1>3, <1>5 DEF OptionsOf
  <2>2. (CHOOSE s \in named : TRUE) \in named
    BY <1>5
  <2>3. QED
    BY <2>1, <2>2
<1>6. QED
  BY <1>1, <1>3, <1>4, <1>5, Zenon

\* A state's name is a word that is no key.
LEMMA NamesOfStates ==
  ASSUME NEW s \in DOMAIN StateName
  PROVE  StateName[s] \in Tokens /\ StateName[s] # Blank
<1>1. DOMAIN StateName = 1 .. 8
  BY DEF StateName
<1>2. StateName[s] \in {"ENROUTE", "DELIVRD", "EXPIRED", "DELETED", "UNDELIV", "ACCEPTD", "UNKNOWN", "REJECTD"}
  BY <1>1 DEF StateName
<1>3. \A w \in {"ENROUTE", "DELIVRD", "EXPIRED", "DELETED", "UNDELIV", "ACCEPTD", "UNKNOWN", "REJECTD"} :
        w \in Tokens /\ w # " "
  BY DEF Tokens
<1>4. QED
  BY <1>2, <1>3, Zenon DEF Blank

\* The fields _route_dlr takes from a receipt are texts as the parser leaves them.
TextFields == {"submit_date", "done_date", "stat", "err", "text"}

IsRead(r) == \A f \in TextFields : f \in DOMAIN r => r[f] \in Seq(Tokens) /\ Trimmed(r[f])

\* Pdu.receipt gives such a receipt.
LEMMA ReadParts ==
  ASSUME NEW pdu, pdu.body \in Seq(Tokens), ReceiptOf(pdu) # None
  PROVE  IsRead(ReceiptOf(pdu))
<1> DEFINE body == pdu.body
           d == TextOf(pdu)
           o == OptionsOf(pdu)
<1>1. ReceiptOf(pdu) = FillIn(d, o) /\ d # None
  BY ReceiptIs, Zenon
<1>2. "raw" \notin TextFields /\ "id" \notin TextFields /\ "message_state" \notin TextFields
  BY DEF TextFields
<1>3. ASSUME NEW f \in TextFields, f \in DOMAIN d
      PROVE  d[f] \in Seq(Tokens) /\ Trimmed(d[f])
  <2>1. DOMAIN [raw |-> body] = {"raw"}
    OBVIOUS
  <2>2. Parse(body) # None /\ d = Parse(body)
    <3>1. ASSUME d = [raw |-> body] PROVE FALSE
      <4>1. DOMAIN d = {"raw"}
        BY <2>1, <3>1, Zenon
      <4>2. f = "raw"
        BY <1>3, <4>1, Zenon
      <4>3. QED
        BY <1>2, <1>3, <4>2, Zenon
    <3>2. QED
      BY <1>1, <3>1, Zenon DEF TextOf
  <2>3. f \in Keys(body) /\ d[f] = ValueOf(body, f)
    BY <1>2, <1>3, <2>2, ParseParts, Zenon
  <2>4. QED
    BY <2>3, ValueTrimmed, Zenon
<1>4. ASSUME NEW f \in TextFields, f \in DOMAIN o
      PROVE  o[f] \in Seq(Tokens) /\ Trimmed(o[f])
  <2>1. f = "stat"
    <3>1. f \in {"id", "stat", "message_state"}
      BY <1>4, OptionParts, Zenon
    <3>2. QED
      BY <1>2, <3>1
  <2>2. PICK s \in pdu.state \cap DOMAIN StateName : o[f] = <<StateName[s]>>
    BY <1>4, <2>1, OptionParts, Zenon
  <2>3. StateName[s] \in Tokens /\ StateName[s] # Blank
    BY NamesOfStates, Zenon
  <2> DEFINE w == StateName[s]
  <2> HIDE DEF w
  <2>4. w \in Tokens /\ w # Blank
    BY <2>3 DEF w
  <2>5. <<w>> \in Seq(Tokens) /\ Len(<<w>>) = 1 /\ <<w>>[1] = w
    BY <2>4, ShortTexts, Zenon
  <2>6. Trimmed(<<w>>)
    BY <2>4, <2>5 DEF Trimmed
  <2>7. QED
    BY <2>2, <2>5, <2>6, Zenon DEF w
<1> HIDE DEF d, o
<1>5. ASSUME NEW f \in TextFields, f \in DOMAIN FillIn(d, o)
      PROVE  FillIn(d, o)[f] \in Seq(Tokens) /\ Trimmed(FillIn(d, o)[f])
  <2>1. CASE f \in DOMAIN d
    <3>1. FillIn(d, o)[f] = d[f]
      BY <2>1, Zenon DEF FillIn
    <3>2. QED
      BY <1>3, <2>1, <3>1, Zenon
  <2>2. CASE f \notin DOMAIN d
    <3>1. f \in DOMAIN o /\ FillIn(d, o)[f] = o[f]
      BY <1>5, <2>2, Zenon DEF FillIn
    <3>2. QED
      BY <1>4, <3>1, Zenon
  <2>3. QED
    BY <2>1, <2>2
<1>6. QED
  BY <1>1, <1>5, Zenon DEF IsRead

\* The values _route_dlr takes, with the ones it fills in.
LEMMA TakenValues ==
  ASSUME NEW r, IsRead(r),
         \A f \in DOMAIN r \cap {"stat", "err", "submit_date", "done_date"} : Keyless(r[f])
  PROVE  /\ Carried(Get(r, "stat", <<"UNKNOWN">>)) /\ Carried(Get(r, "err", <<"000">>))
         /\ Carried(Get(r, "submit_date", <<>>)) /\ Carried(Get(r, "done_date", <<>>))
         /\ Get(r, "text", <<>>) \in Seq(Tokens) /\ Trimmed(Get(r, "text", <<>>))
<1>1. ASSUME NEW f \in {"stat", "err", "submit_date", "done_date"}, NEW default, Carried(default)
      PROVE  Carried(Get(r, f, default))
  <2>1. f \in TextFields
    BY DEF TextFields
  <2>2. QED
    BY <1>1, <2>1, Zenon DEF Get, IsRead, Carried
<1>2. "text" \in TextFields
  BY DEF TextFields
<1>3. Get(r, "text", <<>>) \in Seq(Tokens) /\ Trimmed(Get(r, "text", <<>>))
  BY <1>2, Defaults, Zenon DEF Get, IsRead, Carried
<1>4. Carried(Get(r, "stat", <<"UNKNOWN">>))
  BY <1>1, Defaults, Zenon
<1>5. Carried(Get(r, "err", <<"000">>))
  BY <1>1, Defaults, Zenon
<1>6. Carried(Get(r, "submit_date", <<>>)) /\ Carried(Get(r, "done_date", <<>>))
  BY <1>1, Defaults, Zenon
<1>7. QED
  BY <1>3, <1>4, <1>5, <1>6

\* What is sent, when it is.
LEMMA RelayedParts ==
  ASSUME NEW r, NEW our, ~TooLong(Rebuilt(r, our))
  PROVE  LET pdu == Relayed(r, our)
         IN  pdu.raised = FALSE /\ pdu.is_dlr = TRUE /\ pdu.body = Rebuilt(r, our)
BY DEF Relayed

\* The rebuilt receipt, read as the ESME reads it.
LEMMA RelayedReads ==
  ASSUME NEW r, IsRead(r), NEW our, Carried(our), ~TooLong(Rebuilt(r, our)),
         \A f \in DOMAIN r \cap {"stat", "err", "submit_date", "done_date"} : Keyless(r[f]),
         NEW q, q = ReceiptOf(Relayed(r, our))
  PROVE  /\ q["id"] = our
         /\ q["stat"] = Get(r, "stat", <<"UNKNOWN">>) /\ q["err"] = Get(r, "err", <<"000">>)
         /\ q["submit_date"] = Get(r, "submit_date", <<>>) /\ q["done_date"] = Get(r, "done_date", <<>>)
         /\ q["text"] = Get(r, "text", <<>>)
<1> DEFINE pdu == Relayed(r, our)
           body == Rebuilt(r, our)
           sdate == Get(r, "submit_date", <<>>)
           ddate == Get(r, "done_date", <<>>)
           stat == Get(r, "stat", <<"UNKNOWN">>)
           err == Get(r, "err", <<"000">>)
           text == Get(r, "text", <<>>)
<1>1. pdu.is_dlr = TRUE /\ pdu.body = body
  BY RelayedParts, Zenon
<1>2. RebuiltFrom(body, our, sdate, ddate, stat, err, text)
  <2>1. /\ Carried(our) /\ Carried(sdate) /\ Carried(ddate) /\ Carried(stat) /\ Carried(err)
        /\ text \in Seq(Tokens) /\ Trimmed(text)
    BY TakenValues, Zenon
  <2>2. QED
    BY <2>1, Zenon DEF RebuiltFrom, Rebuilt
<1> HIDE DEF body, sdate, ddate, stat, err, text
<1>3. /\ body \in Seq(Tokens)
      /\ ReadsAs(body, "id", our) /\ ReadsAs(body, "submit_date", sdate) /\ ReadsAs(body, "done_date", ddate)
      /\ ReadsAs(body, "stat", stat) /\ ReadsAs(body, "err", err) /\ ReadsAs(body, "text", text)
  BY <1>2, RebuiltReads, Zenon
<1>4. Keys(body) # {}
  BY <1>3, Zenon DEF ReadsAs
<1>5. /\ Parse(body) # None /\ DOMAIN Parse(body) = Keys(body) \cup {"raw"}
      /\ \A f \in Keys(body) : Parse(body)[f] = ValueOf(body, f)
  BY <1>3, <1>4, ParseParts, Zenon
<1> HIDE DEF pdu
<1>6. q = FillIn(Parse(body), OptionsOf(pdu))
  <2>1. TextOf(pdu) = Parse(body)
    BY <1>1, <1>5, Zenon DEF TextOf
  <2>2. q = ReceiptOf(pdu)
    BY DEF pdu
  <2>3. QED
    BY <1>1, <1>5, <2>1, <2>2, ReceiptIs, Zenon
<1>7. \A f \in Keys(body) : q[f] = ValueOf(body, f)
  BY <1>5, <1>6, Zenon DEF FillIn
<1>8. \A f, v : ReadsAs(body, f, v) => q[f] = v
  BY <1>7, Zenon DEF ReadsAs
<1>9. QED
  BY <1>3, <1>8, Zenon DEF sdate, ddate, stat, err, text

\* The rebuilt receipt, read by its optional parameters only.
LEMMA BareReads ==
  ASSUME NEW r, NEW our, ~TooLong(Rebuilt(r, our)), NEW q, q = ReceiptOf([Relayed(r, our) EXCEPT !.body = <<>>])
  PROVE  /\ q["id"] = our
         /\ (\E s \in DOMAIN StateName : Get(r, "stat", <<>>) = <<StateName[s]>>) => q["stat"] = r["stat"]
<1> DEFINE pdu == [Relayed(r, our) EXCEPT !.body = <<>>]
           state == {s \in DOMAIN StateName : Get(r, "stat", <<>>) = <<StateName[s]>>}
           d == [raw |-> <<>>]
<1>1. pdu.is_dlr = TRUE /\ pdu.body = <<>> /\ pdu.id = {our} /\ pdu.state = state
  BY DEF Relayed
<1>2. DOMAIN d = {"raw"} /\ d # None
  BY DEF None
<1>3. Parse(<<>>) = None
  <2>1. <<>> \in Seq(Tokens) /\ Keys(<<>>) = {}
    BY Defaults, Zenon DEF Carried, Keyless, Keys
  <2>2. QED
    BY <2>1, ParseParts, Zenon
<1> HIDE DEF pdu, state
<1>4. q = FillIn(d, OptionsOf(pdu))
  <2>1. TextOf(pdu) = d
    BY <1>1, <1>3, Zenon DEF TextOf
  <2>2. q = ReceiptOf(pdu)
    BY DEF pdu
  <2>3. QED
    BY <1>1, <1>2, <2>1, <2>2, ReceiptIs, Zenon
<1> HIDE DEF d
<1>5. q["id"] = our
  <2>1. "id" \in DOMAIN OptionsOf(pdu) /\ OptionsOf(pdu)["id"] \in {our}
    BY <1>1, OptionParts, Zenon
  <2>2. "id" \notin DOMAIN d
    BY <1>2
  <2>3. QED
    BY <1>4, <2>1, <2>2, Zenon DEF FillIn
<1>6. ASSUME NEW s \in DOMAIN StateName, Get(r, "stat", <<>>) = <<StateName[s]>>
      PROVE  q["stat"] = r["stat"]
  <2>1. s \in state /\ state \cap DOMAIN StateName # {}
    BY <1>6, Zenon DEF state
  <2>2. PICK k \in state : OptionsOf(pdu)["stat"] = <<StateName[k]>> /\ "stat" \in DOMAIN OptionsOf(pdu)
    BY <1>1, <2>1, OptionParts, Zenon
  <2>3. OptionsOf(pdu)["stat"] = Get(r, "stat", <<>>)
    BY <2>2, Zenon DEF state
  <2>4. "stat" \notin DOMAIN d
    BY <1>2
  <2>5. q["stat"] = OptionsOf(pdu)["stat"]
    BY <1>4, <2>2, <2>4, Zenon DEF FillIn
  <2>6. Get(r, "stat", <<>>) = r["stat"]
    <3>1. <<StateName[s]>> # <<>>
      OBVIOUS
    <3>2. QED
      BY <1>6, <3>1, Zenon DEF Get
  <2>7. QED
    BY <2>3, <2>5, <2>6, Zenon
<1>7. QED
  BY <1>5, <1>6, Zenon

\* What ReceiptsAssumption says of the inputs, in the words of these lemmas.
LEMMA ReceiptInputs ==
  /\ \A pdu \in ReceiptPdus : pdu.body \in Seq(Tokens)
  /\ \A our \in OurIds : Carried(our)
<1>1. \A s : s \in Seq(STRING) => s \in Seq(Tokens)
  BY SeqMonotonic DEF Tokens
<1>2. ASSUME NEW our \in OurIds PROVE Carried(our)
  <2>1. our \in Seq(STRING) /\ Keyless(our) /\ \A i \in DOMAIN our : our[i] # Blank
    BY ReceiptsAssumption, Zenon
  <2>2. Trimmed(our)
    BY <2>1 DEF Trimmed
  <2>3. QED
    BY <1>1, <2>1, <2>2, Zenon DEF Carried
<1>3. ASSUME NEW pdu \in ReceiptPdus PROVE pdu.body \in Seq(Tokens)
  BY <1>1, ReceiptsAssumption, Zenon
<1>4. QED
  BY <1>2, <1>3, Zenon

\* Receipt::parse on the gateway.
LEMMA ParseStep ==
  ASSUME NEW pdu \in ReceiptPdus, NEW our, RelayReceipt(pdu, our)
  PROVE  ParseMatchesReference'
<1> DEFINE body == pdu.body
<1>1. call'.pdu = pdu /\ call'.parsed = Parse(body)
  BY DEF RelayReceipt
<1>2. body \in Seq(Tokens)
  BY ReceiptInputs, Zenon
<1>3. ReferenceParse(body) = [f \in Keys(body) |-> ValueOf(body, f)]
  BY ReferenceParts, Zenon
<1>4. ASSUME Parse(body) = None PROVE ReferenceParse(body) = <<>>
  <2>1. Keys(body) = {}
    BY <1>2, <1>4, ParseParts, Zenon
  <2>2. QED
    BY <1>3, <2>1
<1>5. ASSUME Parse(body) # None
      PROVE  [f \in DOMAIN Parse(body) \ {"raw"} |-> Parse(body)[f]] = ReferenceParse(body)
  <2>1. /\ DOMAIN Parse(body) = Keys(body) \cup {"raw"} /\ "raw" \notin Keys(body)
        /\ \A f \in Keys(body) : Parse(body)[f] = ValueOf(body, f)
    BY <1>2, <1>5, ParseParts, Zenon
  <2>2. DOMAIN Parse(body) \ {"raw"} = Keys(body)
    BY <2>1, Zenon
  <2>3. QED
    BY <1>3, <2>1, <2>2, Zenon
<1> HIDE DEF body
<1>6. QED
  BY <1>1, <1>4, <1>5, Zenon DEF ParseMatchesReference, body

\* Receipt::parse gives every field that occurs the text up to the next one
\* found, whatever the body of the receipt.
THEOREM ReceiptsParse == Spec => []ParseMatchesReference
<1>1. Init => ParseMatchesReference
  BY DEF Init, idle, ParseMatchesReference
<1>2. ParseMatchesReference /\ [Next]_call => ParseMatchesReference'
  <2> SUFFICES ASSUME ParseMatchesReference, [Next]_call PROVE ParseMatchesReference'
    OBVIOUS
  <2>1. ASSUME call'.op # "receipt" PROVE ParseMatchesReference'
    BY <2>1 DEF ParseMatchesReference
  <2>2. ASSUME NEW pdu \in ReceiptPdus, NEW our \in OurIds, RelayReceipt(pdu, our)
        PROVE  ParseMatchesReference'
    BY <2>2, ParseStep
  <2>3. CASE UNCHANGED call
    BY <2>3 DEF ParseMatchesReference
  <2>4. QED
    BY <2>1, <2>2, <2>3, OpOfCall DEF Next
<1>3. QED
  BY <1>1, <1>2, PTL DEF Spec

\* A receipt through the gateway to an ESME.
LEMMA RelayReceiptStep ==
  ASSUME NEW pdu \in ReceiptPdus, NEW our \in OurIds, RelayReceipt(pdu, our)
  PROVE  ReceiptSurvivesRelay'
<1> DEFINE r == ReceiptOf(pdu)
           q == ReceiptOf(Relayed(r, our))
           b == ReceiptOf([Relayed(r, our) EXCEPT !.body = <<>>])
<1> SUFFICES ASSUME call'.read # None, ~TooLong(Rebuilt(call'.read, call'.our)),
                    \A f \in DOMAIN call'.read \cap {"stat", "err", "submit_date", "done_date"} :
                      Keyless(call'.read[f])
             PROVE  /\ call'.sent
                    /\ call'.relayed["id"] = call'.our
                    /\ call'.relayed["stat"] = Get(call'.read, "stat", <<"UNKNOWN">>)
                    /\ call'.relayed["err"] = Get(call'.read, "err", <<"000">>)
                    /\ \A f \in {"submit_date", "done_date", "text"} : call'.relayed[f] = Get(call'.read, f, <<>>)
                    /\ call'.bare["id"] = call'.our
                    /\ (\E s \in DOMAIN StateName : Get(call'.read, "stat", <<>>) = <<StateName[s]>>) =>
                         call'.bare["stat"] = call'.read["stat"]
  BY Zenon DEF ReceiptSurvivesRelay
<1>1. call'.read = r /\ call'.our = our
  BY DEF RelayReceipt
<1>2. r # None /\ ~TooLong(Rebuilt(r, our))
  <2> HIDE DEF r
  <2> QED BY <1>1
<1>3. call'.sent /\ call'.relayed = q /\ call'.bare = b
  <2> DEFINE onward == Relayed(r, our)
  <2>1. onward.raised = FALSE
    BY <1>2, RelayedParts, Zenon
  <2> HIDE DEF r, onward
  <2>2. QED
    BY <1>2, <2>1 DEF RelayReceipt, r, onward
<1>4. IsRead(r) /\ Carried(our)
  BY <1>2, ReadParts, ReceiptInputs, Zenon
<1>5. \A f \in DOMAIN r \cap {"stat", "err", "submit_date", "done_date"} : Keyless(r[f])
  BY <1>1, Zenon
<1> HIDE DEF r
<1>6. /\ q["id"] = our
      /\ q["stat"] = Get(r, "stat", <<"UNKNOWN">>) /\ q["err"] = Get(r, "err", <<"000">>)
      /\ q["submit_date"] = Get(r, "submit_date", <<>>) /\ q["done_date"] = Get(r, "done_date", <<>>)
      /\ q["text"] = Get(r, "text", <<>>)
  BY <1>2, <1>4, <1>5, RelayedReads, Zenon
<1>7. /\ b["id"] = our
      /\ (\E s \in DOMAIN StateName : Get(r, "stat", <<>>) = <<StateName[s]>>) => b["stat"] = r["stat"]
  BY <1>2, BareReads, Zenon
<1> HIDE DEF q, b
<1>8. \A f \in {"submit_date", "done_date", "text"} : q[f] = Get(r, f, <<>>)
  BY <1>6, Zenon
<1>9. QED
  BY <1>1, <1>3, <1>6, <1>7, <1>8, Zenon

\* A receipt whose rebuilt body fits a short_message, and whose values other
\* than the text have no key inside, is relayed and reads as the one the gateway
\* was sent, under the ESME's own id, whatever else the SMSC put in it.
THEOREM ReceiptsSurviveRelay == Spec => []ReceiptSurvivesRelay
<1>1. Init => ReceiptSurvivesRelay
  BY DEF Init, idle, ReceiptSurvivesRelay
<1>2. ReceiptSurvivesRelay /\ [Next]_call => ReceiptSurvivesRelay'
  <2> SUFFICES ASSUME ReceiptSurvivesRelay, [Next]_call PROVE ReceiptSurvivesRelay'
    OBVIOUS
  <2>1. ASSUME call'.op # "receipt" PROVE ReceiptSurvivesRelay'
    BY <2>1 DEF ReceiptSurvivesRelay
  <2>2. ASSUME NEW pdu \in ReceiptPdus, NEW our \in OurIds, RelayReceipt(pdu, our)
        PROVE  ReceiptSurvivesRelay'
    BY <2>2, RelayReceiptStep
  <2>3. CASE UNCHANGED call
    BY <2>3 DEF ReceiptSurvivesRelay
  <2>4. QED
    BY <2>1, <2>2, <2>3, OpOfCall DEF Next
<1>3. QED
  BY <1>1, <1>2, PTL DEF Spec
=============================================================================
