-------------------------------- MODULE Amf ---------------------------------
(***************************************************************************)
(* The AMF0 coding of RTMP commands and of stream metadata                 *)
(* (src/tmms/mmedia/rtmp/amf and src/tmms/mmedia/base/bytes_reader.cpp,    *)
(* bytes_writer.cpp): what the Encode functions put on the wire, and what  *)
(* AMFObject::Decode makes of it.                                          *)
(*                                                                         *)
(* Data is a sequence of bytes.  A string is the sequence of its bytes.  A *)
(* number is a whole number of less than 21 bits, which has an exact       *)
(* double; a negative one is decoded as Unspecified, because the           *)
(* conversion to uint64_t is undefined for it.                             *)
(*                                                                         *)
(* A decoded value is [name, kind, value]; the value of an object is the   *)
(* sequence of its properties_.                                            *)
(*                                                                         *)
(* Operators named Bug... are deliberately wrong variants of the operator  *)
(* that follows them; no specification uses them.                          *)
(***************************************************************************)
EXTENDS Integers, Sequences

NumberType == 0        \* kAMFNumber
BooleanType == 1       \* kAMFBoolean
StringType == 2        \* kAMFString
ObjectType == 3        \* kAMFObject
NullType == 5          \* kAMFNull
EcmaArrayType == 8     \* kAMFEcmaArray
ObjectEndType == 9     \* kAMFObjectEnd
DateType == 11         \* kAMFDate
LongStringType == 12   \* kAMFLongString

-----------------------------------------------------------------------------
(* Bytes: BytesWriter, WriteNumber and BytesReader.                        *)

\* The last n bytes of v, network order.
BigEndian(v, n) == [i \in 1..n |-> (v \div 256^(n - i)) % 256]

\* ReadUint16T, ReadUint24T, ReadUint32T at position at, counted from 0.
UintAt(data, at, n) ==
  LET value[i \in 0..n] == IF i = 0 THEN 0 ELSE 256 * value[i - 1] + data[at + i]
  IN  value[n]

\* The exponent of a number: the place of its highest bit.
Exponent(n) == CHOOSE e \in 0..20 : 2^e <= n /\ n < 2^(e + 1)

\* The double of n: sign, exponent, and the upper 20 bits of the mantissa; the
\* others are 0.
Double(n) ==
  LET m == IF n < 0 THEN 0 - n ELSE n
      e == Exponent(m)
      sign == IF n < 0 THEN 2^15 ELSE 0
      mantissa == (m - 2^e) * 2^(20 - e)
  IN  IF n = 0 THEN <<0, 0, 0, 0, 0, 0, 0, 0>>
      ELSE BigEndian(sign + (1023 + e) * 16 + mantissa \div 2^16, 2)
             \o BigEndian(mantissa % 2^16, 2) \o <<0, 0, 0, 0>>

Unspecified == 0 - 1

\* ntohl, which has 32 bits, in place of the swap of 64.
BugNumberAt(data, at) == UintAt(data, at + 4, 4)

\* ReadUint64T: the double is converted to uint64_t, which drops its fraction.
NumberAt(data, at) ==
  LET top == UintAt(data, at, 2)
      mantissa == (top % 16) * 2^16 + UintAt(data, at + 2, 2)
      e == (top % 2^15) \div 16 - 1023
  IN  IF top >= 2^15 \/ e > 20 THEN Unspecified
      ELSE IF e < 0 THEN 0
      ELSE 2^e + mantissa \div 2^(20 - e)

-----------------------------------------------------------------------------
(* Encoding.                                                               *)

EncodeName(name) == BigEndian(Len(name), 2) \o name
EncodeNumber(n) == <<NumberType>> \o Double(n)
EncodeString(s) == <<StringType>> \o BigEndian(Len(s), 2) \o s
EncodeBoolean(b) == <<BooleanType, IF b THEN 1 ELSE 0>>
EncodeNamedNumber(name, n) == EncodeName(name) \o EncodeNumber(n)
EncodeNamedString(name, s) == EncodeName(name) \o EncodeString(s)
EncodeNamedBoolean(name, b) == EncodeName(name) \o EncodeBoolean(b)

\* An object is written out by its user.
EncodeObject(members) == <<ObjectType>> \o members \o <<0, 0, ObjectEndType>>
EncodeNull == <<NullType>>

-----------------------------------------------------------------------------
(* Decoding.                                                               *)

\* The result of decoding: properties found, position behind them.
Failed == [ok |-> FALSE, found |-> <<>>, next |-> 0]
Upto(next, found) == [ok |-> TRUE, found |-> found, next |-> next]
Prop(name, kind, value) == [name |-> name, kind |-> kind, value |-> value]

\* DecodeString; beyond the end of the data it is not defined.
StringAt(data, at) == SubSeq(data, at + 3, at + 2 + UintAt(data, at, 2))

\* A simple value behind its type, Failed when it is cut off.
ScalarAt(data, at, type, name) ==
  LET left == Len(data) - at
      lengthLength == IF type = LongStringType THEN 4 ELSE 2
      length == UintAt(data, at, lengthLength)
  IN  CASE type = NumberType ->
             IF left < 8 THEN Failed
             ELSE Upto(at + 8, <<Prop(name, "Number", NumberAt(data, at))>>)
        [] type = BooleanType ->
             IF left < 1 THEN Failed
             ELSE Upto(at + 1, <<Prop(name, "Boolean", data[at + 1] # 0)>>)
        [] type = DateType ->
             IF left < 10 THEN Failed
             ELSE Upto(at + 10, <<Prop(name, "Date", NumberAt(data, at))>>)
        [] OTHER ->
             IF left < lengthLength \/ left < lengthLength + length THEN Failed
             ELSE Upto(at + lengthLength + length,
                       <<Prop(name,
                              IF type = StringType THEN "String" ELSE "LongString",
                              SubSeq(data, at + lengthLength + 1,
                                     at + lengthLength + length))>>)

Scalars == {NumberType, BooleanType, StringType, DateType, LongStringType}

\* Decode of the values from position at on, with or without names.  The call
\* for an object is given the rest of the message, so a position says what is
\* left.  The number of elements of an ECMA array is not used.  A Null, as any
\* type that is not known, is passed over and leaves no property; fewer than three
\* bytes at the end are left alone.
Decode(data, withNames) ==
  LET decode[at \in 0..Len(data), named \in BOOLEAN] ==
        LET name == IF named THEN StringAt(data, at) ELSE <<>>
            typeAt == IF name = <<>> THEN at ELSE at + 2 + Len(name)
            type == data[typeAt + 1]
            body == typeAt + 1
            members == decode[IF type = EcmaArrayType THEN body + 4 ELSE body, TRUE]
            value ==
              CASE type \in Scalars -> ScalarAt(data, body, type, name)
                [] type \in {ObjectType, EcmaArrayType} ->
                     IF ~members.ok THEN Failed
                     ELSE Upto(members.next, <<Prop(name, "Object", members.found)>>)
                [] OTHER -> Upto(body, <<>>)
            rest == decode[value.next, named]
        IN  IF at + 3 > Len(data) THEN Upto(at, <<>>)
            ELSE IF UintAt(data, at, 3) = ObjectEndType THEN Upto(at + 3, <<>>)
            ELSE IF ~value.ok THEN Failed
            ELSE IF type = ObjectEndType THEN Upto(body, <<>>)
            ELSE IF ~rest.ok THEN Failed
            ELSE Upto(rest.next, value.found \o rest.found)
  IN  decode[0, withNames]

-----------------------------------------------------------------------------
(* Properties of a decoded object, and their values.                       *)

\* any_ptr_null
Null == Prop(<<>>, "Null", 0)

\* Property(index), from 0.
PropertyAt(props, i) == IF i + 1 \in DOMAIN props THEN props[i + 1] ELSE Null

\* Property(name): the first of this name, where the members of an object are
\* looked through in its place.  The objects decoded here hold no objects.
Property(props, name) ==
  LET named(p) == IF p.name = name THEN <<p>>
                  ELSE IF p.kind = "Object"
                  THEN SelectSeq(p.value, LAMBDA q : q.name = name)
                  ELSE <<>>
      hits == {i \in DOMAIN props : named(props[i]) # <<>>}
  IN  IF hits = {} THEN Null
      ELSE Head(named(props[CHOOSE i \in hits : \A j \in hits : i <= j]))

\* The virtual accessors: a value of another kind is empty or 0.
String(p) == IF p.kind \in {"String", "LongString"} THEN p.value ELSE <<>>
Number(p) == IF p.kind = "Number" THEN p.value ELSE 0
Members(p) == IF p.kind = "Object" THEN p.value ELSE <<>>
=============================================================================
