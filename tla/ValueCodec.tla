----------------------------- MODULE ValueCodec -----------------------------
(***************************************************************************)
(* The order-preserving codec of property values (src/index/value_codec.rs)*)
(* over a scaled-down machine: integers and floats have four bits, kept in *)
(* two big-endian digits, and strings are taken from a few bytes, among    *)
(* them the two that are escaped.                                          *)
(***************************************************************************)
EXTENDS Integers, Sequences
LOCAL INSTANCE SequencesExt

CONSTANTS
    Bytes,            \* bytes of strings
    MaxString,        \* longest string
    MAX_ENCODED_LEN

VARIABLES
    vcin,    \* the values encoded into the buffer, in order
    vcbuf,   \* the buffer: bytes not decoded yet
    vcout    \* the values decoded from it

vcvars == <<vcin, vcbuf, vcout>>

HalfRange == 8
FullRange == 16

Payloads == UNION {[1..n -> Bytes] : n \in 0..MaxString}

Value(tag, data) == [tag |-> tag, data |-> data]

Values ==
    {Value("Null", 0)}
      \cup {Value("Bool", b) : b \in {0, 1}}
      \cup {Value("Int64", v) : v \in (- HalfRange)..(HalfRange - 1)}
      \cup {Value("Float64", bits) : bits \in 0..(FullRange - 1)}
      \cup {Value(tag, s) : tag \in {"String", "List", "Map"}, s \in Payloads}

Tag == [Null |-> 0, Bool |-> 1, Int64 |-> 2, Float64 |-> 3, String |-> 4, List |-> 5, Map |-> 6]

(***************************************************************************)
(* Floats: one sign bit, two of exponent, one of mantissa.                 *)
(***************************************************************************)

IsNegative(bits) == bits >= HalfRange

IsNan(bits) == bits % HalfRange = 7

\* the number, scaled so that the smallest is 1 and infinity 8
Magnitude(bits) ==
    LET b == bits % HalfRange
        exponent == b \div 2
        mantissa == b % 2
    IN IF exponent = 0 THEN mantissa ELSE (2 + mantissa) * (2 ^ (exponent - 1))

Number(bits) == IF IsNegative(bits) THEN - Magnitude(bits) ELSE Magnitude(bits)

Canonical(bits) == IF IsNan(bits) THEN 7 ELSE bits

order_f64_bits(bits) ==
    IF IsNegative(bits) THEN FullRange - 1 - bits ELSE bits + HalfRange

unorder_f64_bits(bits) ==
    IF IsNegative(bits) THEN bits - HalfRange ELSE FullRange - 1 - bits

order_i64(v) == ((v % FullRange) + HalfRange) % FullRange

unorder_i64(u) ==
    LET v == (u + HalfRange) % FullRange
    IN IF IsNegative(v) THEN v - FullRange ELSE v

to_be_bytes(u) == <<u \div 4, u % 4>>

from_be_bytes(b) == b[1] * 4 + b[2]

(***************************************************************************)
(* encode and decode.                                                      *)
(***************************************************************************)

Escape_Never(b) == <<b>>

Escape(b) == IF b = 0 THEN <<0, 255>> ELSE IF b = 255 THEN <<255, 0>> ELSE <<b>>

Escaped(s) == FlattenSeq([i \in DOMAIN s |-> Escape(s[i])]) \o <<0>>

TooLong == <<>>   \* encode returns None

encode(v) ==
    LET body == CASE v.tag = "Null"    -> <<>>
                  [] v.tag = "Bool"    -> <<v.data>>
                  [] v.tag = "Int64"   -> to_be_bytes(order_i64(v.data))
                  [] v.tag = "Float64" -> to_be_bytes(order_f64_bits(v.data))
                  [] OTHER             -> Escaped(v.data)
        bytes == <<Tag[v.tag]>> \o body
    IN IF Len(bytes) > MAX_ENCODED_LEN THEN TooLong ELSE bytes

Malformed == [data |-> <<>>, rest |-> 0]   \* decode_terminated returns None

Undecodable == [value |-> Value("None", 0), rest |-> 0]   \* decode returns None

\* the bytes up to the bare terminator, and how many they were
RECURSIVE Unescaped(_, _, _)
Unescaped(data, i, out) ==
    LET next(b) == i + 1 <= Len(data) /\ data[i + 1] = b
    IN IF i > Len(data) THEN Malformed
       ELSE IF data[i] = 0 /\ next(255) THEN Unescaped(data, i + 2, Append(out, 0))
       ELSE IF data[i] = 255 /\ next(0) THEN Unescaped(data, i + 2, Append(out, 255))
       ELSE IF data[i] = 0 THEN [data |-> out, rest |-> i + 1]
       ELSE Unescaped(data, i + 1, Append(out, data[i]))

decode_terminated(data) == Unescaped(data, 2, <<>>)

\* [value, rest]: the value and the first byte after it; a buffer that ends within
\* the value, or starts with no tag, is not decoded
decode(bytes) ==
    LET is(tag, size) == bytes[1] = Tag[tag] /\ Len(bytes) > size
        digits == from_be_bytes(SubSeq(bytes, 2, 3))
        text == decode_terminated(bytes)
        texts == {t \in {"String", "List", "Map"} : is(t, 0) /\ text.rest # 0}
    IN CASE is("Null", 0)    -> [value |-> Value("Null", 0), rest |-> 2]
         [] is("Bool", 1)    -> [value |-> Value("Bool", IF bytes[2] # 0 THEN 1 ELSE 0), rest |-> 3]
         [] is("Int64", 2)   -> [value |-> Value("Int64", unorder_i64(digits)), rest |-> 4]
         [] is("Float64", 2) -> [value |-> Value("Float64", unorder_f64_bits(digits)), rest |-> 4]
         [] texts # {}       -> [value |-> Value(CHOOSE t \in texts : TRUE, text.data), rest |-> text.rest]
         [] OTHER            -> Undecodable

(***************************************************************************)
(* Order: what the index promises of the encoded bytes.                    *)
(***************************************************************************)

\* Byte strings as slices compare them: the first difference, then the length
LexLess(a, b) ==
    \E i \in 1..(Len(b)) :
        /\ i <= Len(a) + 1
        /\ \A j \in 1..(i - 1) : a[j] = b[j]
        /\ i = Len(a) + 1 \/ a[i] < b[i]

FloatLess(a, b) ==
    \/ IsNan(b) /\ ~ IsNan(a)
    \/ ~ IsNan(a) /\ ~ IsNan(b) /\ Number(a) < Number(b)

ValueLess(v, w) ==
    \/ Tag[v.tag] < Tag[w.tag]
    \/ /\ v.tag = w.tag
       /\ CASE v.tag = "Null" -> FALSE
            [] v.tag \in {"Bool", "Int64"} -> v.data < w.data
            [] v.tag = "Float64" -> FloatLess(v.data, w.data)
            [] OTHER -> LexLess(v.data, w.data)

(***************************************************************************)
(* Two values are appended to a buffer, and read from it again.            *)
(***************************************************************************)

VCInit == vcin = <<>> /\ vcbuf = <<>> /\ vcout = <<>>

EncodeValue(v) ==
    /\ Len(vcin) < 2 /\ vcout = <<>>
    /\ vcbuf' = vcbuf \o encode(v)
    /\ vcin' = IF encode(v) = TooLong THEN vcin ELSE Append(vcin, v)
    /\ UNCHANGED vcout

\* the reader stops at the first value that it cannot decode
DecodeValue ==
    LET next == decode(vcbuf) IN
    /\ vcbuf # <<>>
    /\ vcout' = Append(vcout, next.value)
    /\ vcbuf' = IF next.rest = 0 THEN <<>> ELSE SubSeq(vcbuf, next.rest, Len(vcbuf))
    /\ UNCHANGED vcin

VCNext == (\E v \in Values : EncodeValue(v)) \/ DecodeValue

VCSpec == VCInit /\ [][VCNext]_vcvars

(***************************************************************************)
(* Properties.                                                             *)
(***************************************************************************)

\* Value::from_f64 keeps one NaN
IsCanonical(v) == v.tag = "Float64" => Canonical(v.data) = v.data

\* The encoded bytes of two values sort as the values do: numbers by value, -0.0
\* before 0.0 or equal to it, NaN after infinity, strings byte by byte, null before
\* booleans before numbers before strings (encode, order_i64, order_f64_bits).
OrderPreserving ==
    Len(vcin) = 2 /\ IsCanonical(vcin[1]) /\ IsCanonical(vcin[2]) /\ ValueLess(vcin[1], vcin[2])
      => LexLess(encode(vcin[1]), encode(vcin[2]))

\* Also the floats of encode_property_value, whose NaN are not canonical, sort as
\* numbers do.
\* Refuted: README, section 5.
PropertyOrderPreserving ==
    Len(vcin) = 2 /\ ValueLess(vcin[1], vcin[2]) => LexLess(encode(vcin[1]), encode(vcin[2]))

\* What is decoded from the buffer is what was encoded into it, value by value: no
\* terminator or escape of one value is taken for a part of the next (decode,
\* decode_terminated).
DecodesBack ==
    /\ Len(vcout) <= Len(vcin)
    /\ \A i \in DOMAIN vcout : vcout[i].tag = vcin[i].tag /\ vcout[i].data = vcin[i].data
    /\ vcbuf = <<>> => (vcout = vcin \/ vcin = <<>>)

\* Encoded values can stand for the values in an index: they sort as the values do and decode to
\* them, one after the other in one buffer (encode, decode).
CodecFaithful == OrderPreserving /\ DecodesBack

==============================================================================
