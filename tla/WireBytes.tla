------------------------------ MODULE WireBytes ------------------------------
(***************************************************************************)
(* What the Rust and Go runtimes read and write below the level of a       *)
(* schema: LEB128, zigzag, tags, presence bits, and skipping a field by    *)
(* its wire type (runtime-rust/src/lib.rs; runtime-go/volex.go is the same *)
(* algorithm for algorithm).                                               *)
(*                                                                         *)
(* Widths are scaled down and keep their proportions: a byte of LEB128     *)
(* carries Group bits (7) and one more to continue; Bits64 is not a        *)
(* multiple of Group, so the last byte of the longest number is not full.  *)
(* An f32 or f64 is its bit pattern, a string its bytes.  A struct or      *)
(* message is a record, an optional field of it <<>> or <<v>>; an enum is  *)
(* the name of its variant, a union a record with the one field that its   *)
(* variant names.                                                          *)
(***************************************************************************)
EXTENDS Schema, Leb128

CONSTANTS Bits16, Bits32

ASSUME WidthAssumption ==
  /\ Group + 1 < Bits16 /\ Bits16 < Bits32 /\ Bits32 < Bits64

ByteBits == Group + 1
Bits(ty) == CASE ty[1] \in {"u8", "i8"} -> ByteBits
              [] ty[1] \in {"u16", "i16"} -> Bits16
              [] ty[1] \in {"u32", "i32"} -> Bits32
              [] ty[1] \in {"u64", "i64"} -> Bits64

Then(r, F(_, _)) == IF r.ok THEN F(r.v, r.rest) ELSE r
Take(n, buf) == IF Len(buf) < n THEN UnexpectedEof ELSE Ok(SubSeq(buf, 1, n), Rest(buf, n))

(* `x as iW`. *)
AsSigned(x, w) == LET u == x % 2^w IN IF u < 2^(w - 1) THEN u ELSE u - 2^w

(* (n << 1) ^ (n >> 63) and (n >> 1) ^ -(n & 1): the exclusive or with a   *)
(* word of ones is the complement.                                         *)
zigzag_encode(n) ==
  LET shifted == AsUnsigned(2 * n, Bits64)
  IN IF n < 0 THEN 2^Bits64 - 1 - shifted ELSE shifted
\* A mutant.
ZigzagNegates(n) == IF n % 2 = 1 THEN -(n \div 2) ELSE n \div 2
zigzag_decode(n) == IF n % 2 = 1 THEN -(n \div 2) - 1 ELSE n \div 2

LeBytes(v, n) == [i \in 1 .. n |-> (v \div 2^(ByteBits * (i - 1))) % 2^ByteBits]
FromLeBytes(bytes) ==
  FoldSeq(+, 0, [i \in DOMAIN bytes |-> bytes[i] * 2^(ByteBits * (i - 1))])

(* Types of a fixed size, and integers. *)
EncodePrim(ty, v) ==
  CASE ty[1] = "bool" -> <<IF v THEN 1 ELSE 0>>
    [] ty[1] \in {"u8", "i8"} -> <<AsUnsigned(v, ByteBits)>>
    [] ty[1] \in Unsigned -> encode_leb128_u64[v]
    [] ty[1] \in Signed -> encode_leb128_u64[zigzag_encode(v)]
    [] ty[1] = "f32" -> LeBytes(v, 4)
    [] ty[1] = "f64" -> LeBytes(v, 8)

DecodeByte(ty, buf) ==
  Then(Take(1, buf), LAMBDA b, rest:
    CASE ty[1] = "u8" -> Ok(b[1], rest)
      [] ty[1] = "i8" -> Ok(AsSigned(b[1], ByteBits), rest)
      [] ty[1] = "bool" /\ b[1] \in {0, 1} -> Ok(b[1] = 1, rest)
      [] OTHER -> Err("InvalidBool"))

DecodeVarint(ty, buf) ==
  Then(decode_leb128_u64(buf), LAMBDA v, rest:
    Ok(IF ty[1] \in Unsigned THEN AsUnsigned(v, Bits(ty))
       ELSE AsSigned(zigzag_decode(v), Bits(ty)), rest))

DecodeFloat(ty, buf) ==
  Then(Take(IF ty[1] = "f32" THEN 4 ELSE 8, buf), LAMBDA bytes, rest:
    Ok(FromLeBytes(bytes), rest))

DecodePrim(ty, buf) ==
  CASE ty[1] \in {"bool", "u8", "i8"} -> DecodeByte(ty, buf)
    [] ty[1] \in {"f32", "f64"} -> DecodeFloat(ty, buf)
    [] OTHER -> DecodeVarint(ty, buf)

EncodeString(s) == encode_leb128_u64[Len(s)] \o s
DecodeString(buf) == Then(decode_leb128_u64(buf), LAMBDA n, rest: Take(n, rest))

(* A map is the sequence of its entries in the order in which it is        *)
(* iterated; to insert a key again replaces its value.                     *)
Insert(m, entry) ==
  IF \E i \in DOMAIN m: m[i][1] = entry[1]
  THEN [i \in DOMAIN m |-> IF m[i][1] = entry[1] THEN entry ELSE m[i]]
  ELSE Append(m, entry)
Entries(kvs) ==
  FoldLeft(Insert, <<>>, [i \in 1 .. Len(kvs) \div 2 |-> <<kvs[2 * i - 1], kvs[2 * i]>>])

(* Elements of an array and entries of a map, one after the other, by what *)
(* encodes or decodes one value.                                           *)
EncodeItems(ty, v, Enc(_, _)) ==
  IF ty[1] = "array" THEN FlattenSeq([i \in DOMAIN v |-> Enc(ty[2], v[i])])
  ELSE FlattenSeq([i \in DOMAIN v |-> Enc(ty[2], v[i][1]) \o Enc(ty[3], v[i][2])])

\* What n items are read as: the types in turn, and the result of all.
ItemTypes(ty, n) ==
  IF ty[1] = "array" THEN [i \in 1 .. n |-> ty[2]]
  ELSE [i \in 1 .. 2 * n |-> IF i % 2 = 1 THEN ty[2] ELSE ty[3]]
Appended(vs, r) == IF r.ok THEN Ok(Append(vs, r.v), r.rest) ELSE r
Gathered(ty, r) == IF r.ok /\ ty[1] = "map" THEN Ok(Entries(r.v), r.rest) ELSE r

\* What an element or an entry takes, if they all take the same.  (KeySize is
\* a mutant.)
KeySize(sch, ty) == fixed_size(sch, ty[2])
entry_size(sch, ty) ==
  LET sizes == [i \in 1 .. Len(ty) - 1 |-> fixed_size(sch, ty[i + 1])]
  IN IF \E i \in DOMAIN sizes: sizes[i] = Variable THEN Variable ELSE FoldSeq(+, 0, sizes)

(* Fields that are there, in the order given. *)
EncodeFields(fs, v, Enc(_, _)) ==
  LET One(f) == CASE ~f.optional -> Enc(f, v[f.name])
                  [] v[f.name] = <<>> -> <<>>
                  [] OTHER -> Enc(f, v[f.name][1])
  IN FlattenSeq([i \in DOMAIN fs |-> One(fs[i])])
VariantOf(v) == CHOOSE n \in DOMAIN v: TRUE
SetField(result, f, v) == [result EXCEPT ![f.name] = IF f.optional THEN <<v>> ELSE v]
\* A result r of decoding the field or variant fs[at]; 0 for none.
Updated(result, fs, at, r) ==
  CASE r.ok /\ at # 0 -> Ok(SetField(result, fs[at], r.v), r.rest)
    [] r.ok /\ at = 0 -> Ok(result, r.rest)
    [] OTHER -> r
AsVariant(f, r) == IF r.ok THEN Ok([n \in {f.name} |-> r.v], r.rest) ELSE r
IndexAt(fs, index) == SelectInSeq(fs, LAMBDA f: f.index = index)

(* Tags.  decode_tag gives the index 0 for the end of a message, which a   *)
(* field cannot have.                                                      *)
encode_tag(index, wire) == encode_leb128_u64[index * 8 + wire]
\* A mutant: a buffer that ends between two fields ends the message.
EndAtEof(buf) ==
  IF buf = <<>> THEN Ok([end |-> TRUE, index |-> 0, wire |-> 0], buf)
  ELSE Then(decode_leb128_u64(buf), LAMBDA tag, rest:
         Ok([end |-> tag = 0, index |-> AsUnsigned(tag \div 8, Bits32), wire |-> tag % 8], rest))
decode_tag(buf) ==
  Then(decode_leb128_u64(buf), LAMBDA tag, rest:
    Ok([end |-> tag = 0, index |-> AsUnsigned(tag \div 8, Bits32), wire |-> tag % 8], rest))
\* A mutant: index and wire type in a byte each.
EndOfTwoBytes == <<0, 0>>
encode_message_end == <<0>>

(* Skip a value of which only the wire type is known. *)
RECURSIVE skip_by_wire_type(_, _)
RECURSIVE SkipFields(_)
SkipFields(buf) ==
  Then(decode_tag(buf), LAMBDA tag, rest:
    IF tag.end THEN Ok(Unit, rest)
    ELSE Then(skip_by_wire_type(tag.wire, rest), LAMBDA u, rest2: SkipFields(rest2)))
skip_by_wire_type(wire, buf) ==
  CASE wire = WireFixed8 -> Take(1, buf)
    [] wire = WireVarint -> decode_leb128_u64(buf)
    [] wire = WireFixed32 -> Take(4, buf)
    [] wire = WireFixed64 -> Take(8, buf)
    [] wire = WireLengthed -> DecodeString(buf)
    [] wire = WireMessage -> SkipFields(buf)
    [] wire = WireUnion -> Then(decode_leb128_u64(buf), LAMBDA tag, rest:
                              skip_by_wire_type(tag % 8, rest))
    [] wire = WireUnit -> Ok(Unit, buf)

(* One bit per optional field of a struct, the first in the lowest bit. *)
PresenceBytes(n) == (n + ByteBits - 1) \div ByteBits
encode_presence_bits(bits) ==
  [b \in 1 .. PresenceBytes(Len(bits)) |->
     FoldSeq(+, 0, [i \in 1 .. ByteBits |->
       LET idx == (b - 1) * ByteBits + i
       IN IF idx \in DOMAIN bits /\ bits[idx] THEN 2^(i - 1) ELSE 0])]
decode_presence_bits(count, buf) ==
  Then(Take(PresenceBytes(count), buf), LAMBDA bytes, rest:
    Ok([i \in 1 .. count |->
          (bytes[(i - 1) \div ByteBits + 1] \div 2^((i - 1) % ByteBits)) % 2 = 1], rest))

Optionals(fs) == SelectSeq(fs, LAMBDA f: f.optional)
EncodePresence(fs, v) ==
  LET opt == Optionals(fs) IN encode_presence_bits([i \in DOMAIN opt |-> v[opt[i].name] # <<>>])

\* The fields of a struct that its presence bits announce, and the struct that
\* their values make: absent fields are <<>>.
Announced(fs, present) ==
  LET opt == Optionals(fs)
  IN SelectSeq(fs, LAMBDA f: f.optional => present[SelectInSeq(opt, LAMBDA g: g.name = f.name)])
Filled(fs, there, r) ==
  LET absent == [n \in NamesOf(fs) |-> <<>>]
  IN IF ~r.ok THEN r
     ELSE Ok(FoldLeft(LAMBDA s, i: SetField(s, there[i], r.v[i]), absent, [i \in DOMAIN there |-> i]), r.rest)
=============================================================================
