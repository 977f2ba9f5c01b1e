------------------------------- MODULE WireTs -------------------------------
(***************************************************************************)
(* The wire codec that volexc/src/codegen_typescript.rs generates, over    *)
(* the runtime of runtime-typescript/volex.ts: numbers are doubles, their  *)
(* bitwise operators work in 32 bits, and nothing checks the end of the    *)
(* buffer, which must hold a whole value.                                  *)
(***************************************************************************)
EXTENDS WireBytes

RECURSIVE encode_value(_, _, _), decode_value_inline(_, _, _), decode_each(_, _, _)

(* volex.ts: as in the other runtimes, but for the widths. *)
encodeVarint(v) == IF v < 0 THEN <<v % Continue>> ELSE encode_leb128_u64[v]
decodeVarint(buf) ==
  LET n == CHOOSE i \in DOMAIN buf: buf[i] < Continue /\ \A j \in 1 .. i - 1: buf[j] >= Continue
  IN Ok(FoldSeq(+, 0, [i \in 1 .. n |-> (buf[i] % Continue) * 2^(Group * (i - 1))]), Rest(buf, n))
zigzagEncode(v) ==
  LET shifted == AsUnsigned(2 * v, Bits32)
  IN IF AsSigned(v, Bits32) < 0 THEN 2^Bits32 - 1 - shifted ELSE shifted
zigzagDecode(v) == zigzag_decode(AsUnsigned(v, Bits32))
encodeTag(index, wire) == encodeVarint(AsSigned(index * 8, Bits32) + wire)
decodeTag(buf) ==
  Then(decodeVarint(buf), LAMBDA tag, rest:
    Ok([index |-> AsSigned(tag, Bits32) \div 8, wire |-> tag % 8], rest))
encodePrim(ty, v) ==
  CASE ty[1] \in Unsigned -> encodeVarint(v)
    [] ty[1] \in Signed -> encodeVarint(zigzagEncode(v))
    [] OTHER -> EncodePrim(ty, v)
decodePrim(ty, buf) ==
  CASE ty[1] = "bool" -> Ok(buf[1] # 0, Rest(buf, 1))
    [] ty[1] \in Unsigned -> decodeVarint(buf)
    [] ty[1] \in Signed -> Then(decodeVarint(buf), LAMBDA v, rest: Ok(zigzagDecode(v), rest))
    [] OTHER -> DecodePrim(ty, buf)

EncodeEach(sch, ty, v) == EncodeItems(ty, v, LAMBDA t, x: encode_value(sch, t, x))
decode_each(sch, tys, r) ==
  IF tys = <<>> \/ ~r.ok THEN r
  ELSE decode_each(sch, Tail(tys), Appended(r.v, decode_value_inline(sch, Head(tys), r.rest)))
DecodeN(sch, ty, n, buf) == Gathered(ty, decode_each(sch, ItemTypes(ty, n), Ok(<<>>, buf)))
DecodeCounted(sch, ty, n) == DecodeN(sch, ty, n.v, n.rest)

(* A field of a message, the payload of a union. *)
encode_value_to_buf(sch, ty, v) ==
  CASE ty[1] = "string" -> v
    [] ty[1] \in {"array", "map"} /\ entry_size(sch, ty) # Variable -> EncodeEach(sch, ty, v)
    [] OTHER -> encode_value(sch, ty, v)
encode_tagged_field(sch, f, v) ==
  LET wire == wire_type(sch, f.ty)
  IN encodeTag(f.index, wire) \o
     (IF wire = WireLengthed THEN EncodeString(encode_value_to_buf(sch, f.ty, v))
      ELSE encode_value(sch, f.ty, v))
decode_tagged_field(sch, ty, buf) ==
  LET size == entry_size(sch, ty)
      length == decodeVarint(buf)
      lengthed == wire_type(sch, ty) = WireLengthed
  IN CASE lengthed /\ ty[1] = "string" -> Take(length.v, length.rest)
       [] lengthed /\ ty[1] \in {"array", "map"} /\ size # Variable ->
            DecodeN(sch, ty, length.v \div size, length.rest)
       [] OTHER -> decode_value_inline(sch, ty, IF lengthed THEN length.rest ELSE buf)

(* gen_struct. *)
encode_struct(sch, s, v) ==
  EncodePresence(s.fields, v) \o EncodeFields(s.fields, v, LAMBDA f, x: encode_value(sch, f.ty, x))
decode_struct(sch, s, buf) ==
  LET present == decode_presence_bits(Len(Optionals(s.fields)), buf)
      there == Announced(s.fields, present.v)
  IN IF present.ok THEN Filled(s.fields, there, decode_each(sch, Types(there), Ok(<<>>, present.rest)))
     ELSE present

(* gen_message.  A field with an index nobody knows is refused. *)
write_default_value(ty) ==
  CASE ty[1] = "bool" -> FALSE
    [] ty[1] \in {"string", "array", "map"} -> <<>>
    [] ty[1] = "named" -> "null"
    [] OTHER -> 0
encode_message(sch, m, v) ==
  EncodeFields(ByIndex(m.fields), v, LAMBDA f, x: encode_tagged_field(sch, f, x))
    \o encodeTag(0, 0)

\* r: the fields that were read, and the rest of the buffer.
RECURSIVE decode_fields(_, _, _)
decode_fields(sch, fs, r) ==
  LET tag == decodeTag(r.rest)
      at == IndexAt(fs, tag.v.index)
  IN CASE ~r.ok -> r
       [] r.ok /\ tag.v.index = 0 -> Ok(r.v, tag.rest)
       [] r.ok /\ tag.v.index # 0 /\ at = 0 -> Err("Unknown field index")
       [] OTHER -> decode_fields(sch, fs, Updated(r.v, fs, at, decode_tagged_field(sch, fs[at].ty, tag.rest)))
decode_message(sch, m, buf) ==
  LET unset == [n \in NamesOf(m.fields) |->
                  LET f == ByName(m.fields, n) IN IF f.optional THEN <<>> ELSE write_default_value(f.ty)]
  IN decode_fields(sch, m.fields, Ok(unset, buf))

(* gen_enum. *)
encode_enum(e, v) == encodePrim(<<"u32">>, ByName(e.variants, v).index)
decode_enum(e, buf) ==
  Then(decodePrim(<<"u32">>, buf), LAMBDA index, rest:
    LET at == SelectInSeq(e.variants, LAMBDA x: x.index = index)
    IN IF at = 0 THEN Err("Unknown enum variant") ELSE Ok(e.variants[at].name, rest))

(* gen_union. *)
encode_union(sch, u, v) ==
  LET f == ByName(u.variants, VariantOf(v))
  IN IF f.ty = Unit THEN encodeTag(f.index, WireUnit) ELSE encode_tagged_field(sch, f, v[f.name])
decode_union(sch, u, buf) ==
  LET tag == decodeTag(buf)
      at == IndexAt(u.variants, tag.v.index)
      f == u.variants[at]
  IN CASE ~tag.ok -> tag
       [] tag.ok /\ at = 0 -> Err("Unknown union variant")
       [] OTHER -> AsVariant(f, IF f.ty = Unit THEN Ok(Unit, tag.rest)
                                ELSE decode_tagged_field(sch, f.ty, tag.rest))

encode_value(sch, ty, v) ==
  CASE ty[1] = "string" -> EncodeString(v)
    [] ty[1] \in {"array", "map"} -> encodeVarint(Len(v)) \o EncodeEach(sch, ty, v)
    [] Is(sch, ty, "struct") -> encode_struct(sch, sch[ty[2]], v)
    [] Is(sch, ty, "message") -> encode_message(sch, sch[ty[2]], v)
    [] Is(sch, ty, "enum") -> encode_enum(sch[ty[2]], v)
    [] Is(sch, ty, "union") -> encode_union(sch, sch[ty[2]], v)
    [] OTHER -> encodePrim(ty, v)

decode_value_inline(sch, ty, buf) ==
  CASE ty[1] = "string" -> Then(decodeVarint(buf), Take)
    [] ty[1] \in {"array", "map"} -> DecodeCounted(sch, ty, decodeVarint(buf))
    [] Is(sch, ty, "struct") -> decode_struct(sch, sch[ty[2]], buf)
    [] Is(sch, ty, "message") -> decode_message(sch, sch[ty[2]], buf)
    [] Is(sch, ty, "enum") -> decode_enum(sch[ty[2]], buf)
    [] Is(sch, ty, "union") -> decode_union(sch, sch[ty[2]], buf)
    [] OTHER -> decodePrim(ty, buf)

(* What a program calls. *)
Encode(sch, ty, v) == encode_value(sch, ty, v)
Decode(sch, ty, buf) == decode_value_inline(sch, ty, buf)
=============================================================================
