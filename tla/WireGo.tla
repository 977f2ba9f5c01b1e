------------------------------- MODULE WireGo -------------------------------
(***************************************************************************)
(* The wire codec that volexc/src/codegen_go.rs generates, over the        *)
(* runtime of runtime-go/volex.go.                                         *)
(***************************************************************************)
EXTENDS WireBytes

RECURSIVE encode_value(_, _, _), decode_value_inline(_, _, _), decode_each(_, _, _), zero(_, _)

EncodeEach(sch, ty, v) == EncodeItems(ty, v, LAMBDA t, x: encode_value(sch, t, x))
decode_each(sch, tys, r) ==
  IF tys = <<>> \/ ~r.ok THEN r
  ELSE decode_each(sch, Tail(tys), Appended(r.v, decode_value_inline(sch, Head(tys), r.rest)))
DecodeN(sch, ty, n, buf) == Gathered(ty, decode_each(sch, ItemTypes(ty, n), Ok(<<>>, buf)))
EncodeCounted(sch, ty, v) == encode_leb128_u64[Len(v)] \o EncodeEach(sch, ty, v)

decode_array(sch, ty, buf) ==
  LET n == decode_leb128_u64(buf) IN IF n.ok THEN DecodeN(sch, ty, n.v, n.rest) ELSE n
decode_map(sch, ty, buf) ==
  LET n == decode_leb128_u64(buf) IN IF n.ok THEN DecodeN(sch, ty, n.v, n.rest) ELSE n

(* A field of a message, the payload of a union: a string and items of a   *)
(* fixed size have no count of their own behind the length of the field.   *)
\* (CountAlways is a mutant.)
CountAlways(sch, ty, v) == IF ty[1] = "string" THEN v ELSE encode_value(sch, ty, v)
encode_value_to_buf(sch, ty, v) ==
  CASE ty[1] = "string" -> v
    [] ty[1] \in {"array", "map"} /\ entry_size(sch, ty) # Variable -> EncodeEach(sch, ty, v)
    [] OTHER -> encode_value(sch, ty, v)
encode_tagged_field(sch, f, v) ==
  LET wire == wire_type(sch, f.ty)
  IN encode_tag(f.index, wire) \o
     (IF wire = WireLengthed THEN EncodeString(encode_value_to_buf(sch, f.ty, v))
      ELSE encode_value(sch, f.ty, v))

\* Every item is bounds checked, their number against the length is not.
decode_array_from_bytes(sch, ty, length, buf) ==
  LET size == entry_size(sch, ty)
  IN IF size = Variable THEN decode_array(sch, ty, buf) ELSE DecodeN(sch, ty, length \div size, buf)
decode_map_from_bytes(sch, ty, length, buf) ==
  LET size == entry_size(sch, ty)
  IN IF size = Variable THEN decode_map(sch, ty, buf) ELSE DecodeN(sch, ty, length \div size, buf)
\* The slice of the buffer that becomes the string.
SliceString(length, buf) ==
  IF length > Len(buf) THEN Err("panic: slice bounds out of range") ELSE Take(length, buf)
decode_tagged_field(sch, ty, buf) ==
  LET length == decode_leb128_u64(buf)
      lengthed == wire_type(sch, ty) = WireLengthed
  IN CASE lengthed /\ ~length.ok -> length
       [] lengthed /\ length.ok /\ ty[1] = "string" -> SliceString(length.v, length.rest)
       [] lengthed /\ length.ok /\ ty[1] = "array" -> decode_array_from_bytes(sch, ty, length.v, length.rest)
       [] lengthed /\ length.ok /\ ty[1] = "map" -> decode_map_from_bytes(sch, ty, length.v, length.rest)
       [] OTHER -> decode_value_inline(sch, ty, IF lengthed THEN length.rest ELSE buf)

(* gen_struct. *)
encode_struct(sch, s, v) ==
  EncodePresence(s.fields, v) \o EncodeFields(s.fields, v, LAMBDA f, x: encode_value(sch, f.ty, x))
decode_struct(sch, s, buf) ==
  LET present == decode_presence_bits(Len(Optionals(s.fields)), buf)
      there == Announced(s.fields, present.v)
  IN IF present.ok THEN Filled(s.fields, there, decode_each(sch, Types(there), Ok(<<>>, present.rest)))
     ELSE present

(* What a variable holds before it is assigned.  The zero of an enum is 0, *)
(* a variant or not; the zero of a union becomes its variant of the lowest *)
(* index when it is first looked at.                                       *)
NoVariant == "0"
zero_fields(sch, fs) ==
  [n \in NamesOf(fs) |-> LET f == ByName(fs, n) IN IF f.optional THEN <<>> ELSE zero(sch, f.ty)]
zero_enum(e) ==
  LET at == SelectInSeq(e.variants, LAMBDA x: x.index = 0)
  IN IF at = 0 THEN NoVariant ELSE e.variants[at].name
init(sch, u) ==
  LET f == ByIndex(u.variants)[1] IN [n \in {f.name} |-> zero(sch, f.ty)]
zero(sch, ty) ==
  CASE ty[1] = "bool" -> FALSE
    [] ty[1] \in {"string", "array", "map"} -> <<>>
    [] Is(sch, ty, "enum") -> zero_enum(sch[ty[2]])
    [] Is(sch, ty, "union") -> init(sch, sch[ty[2]])
    [] Is(sch, ty, "struct") \/ Is(sch, ty, "message") -> zero_fields(sch, sch[ty[2]].fields)
    [] ty = Unit -> Unit
    [] OTHER -> 0

(* gen_message. *)
encode_message(sch, m, v) ==
  EncodeFields(ByIndex(m.fields), v, LAMBDA f, x: encode_tagged_field(sch, f, x))
    \o encode_message_end

\* r: the fields that were read, and the rest of the buffer.
RECURSIVE decode_fields(_, _, _)
decode_fields(sch, fs, r) ==
  LET tag == decode_tag(r.rest)
      at == IndexAt(fs, tag.v.index)
  IN CASE ~r.ok -> r
       [] r.ok /\ ~tag.ok -> tag
       [] r.ok /\ tag.ok /\ tag.v.end -> Ok(r.v, tag.rest)
       [] OTHER -> decode_fields(sch, fs, Updated(r.v, fs, at,
                     IF at = 0 THEN skip_by_wire_type(tag.v.wire, tag.rest)
                     ELSE decode_tagged_field(sch, fs[at].ty, tag.rest)))
decode_message(sch, m, buf) == decode_fields(sch, m.fields, Ok(zero_fields(sch, m.fields), buf))

(* gen_enum. *)
encode_enum(e, v) ==
  EncodePrim(<<"u32">>, IF v = NoVariant THEN 0 ELSE ByName(e.variants, v).index)
decode_enum(e, buf) ==
  Then(DecodePrim(<<"u32">>, buf), LAMBDA index, rest:
    LET at == SelectInSeq(e.variants, LAMBDA x: x.index = index)
    IN IF at = 0 THEN Err("ErrUnknownEnumVariant") ELSE Ok(e.variants[at].name, rest))

(* gen_union. *)
encode_union(sch, u, v) ==
  LET f == ByName(u.variants, VariantOf(v))
  IN IF f.ty = Unit THEN encode_tag(f.index, WireUnit) ELSE encode_tagged_field(sch, f, v[f.name])
decode_union(sch, u, buf) ==
  LET tag == decode_tag(buf)
      at == IndexAt(u.variants, tag.v.index)
      f == u.variants[at]
  IN CASE ~tag.ok -> tag
       [] tag.ok /\ at = 0 -> Err("ErrUnknownUnionVariant")
       [] OTHER -> AsVariant(f, IF f.ty = Unit THEN Ok(Unit, tag.rest)
                                ELSE decode_tagged_field(sch, f.ty, tag.rest))

encode_value(sch, ty, v) ==
  CASE ty[1] = "string" -> EncodeString(v)
    [] ty[1] \in {"array", "map"} -> EncodeCounted(sch, ty, v)
    [] Is(sch, ty, "struct") -> encode_struct(sch, sch[ty[2]], v)
    [] Is(sch, ty, "message") -> encode_message(sch, sch[ty[2]], v)
    [] Is(sch, ty, "enum") -> encode_enum(sch[ty[2]], v)
    [] Is(sch, ty, "union") -> encode_union(sch, sch[ty[2]], v)
    [] OTHER -> EncodePrim(ty, v)

decode_call(sch, ty, buf) ==
  CASE ty[1] = "string" -> DecodeString(buf)
    [] Is(sch, ty, "struct") -> decode_struct(sch, sch[ty[2]], buf)
    [] Is(sch, ty, "message") -> decode_message(sch, sch[ty[2]], buf)
    [] Is(sch, ty, "enum") -> decode_enum(sch[ty[2]], buf)
    [] Is(sch, ty, "union") -> decode_union(sch, sch[ty[2]], buf)
    [] OTHER -> DecodePrim(ty, buf)
decode_value_inline(sch, ty, buf) ==
  CASE ty[1] = "array" -> decode_array(sch, ty, buf)
    [] ty[1] = "map" -> decode_map(sch, ty, buf)
    [] OTHER -> decode_call(sch, ty, buf)

(* What a program calls. *)
Encode(sch, ty, v) == encode_value(sch, ty, v)
Decode(sch, ty, buf) == decode_value_inline(sch, ty, buf)
=============================================================================
