------------------------------ MODULE WireRust ------------------------------
(***************************************************************************)
(* The wire codec of a Rust program: the Encode and Decode impls of        *)
(* runtime-rust/src/lib.rs and those volexc/src/codegen_rust.rs generates. *)
(***************************************************************************)
EXTENDS WireBytes

RECURSIVE encode(_, _, _), decode(_, _, _), decode_each(_, _, _), default(_, _)

(* Vec and HashMap. *)
EncodeEach(sch, ty, v) == EncodeItems(ty, v, LAMBDA t, x: encode(sch, t, x))
decode_each(sch, tys, r) ==
  IF tys = <<>> \/ ~r.ok THEN r
  ELSE decode_each(sch, Tail(tys), Appended(r.v, decode(sch, Head(tys), r.rest)))
DecodeN(sch, ty, n, buf) == Gathered(ty, decode_each(sch, ItemTypes(ty, n), Ok(<<>>, buf)))
EncodeCounted(sch, ty, v) == encode_leb128_u64[Len(v)] \o EncodeEach(sch, ty, v)
DecodeCounted(sch, ty, n) == IF n.ok THEN DecodeN(sch, ty, n.v, n.rest) ELSE n

(* The content of a field whose length the caller writes or has read. *)
encode_delimited(sch, ty, v) ==
  CASE ty[1] = "string" -> v
    [] ty[1] \in {"array", "map"} /\ entry_size(sch, ty) # Variable -> EncodeEach(sch, ty, v)
    [] OTHER -> encode(sch, ty, v)

DecodeSized(sch, ty, size, slice) ==
  CASE size = 0 -> Err("panic: division by zero")
    [] size # 0 /\ Len(slice) % size # 0 -> Err("InvalidLength")
    [] OTHER -> DecodeN(sch, ty, Len(slice) \div size, slice)

DecodeSlice(sch, ty, slice) ==
  CASE ~slice.ok -> slice
    [] slice.ok /\ entry_size(sch, ty) = Variable -> DecodeCounted(sch, ty, decode_leb128_u64(slice.v))
    [] OTHER -> DecodeSized(sch, ty, entry_size(sch, ty), slice.v)
Behind(slice, r) == IF r.ok THEN Ok(r.v, slice.rest) ELSE r

decode_delimited(sch, ty, len, buf) ==
  CASE ty[1] = "string" -> Take(len, buf)
    [] ty[1] \in {"array", "map"} -> Behind(Take(len, buf), DecodeSlice(sch, ty, Take(len, buf)))
    [] OTHER -> decode(sch, ty, buf)

(* A field of a message, the payload of a union. *)
encode_field(sch, f, v) ==
  LET wire == wire_type(sch, f.ty)
  IN encode_tag(f.index, wire) \o
     (IF wire = WireLengthed THEN EncodeString(encode_delimited(sch, f.ty, v))
      ELSE encode(sch, f.ty, v))
decode_field(sch, ty, buf) ==
  LET len == decode_leb128_u64(buf)
  IN CASE wire_type(sch, ty) # WireLengthed -> decode(sch, ty, buf)
       [] wire_type(sch, ty) = WireLengthed /\ ~len.ok -> len
       [] OTHER -> decode_delimited(sch, ty, len.v, len.rest)

(* gen_struct. *)
encode_struct(sch, s, v) ==
  EncodePresence(s.fields, v) \o EncodeFields(s.fields, v, LAMBDA f, x: encode(sch, f.ty, x))
decode_struct(sch, s, buf) ==
  LET present == decode_presence_bits(Len(Optionals(s.fields)), buf)
      there == Announced(s.fields, present.v)
  IN IF present.ok THEN Filled(s.fields, there, decode_each(sch, Types(there), Ok(<<>>, present.rest)))
     ELSE present

(* Default: derived, #[default] on the first variant, or generated. *)
default_fields(sch, fs) ==
  [n \in NamesOf(fs) |-> LET f == ByName(fs, n) IN IF f.optional THEN <<>> ELSE default(sch, f.ty)]
default_union(sch, u) ==
  LET f == u.variants[1] IN [n \in {f.name} |-> default(sch, f.ty)]
default(sch, ty) ==
  CASE ty[1] = "bool" -> FALSE
    [] ty[1] \in {"string", "array", "map"} -> <<>>
    [] Is(sch, ty, "enum") -> sch[ty[2]].variants[1].name
    [] Is(sch, ty, "union") -> default_union(sch, sch[ty[2]])
    [] Is(sch, ty, "struct") \/ Is(sch, ty, "message") -> default_fields(sch, sch[ty[2]].fields)
    [] ty = Unit -> Unit
    [] OTHER -> 0

(* gen_message. *)
encode_message(sch, m, v) ==
  EncodeFields(ByIndex(m.fields), v, LAMBDA f, x: encode_field(sch, f, x)) \o encode_message_end

\* r: the fields that were read, and the rest of the buffer.
RECURSIVE decode_fields(_, _, _)
decode_fields(sch, fs, r) ==
  LET tag == decode_tag(r.rest)
      at == IndexAt(fs, tag.v.index)
  IN CASE ~r.ok -> r
       [] r.ok /\ ~tag.ok -> tag
       [] r.ok /\ tag.ok /\ tag.v.end -> Ok(r.v, tag.rest)
       [] OTHER -> decode_fields(sch, fs, Updated(r.v, fs, at,
                     IF at = 0 THEN skip_by_wire_type(tag.v.wire, tag.rest)
                     ELSE decode_field(sch, fs[at].ty, tag.rest)))
decode_message(sch, m, buf) == decode_fields(sch, m.fields, Ok(default_fields(sch, m.fields), buf))

(* gen_enum. *)
encode_enum(e, v) == EncodePrim(<<"u32">>, ByName(e.variants, v).index)
decode_enum(e, buf) ==
  Then(DecodePrim(<<"u32">>, buf), LAMBDA index, rest:
    LET at == SelectInSeq(e.variants, LAMBDA x: x.index = index)
    IN IF at = 0 THEN Err("UnknownEnumVariant") ELSE Ok(e.variants[at].name, rest))

(* gen_union.  The tag of a unit variant is a number in the generated text, *)
(* which the generator computes in 32 bits.                                 *)
encode_union(sch, u, v) ==
  LET f == ByName(u.variants, VariantOf(v))
  IN IF f.ty = Unit THEN encode_leb128_u64[AsUnsigned(f.index * 8, Bits32) + WireUnit]
     ELSE encode_field(sch, f, v[f.name])
decode_union(sch, u, buf) ==
  LET tag == decode_leb128_u64(buf)
      at == IndexAt(u.variants, AsUnsigned(tag.v \div 8, Bits32))
      f == u.variants[at]
  IN CASE ~tag.ok -> tag
       [] tag.ok /\ at = 0 -> Err("UnknownUnionVariant")
       [] OTHER -> AsVariant(f, IF f.ty = Unit THEN Ok(Unit, tag.rest) ELSE decode_field(sch, f.ty, tag.rest))

encode(sch, ty, v) ==
  CASE ty[1] = "string" -> EncodeString(v)
    [] ty[1] \in {"array", "map"} -> EncodeCounted(sch, ty, v)
    [] Is(sch, ty, "struct") -> encode_struct(sch, sch[ty[2]], v)
    [] Is(sch, ty, "message") -> encode_message(sch, sch[ty[2]], v)
    [] Is(sch, ty, "enum") -> encode_enum(sch[ty[2]], v)
    [] Is(sch, ty, "union") -> encode_union(sch, sch[ty[2]], v)
    [] OTHER -> EncodePrim(ty, v)

decode(sch, ty, buf) ==
  CASE ty[1] = "string" -> DecodeString(buf)
    [] ty[1] \in {"array", "map"} -> DecodeCounted(sch, ty, decode_leb128_u64(buf))
    [] Is(sch, ty, "struct") -> decode_struct(sch, sch[ty[2]], buf)
    [] Is(sch, ty, "message") -> decode_message(sch, sch[ty[2]], buf)
    [] Is(sch, ty, "enum") -> decode_enum(sch[ty[2]], buf)
    [] Is(sch, ty, "union") -> decode_union(sch, sch[ty[2]], buf)
    [] OTHER -> DecodePrim(ty, buf)

(* What a program calls. *)
Encode(sch, ty, v) == encode(sch, ty, v)
Decode(sch, ty, buf) == decode(sch, ty, buf)
=============================================================================
