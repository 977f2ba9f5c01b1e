------------------------------- MODULE Schema -------------------------------
(***************************************************************************)
(* The schema as the code generators see it (volexc/src/schema.rs).        *)
(*                                                                         *)
(* A type is a tuple: <<"u8">>, <<"array", t>>, <<"map", k, v>> or         *)
(* <<"named", n>>.  A schema is a function from names to items:            *)
(*   [item: "struct",  fields: Seq([name, ty, optional])]                  *)
(*   [item: "message", fields: Seq([name, ty, optional, index])]           *)
(*   [item: "enum",    variants: Seq([name, index])]                       *)
(*   [item: "union",   variants: Seq([name, ty, index])], ty may be Unit   *)
(* Only what TLC evaluates uses this module: it declares RECURSIVE         *)
(* operators.                                                              *)
(***************************************************************************)
EXTENDS Integers, Sequences, SequencesExt, FiniteSetsExt, TLC

Unit == <<"unit">>            \* no payload
Variable == -1                \* None of fixed_size

WireFixed8 == 0
WireVarint == 1
WireFixed32 == 2
WireFixed64 == 3
WireLengthed == 4
WireMessage == 5
WireUnion == 6
WireUnit == 7

Unsigned == {"u16", "u32", "u64"}
Signed == {"i16", "i32", "i64"}
Named(n) == <<"named", n>>
Is(sch, ty, item) == ty[1] = "named" /\ sch[ty[2]].item = item

NamesOf(fs) == {fs[i].name : i \in DOMAIN fs}
ByName(fs, n) == CHOOSE f \in Range(fs): f.name = n
Types(fs) == [i \in DOMAIN fs |-> fs[i].ty]
\* The fields or variants in the order in which they are encoded.
ByIndex(fs) == SortSeq(fs, LAMBDA f, g: f.index < g.index)

(* Bytes that every value of the type takes, or Variable. *)
RECURSIVE fixed_size(_, _)

struct_fixed_size(sch, s) ==
  LET sizes == [i \in DOMAIN s.fields |-> fixed_size(sch, s.fields[i].ty)]
  IN IF \E i \in DOMAIN sizes: s.fields[i].optional \/ sizes[i] = Variable
     THEN Variable
     ELSE FoldSeq(+, 0, sizes)

fixed_size(sch, ty) ==
  CASE ty[1] \in {"bool", "u8", "i8"} -> 1
    [] ty[1] = "f32" -> 4
    [] ty[1] = "f64" -> 8
    [] Is(sch, ty, "struct") -> struct_fixed_size(sch, sch[ty[2]])
    [] OTHER -> Variable

(* How a field of the type can be skipped by who does not know it. *)
wire_type(sch, ty) ==
  CASE ty[1] \in {"bool", "u8", "i8"} -> WireFixed8
    [] ty[1] \in Unsigned \union Signed \/ Is(sch, ty, "enum") -> WireVarint
    [] ty[1] = "f32" -> WireFixed32
    [] ty[1] = "f64" -> WireFixed64
    [] ty[1] \in {"string", "array", "map"} \/ Is(sch, ty, "struct") -> WireLengthed
    [] Is(sch, ty, "message") -> WireMessage
    [] Is(sch, ty, "union") -> WireUnion
    [] ty = Unit -> WireUnit
=============================================================================
