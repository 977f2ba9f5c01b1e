------------------------------- MODULE MCWire -------------------------------
(* A corpus of types, each in the field x that the new version of the      *)
(* message adds between two others, and versions that differ deeper down.  *)
EXTENDS Wire

CONSTANT Few    \* TRUE: only what shows that TypeScript refuses unknown fields

Field(n, ty) == [name |-> n, ty |-> ty, optional |-> FALSE]
Opt(f) == [f EXCEPT !.optional = TRUE]
Indexed(i, f) == [name |-> f.name, ty |-> f.ty, optional |-> f.optional, index |-> i]
Variant(i, n, ty) == [name |-> n, ty |-> ty, index |-> i]
Constant(i, n) == [name |-> n, index |-> i]
Struct(fs) == [item |-> "struct", fields |-> fs]
Message(fs) == [item |-> "message", fields |-> fs]
Enum(vs) == [item |-> "enum", variants |-> vs]
Union_(vs) == [item |-> "union", variants |-> vs]
ArrayOf(t) == <<"array", t>>
MapOf(k, t) == <<"map", k, t>>

u8 == <<"u8">>
u16 == <<"u16">>
f32 == <<"f32">>
bool == <<"bool">>
string == <<"string">>

InnerFields == <<Indexed(7, Opt(Field("q", string))), Indexed(2, Field("p", u8))>>
ColorVariants == <<Constant(5, "Blue"), Constant(0, "Red")>>
ShapeVariants == <<Variant(3, "Dot", Named("Point")), Variant(1, "None", Unit),
                   Variant(2, "Name", string), Variant(4, "Many", ArrayOf(u8)),
                   Variant(5, "Deep", Named("Inner")),
                   Variant(7, "Sub", Named("Leaf"))>>

Library ==
  [Point |-> Struct(<<Field("a", u8), Field("b", f32)>>),
   Tagged |-> Struct(<<Opt(Field("o1", u8)), Field("n", string), Opt(Field("o2", u16)),
                       Opt(Field("o3", bool)), Opt(Field("o4", Named("Point")))>>),
   Inner |-> Message(InnerFields),
   Color |-> Enum(ColorVariants),
   Leaf |-> Union_(<<Variant(1, "L", f32)>>),
   Shape |-> Union_(ShapeVariants)]

Numbers == <<bool, u8, <<"i8">>, u16, <<"i16">>, <<"u32">>, <<"i32">>, <<"u64">>, <<"i64">>,
             f32, <<"f64">>>>
Items == [i \in 1 .. 6 |-> Named(<<"Point", "Tagged", "Inner", "Color", "Leaf", "Shape">>[i])]
Plain == Numbers \o <<string>>
Nested == <<ArrayOf(ArrayOf(u8)), ArrayOf(MapOf(u8, u16)), MapOf(u8, f32), MapOf(string, u8),
            MapOf(u16, ArrayOf(bool)), MapOf(Named("Color"), Named("Shape")),
            MapOf(string, Named("Tagged"))>>
Corpus == Plain \o Items \o Nested \o [i \in 1 .. Len(Plain \o Items) |-> ArrayOf((Plain \o Items)[i])]

\* Values of a type, with those at the ends of its range.
Boundary(ty) ==
  CASE ty[1] = "bool" -> <<FALSE, TRUE>>
    [] ty[1] \in Unsigned \union {"u8"} -> <<0, 2^Bits(ty) - 1>>
    [] ty[1] \in Signed \union {"i8"} -> <<-(2^(Bits(ty) - 1)), -1, 2^(Bits(ty) - 1) - 1>>
    [] ty[1] = "f32" -> <<0, 2^(4 * ByteBits) - 1>>
    [] ty[1] = "f64" -> <<0, 2^(8 * ByteBits) - 2>>
    [] ty[1] = "string" -> <<<<>>, <<7, 0, 1, 2, 3>>>>
RECURSIVE Samples(_)
Record(fs, last) ==
  [n \in NamesOf(fs) |->
     LET f == ByName(fs, n)
         s == Samples(f.ty)
         v == IF last THEN s[Len(s)] ELSE s[1]
     IN IF ~f.optional THEN v
        ELSE IF last = (n \in {"o2", "o3"}) THEN <<>> ELSE <<v>>]
Samples(ty) ==
  CASE ty[1] = "array" -> <<<<>>, Samples(ty[2])>>
    [] ty[1] = "map" ->
         LET ks == Samples(ty[2])
             vs == Samples(ty[3])
         IN <<<<>>, [i \in DOMAIN ks |-> <<ks[i], vs[(i % Len(vs)) + 1]>>]>>
    [] Is(Library, ty, "struct") \/ Is(Library, ty, "message") ->
         LET fs == Library[ty[2]].fields IN <<Record(fs, FALSE), Record(fs, TRUE)>>
    [] Is(Library, ty, "enum") ->
         LET vs == Library[ty[2]].variants IN [i \in DOMAIN vs |-> vs[i].name]
    [] Is(Library, ty, "union") ->
         LET vs == Library[ty[2]].variants
         IN [i \in DOMAIN vs |-> LET s == Samples(vs[i].ty) IN [n \in {vs[i].name} |-> s[Len(s)]]]
    [] ty = Unit -> <<Unit>>
    [] OTHER -> Boundary(ty)

All == {"rust", "go", "ts"}
\* Numbers that TypeScript cannot hold stay out of it.
Langs(ty, v) == IF \/ ty[1] \in {"u64", "i64"} /\ v \notin -64 .. 511
                   \/ ty \in {ArrayOf(<<"u64">>), ArrayOf(<<"i64">>)} /\ v # <<>>
                THEN {"rust", "go"} ELSE All

Common == <<Indexed(3, Field("z", u8)), Indexed(1, Field("id", u16))>>
Case(x, v) == [langs |-> Langs(x.ty, v), old |-> Library @@ [M |-> Message(Common)],
               new |-> Library @@ [M |-> Message(<<Indexed(2, x)>> \o Common)],
               v |-> [x |-> IF x.optional THEN <<v>> ELSE v, z |-> 6, id |-> 15]]
Added(x) == LET vs == Samples(x.ty) IN [i \in DOMAIN vs |-> Case(x, vs[i])]
AddedEach(types) == FlattenSeq([i \in DOMAIN types |-> Added(Field("x", types[i]))])
AddedOpt(types) == FlattenSeq([i \in DOMAIN types |-> Added(Opt(Field("x", types[i])))])
\* The documents give it a default.
Defaulted(ty) == ty[1] # "named"

\* Both versions have x, but its type has changed inside: an added field or variant.
Grown == [Library EXCEPT
  !.Inner = Message(<<Indexed(5, Field("r", ArrayOf(Named("Point"))))>> \o InnerFields),
  !.Color = Enum(ColorVariants \o <<Constant(2, "Green")>>),
  !.Shape = Union_(ShapeVariants \o <<Variant(6, "More", u16)>>)]
WithX(sch, ty) == sch @@ [M |-> Message(<<Indexed(2, Field("x", ty))>> \o Common)]
Changed(ty, v) == [langs |-> All, old |-> WithX(Library, ty), new |-> WithX(Grown, ty),
                   v |-> [x |-> v, z |-> 6, id |-> 15]]
GrownInner == [p |-> 3, q |-> <<<<1>>>>, r |-> <<[a |-> 1, b |-> 9]>>]
Deeper == <<Changed(ArrayOf(Named("Inner")), <<GrownInner, GrownInner>>),
            Changed(Named("Shape"), [Deep |-> GrownInner]),
            Changed(Named("Shape"), [More |-> 15]),
            Changed(ArrayOf(Named("Color")), <<"Red", "Green">>),
            Changed(ArrayOf(Named("Color")), <<"Red", "Blue">>)>>
MCCases == IF Few THEN AddedEach(<<u8, string>>)
           ELSE Deeper \o AddedEach(SelectSeq(Corpus, Defaulted)) \o AddedOpt(Corpus)
MCRoot == Named("M")
MCTrailer == <<1>>
=============================================================================
