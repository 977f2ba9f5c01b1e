-------------------------- MODULE MCLanguageServer --------------------------
(***************************************************************************)
(* The texts the language server is checked with: schemas a user edits,    *)
(* sound and broken ones, and small ones for every way in which the key of *)
(* a map can be made of other types.                                       *)
(***************************************************************************)
EXTENDS LanguageServer

\* A field of a message, a method of a service.
Field(name, type, index) == <<name, ":">> \o type \o <<"=", index, ";">>
Method(name, request, response, index) ==
  <<"fn", name, "(">> \o request \o <<")", "->">> \o response \o <<"=", index, ";">>
ItemText(kind, name, parts) == <<kind, name, "{">> \o FlattenSeq(parts) \o <<"}">>

AllKinds == FlattenSeq(<<
  ItemText("struct", "S", <<<<"A", ":", "S2", ";">>, <<"b", "?", ":", "{", "E", ":", "S2", "}", ";">>>>),
  ItemText("struct", "S2", <<<<"x", ":", "u8", ";">>>>),
  ItemText("enum", "E", <<<<"x", "=", "0", ";">>, <<"S2", "=", "1", ";">>>>)>>)
Union == FlattenSeq(<<
  ItemText("union", "U", <<<<"A", "(", "A", ")", "=", "1", ";">>, <<"U", "=", "2", ";">>, <<"c", "(", "[", "U", "]", ")", "=", "3", ";">>>>),
  ItemText("message", "A", <<Field("u", <<"{", "u8", ":", "U", "}">>, "1")>>)>>)
Services == FlattenSeq(<<
  ItemText("service", "V", <<Method("f", <<"M">>, <<"M">>, "1"), Method("g", <<"[", "M", "]">>, <<"stream", "E">>, "2"),
                             Method("h", <<"E">>, <<"[", "E", "]">>, "2")>>),
  ItemText("message", "M", <<Field("m", <<"M">>, "1")>>),
  ItemText("enum", "E", <<<<"x", "=", "0", ";">>>>)>>)
Indices == FlattenSeq(<<
  ItemText("message", "M", <<Field("a", <<"u8">>, "0"), Field("b", <<"M">>, "2"), Field("c", <<"N">>, "2"),
                         Field("d", <<"{", "Z", ":", "u8", "}">>, "3")>>),
  ItemText("enum", "N", <<<<"a", "=", "3", ";">>, <<"b", "=", "3", ";">>>>),
  ItemText("union", "W", <<<<"a", "(", "M", ")", "=", "0", ";">>>>)>>)
Duplicates == FlattenSeq(<<
  ItemText("struct", "D", <<<<"a", ":", "D2", ";">>, <<"a", ":", "D", ";">>>>),
  ItemText("enum", "D", <<<<"a", "=", "1", ";">>>>),
  ItemText("message", "X", <<Field("d", <<"D">>, "1"), Field("d", <<"V">>, "2")>>),
  ItemText("service", "V", <<>>)>>)
\* A field without a name, and one that stops short.
BrokenField == FlattenSeq(<<
  ItemText("message", "M", <<<<":", "u8", "=", "1", ";">>, Field("b", <<"N">>, "1"), <<"c", ":">>>>),
  ItemText("struct", "N", <<<<"m", ":", "M", ";">>>>)>>)
\* Words between two items, and an item whose body is none, but whose
\* brackets match: what is behind it is found.
BrokenItem == ItemText("enum", "N", <<<<"x", "=", "1", ";">>>>) \o <<"lost", "words">>
              \o ItemText("message", "M", <<Field("n", <<"N">>, "1")>>)
              \o <<"struct", "B", "{", "(", "{", "M", "}", ")", "}">>
              \o ItemText("struct", "C", <<<<"m", ":", "M", ";">>>>)
\* The brackets of the body do not match: there is no schema.
UnmatchedItem == ItemText("enum", "N", <<<<"x", "=", "1", ";">>>>)
                 \o <<"struct", "B", "{", "(", "{", "N", "}", "}">>
                 \o ItemText("message", "M", <<Field("n", <<"N">>, "1")>>)
Unclosed == SubSeq(AllKinds, 1, Len(AllKinds) - 1)
BadLexeme == <<"$">> \o AllKinds
SelfKey == ItemText("message", "M", <<Field("m", <<"M">>, "1"), Field("k", <<"{", "M", ":", "u8", "}">>, "2")>>)
Shared == <<AllKinds, Union, Services, Indices, Duplicates, BrokenField, BrokenItem, Unclosed, BadLexeme, SelfKey, UnmatchedItem>>

\* struct or message or union A of a field, message B of another, a map of a key.
FieldTypes == <<<<"u8">>, <<"f32">>, <<"string">>, <<"A">>, <<"B">>, <<"[", "B", "]">>, <<"{", "u8", ":", "A", "}">>>>
KeyTypes == <<<<"A">>, <<"[", "A", "]">>, <<"[", "u8", "]">>>>
First(kind, type) ==
  CASE kind = "struct" -> ItemText(kind, "A", <<<<"x", ":">> \o type \o <<";">>>>)
    [] kind = "union" -> ItemText(kind, "A", <<<<"x", "(">> \o type \o <<")", "=", "1", ";">>>>)
    [] OTHER -> ItemText(kind, "A", <<Field("x", type, "1")>>)
KeyText(kind, one, two, key) ==
  First(kind, one) \o ItemText("message", "B", <<Field("z", <<"u8">>, "1"), Field("y", two, "2")>>)
  \o ItemText("message", "K", <<Field("k", <<"{">> \o key \o <<":", "A", "}">>, "1")>>)
KeyTexts ==
  FlattenSeq([k \in DOMAIN KeyTypes |->
    FlattenSeq([i \in DOMAIN FieldTypes |->
      FlattenSeq([j \in DOMAIN FieldTypes |->
        <<KeyText("struct", FieldTypes[i], FieldTypes[j], KeyTypes[k]),
          KeyText("message", FieldTypes[i], FieldTypes[j], KeyTypes[k]),
          KeyText("union", FieldTypes[i], FieldTypes[j], KeyTypes[k])>>])])])

SomeTexts == Shared \o KeyTexts
EditedOnes == DOMAIN Shared
TypedOnes == {1, 6, 10}
=============================================================================
