---------------------------- MODULE SchemaParser ----------------------------
(***************************************************************************)
(* volexc/src/parser.rs: tokens to a schema in which every name, type and  *)
(* index keeps its span, with what is recovered after syntax errors (by    *)
(* the strategies of the chumsky library, as parser.rs uses them).         *)
(*                                                                         *)
(* A text is a sequence of tokens, a span the positions from |-> to it     *)
(* covers (to is the first one after it).  The lexer is left out, but for  *)
(* a token that it refuses (BadToken).                                     *)
(***************************************************************************)
EXTENDS Integers, Sequences, SequencesExt, FiniteSetsExt, TLC

Kinds == {"struct", "message", "enum", "union", "service"}
Primitives == {"bool", "u8", "u16", "u32", "u64", "i8", "i16", "i32", "i64", "f32", "f64", "string"}
Symbols == {"{", "}", "[", "]", "(", ")", ":", "->", "=", "?", ";"}
Ints == <<"0", "1", "2", "3", "4", "5", "6", "7">>
BadToken == "$"
EndOfInput == ""
IsIdent(tok) ==
  tok \notin Kinds \union Primitives \union Symbols \union Range(Ints)
             \union {"fn", "stream", BadToken, EndOfInput}

Tok(t, p) == IF p \in DOMAIN t THEN t[p] ELSE EndOfInput
Hit(v, at) == [ok |-> TRUE, v |-> v, at |-> at]
Miss == [ok |-> FALSE]
Spanned(node, p, q) == [node |-> node, from |-> p, to |-> q]

(* A type: kind is a primitive, "array", "map" or "named".                 *)
TypeNode(kind, name, args, p, q) == [kind |-> kind, name |-> name, args |-> args, from |-> p, to |-> q]

RECURSIVE Type(_, _)
\* What follows the bracket at p: inner, or the key k and the value v.
ArrayType(t, p, inner) ==
  IF inner.ok /\ Tok(t, inner.at) = "]"
  THEN Hit(TypeNode("array", "", <<inner.v>>, p, inner.at + 1), inner.at + 1) ELSE Miss
MapValue(t, p, k, v) ==
  IF v.ok /\ Tok(t, v.at) = "}" THEN Hit(TypeNode("map", "", <<k.v, v.v>>, p, v.at + 1), v.at + 1) ELSE Miss
MapType(t, p, k) ==
  IF k.ok /\ Tok(t, k.at) = ":" THEN MapValue(t, p, k, Type(t, k.at + 1)) ELSE Miss
Type(t, p) ==
  LET tok == Tok(t, p)
  IN CASE tok \in Primitives -> Hit(TypeNode(tok, "", <<>>, p, p + 1), p + 1)
       [] IsIdent(tok) -> Hit(TypeNode("named", tok, <<>>, p, p + 1), p + 1)
       [] tok = "[" -> ArrayType(t, p, Type(t, p + 1))
       [] tok = "{" -> MapType(t, p, Type(t, p + 1))
       [] OTHER -> Miss

(***************************************************************************)
(* Fields, variants and methods are parts: types holds none, the type, or  *)
(* the request and the response of a method.  A rule is what a part is     *)
(* made of; what is no token of the language stands for more than one.     *)
(***************************************************************************)
Rule == [struct  |-> <<"name", "?", ":", "type", ";">>,
         message |-> <<"name", "?", ":", "type", "=", "int", ";">>,
         enum    |-> <<"name", "=", "int", ";">>,
         union   |-> <<"name", "payload", "=", "int", ";">>,
         service |-> <<"fn", "name", "(", "type", ")", "->", "response", "=", "int", ";">>]

NoIndex == Spanned(-1, 0, 0)
NoPart == [name |-> Spanned("", 0, 0), optional |-> FALSE, types |-> <<>>,
           stream |-> FALSE, index |-> NoIndex]
\* The type r was found for a part.
AddType(part, r) == IF r.ok THEN Hit([part EXCEPT !.types = Append(@, r.v)], r.at) ELSE Miss

\* Without a `)` behind the type there is no payload.
Payload(t, p, part, r) ==
  IF Tok(t, p) = "(" /\ r.ok /\ Tok(t, r.at) = ")" THEN AddType(part, [r EXCEPT !.at = @ + 1]) ELSE Hit(part, p)

\* The type of a response takes the span of the response, `stream` included.
Response(t, p, part, r) ==
  IF r.ok THEN Hit([part EXCEPT !.types = Append(@, [r.v EXCEPT !.from = p]), !.stream = Tok(t, p) = "stream"], r.at)
  ELSE Miss

Symbol(t, r, sym) ==
  LET p == r.at
      tok == Tok(t, p)
  IN CASE sym = "name" ->
            IF IsIdent(tok) THEN Hit([r.v EXCEPT !.name = Spanned(tok, p, p + 1)], p + 1) ELSE Miss
       [] sym = "int" ->
            IF tok \in Range(Ints)
            THEN Hit([r.v EXCEPT !.index = Spanned(SelectInSeq(Ints, LAMBDA i: i = tok) - 1, p, p + 1)], p + 1)
            ELSE Miss
       [] sym = "type" -> AddType(r.v, Type(t, p))
       [] sym = "payload" -> Payload(t, p, r.v, Type(t, p + 1))
       [] sym = "response" -> Response(t, p, r.v, Type(t, IF tok = "stream" THEN p + 1 ELSE p))
       [] sym = "?" -> IF tok = "?" THEN Hit([r.v EXCEPT !.optional = TRUE], p + 1) ELSE r
       [] OTHER -> IF tok = sym THEN Hit(r.v, p + 1) ELSE Miss
RECURSIVE Follow(_, _, _)
Follow(t, rule, r) ==
  IF rule = <<>> \/ ~r.ok THEN r ELSE Follow(t, Tail(rule), Symbol(t, r, Head(rule)))
Part(t, p, kind) == Follow(t, Rule[kind], Hit(NoPart, p))

\* What is found, marked as clean or as recovered; the first of two that is a hit.
Marked(r, clean) == IF r.ok THEN [ok |-> TRUE, v |-> r.v, at |-> r.at, clean |-> clean] ELSE Miss
OrElse(r, s) == IF r.ok THEN r ELSE s
\* A list of parts or items, and where it ends.
NoneFound(p) == [all |-> <<>>, at |-> p, clean |-> TRUE]
WithFound(found, s) == [all |-> Append(found.all, s.v), at |-> s.at, clean |-> found.clean /\ s.clean]

\* skip_then_retry_until: another start, not beyond a `;` nor into the `}`.
RECURSIVE RecoverPart(_, _, _)
RecoverPart(t, p, kind) ==
  IF Tok(t, p) \in {";", "}", EndOfInput} THEN Miss
  ELSE OrElse(Part(t, p + 1, kind), RecoverPart(t, p + 1, kind))
PartOrRecovered(t, p, kind) ==
  OrElse(Marked(Part(t, p, kind), TRUE), Marked(RecoverPart(t, p, kind), FALSE))

RECURSIVE Parts(_, _, _)
PartsAfter(t, kind, found, next) == IF next.ok THEN Parts(t, kind, WithFound(found, next)) ELSE found
Parts(t, kind, found) == PartsAfter(t, kind, found, PartOrRecovered(t, found.at, kind))

\* nested_delimiters: behind the `}` that belongs to the `{` at p, or 0.
\* Brackets of all three kinds have to match on the way: awaited are those
\* still to be closed, the innermost one first.
Closer == ("{" :> "}") @@ ("(" :> ")") @@ ("[" :> "]")
RECURSIVE Skip(_, _, _)
Skip(t, p, awaited) ==
  LET tok == Tok(t, p)
  IN CASE awaited = <<>> -> p
       [] awaited # <<>> /\ tok \in DOMAIN Closer -> Skip(t, p + 1, <<Closer[tok]>> \o awaited)
       [] awaited # <<>> /\ tok = Head(awaited) -> Skip(t, p + 1, Tail(awaited))
       [] awaited # <<>> /\ tok \notin DOMAIN Closer \union Range(Closer) \union {EndOfInput} -> Skip(t, p + 1, awaited)
       [] OTHER -> 0
Closing(t, p) == IF Tok(t, p) = "{" THEN Skip(t, p + 1, <<"}">>) ELSE 0

ItemWith(t, p, body) ==
  LET whole == Tok(t, p + 2) = "{" /\ Tok(t, body.at) = "}"
      after == IF whole THEN body.at + 1 ELSE Closing(t, p + 2)
  IN IF ~whole /\ after = 0 THEN Miss
     ELSE [ok |-> TRUE, at |-> after, clean |-> whole /\ body.clean,
           v |-> [kind |-> Tok(t, p), name |-> Spanned(Tok(t, p + 1), p + 1, p + 2),
                  parts |-> IF whole THEN body.all ELSE <<>>, from |-> p, to |-> after]]
Item(t, p) ==
  IF Tok(t, p) \notin Kinds \/ ~IsIdent(Tok(t, p + 1)) THEN Miss
  ELSE ItemWith(t, p, Parts(t, Tok(t, p), NoneFound(p + 3)))

\* An item that needs recovery itself is no place to go on at.
Unbroken(r) == IF r.ok /\ r.clean THEN r ELSE Miss
RECURSIVE RecoverItem(_, _)
RecoverItem(t, p) ==
  IF Tok(t, p) \in Kinds \union {EndOfInput} THEN Miss
  ELSE OrElse(Unbroken(Item(t, p + 1)), RecoverItem(t, p + 1))
ItemOrRecovered(t, p) == OrElse(Item(t, p), Marked(RecoverItem(t, p), FALSE))

RECURSIVE Items(_, _)
ItemsAfter(t, found, next) == IF next.ok THEN Items(t, WithFound(found, next)) ELSE found
Items(t, found) == ItemsAfter(t, found, ItemOrRecovered(t, found.at))

NoSchema == [some |-> FALSE, items |-> <<>>]
SyntaxError == [msg |-> "syntax error", at |-> <<>>]
Parsed(t, r) ==
  LET whole == BadToken \notin Range(t) /\ r.at = Len(t) + 1
  IN [schema |-> IF whole THEN [some |-> TRUE, items |-> r.all] ELSE NoSchema,
      errors |-> IF whole /\ r.clean THEN {} ELSE {SyntaxError}]
parse(t) == Parsed(t, Items(t, NoneFound(1)))
=============================================================================
