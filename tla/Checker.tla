------------------------------ MODULE Checker ------------------------------
(***************************************************************************)
(* volexc/src/checker.rs, the rules a parsed schema has to keep, and what  *)
(* codegen_rust.rs decides of an accepted one: the traits an item derives. *)
(* A schema is the sequence of its items, a language one of Languages.     *)
(***************************************************************************)
EXTENDS SchemaParser

Languages == {"Rust", "Go", "Typescript"}

Error(msg, spans) == [msg |-> msg, at |-> spans]
SpanOf(x) == [from |-> x.from, to |-> x.to]

(* Schema::item finds the first of several definitions of a name.          *)
Defined(items, name) == \E i \in DOMAIN items: items[i].name.node = name
item(items, name) == items[SelectInSeq(items, LAMBDA i: i.name.node = name)]
Types(it) == FlattenSeq([p \in DOMAIN it.parts |-> it.parts[p].types])

check_duplicate_definitions(items) ==
  {Error("duplicate definition", [i \in DOMAIN same |-> SpanOf(same[i].name)]):
     same \in {s \in {SelectSeq(items, LAMBDA i: i.name.node = it.name.node): it \in Range(items)}: Len(s) > 1}}

\* Of labels (names, indices) only the first use is kept: later ones repeat it.
Repeated(labels, msg) ==
  {Error(msg, <<SpanOf(labels[SelectInSeq(labels, LAMBDA l: l.node = labels[j].node)]), SpanOf(labels[j])>>):
     j \in {k \in DOMAIN labels: \E i \in 1 .. k - 1: labels[i].node = labels[k].node}}

\* Enums may use index 0; structs have no indices.
check_indices(it) ==
  LET indices == [p \in DOMAIN it.parts |-> it.parts[p].index]
      zeros == IF it.kind = "enum" THEN {} ELSE {x \in Range(indices): x.node = 0}
  IN Repeated(indices, "duplicate index") \union {Error("index 0 is reserved", <<SpanOf(x)>>): x \in zeros}
check_parts(it) ==
  Repeated([p \in DOMAIN it.parts |-> it.parts[p].name], "duplicate name")
  \union IF it.kind = "struct" THEN {} ELSE check_indices(it)

(***************************************************************************)
(* validate_map_key_type: [verdict, chain], where the chain leads from the *)
(* offending type out to the key.  path has the names being validated: the *)
(* code does not keep them, and never returns when one comes up again.     *)
(***************************************************************************)
Valid == [verdict |-> "valid", chain |-> <<>>]
Invalid(ty) == [verdict |-> "invalid", chain |-> <<SpanOf(ty)>>]
NeverEnds == [verdict |-> "diverges", chain |-> <<>>]
Outward(r, ty) == IF r.verdict = "invalid" THEN [r EXCEPT !.chain = Append(@, SpanOf(ty))] ELSE r

Refused(lang) == CASE lang = "Rust" -> {"f32", "f64", "map", "service"}
                   [] lang = "Go" -> {"f32", "f64", "map", "service", "array", "union"}
                   [] OTHER -> {"f32", "f64", "map", "service", "array", "union", "struct", "message"}

RECURSIVE validate_map_key_type(_, _, _, _)
\* A mutant: only the first field is looked at.
ValidateFirst(items, lang, types, path) ==
  IF types = <<>> THEN Valid ELSE validate_map_key_type(items, lang, types[1], path)
validate_fields_as_map_key(items, lang, types, path) ==
  LET seen[n \in 0 .. Len(types)] ==
        IF n = 0 THEN Valid
        ELSE LET r == seen[n - 1]
             IN IF r = Valid THEN validate_map_key_type(items, lang, types[n], path) ELSE r
  IN seen[Len(types)]
validate_map_key_type(items, lang, ty, path) ==
  LET it == item(items, ty.name)
      kind == IF ty.kind = "named" THEN it.kind ELSE ty.kind
  IN IF ty.kind = "named" /\ ~Defined(items, ty.name) THEN Valid
     ELSE IF kind \in Refused(lang) THEN Invalid(ty)
     ELSE IF kind = "array" THEN Outward(validate_map_key_type(items, lang, ty.args[1], path), ty)
     ELSE IF kind \notin {"struct", "message", "union"} THEN Valid
     ELSE IF ty.name \in path THEN NeverEnds
     ELSE Outward(validate_fields_as_map_key(items, lang, Types(it), path \union {ty.name}), ty)

check_map_key_type(items, lang, ty) ==
  LET r == validate_map_key_type(items, lang, ty, {})
  IN IF r.verdict = "invalid" THEN {Error("invalid map key type", r.chain)} ELSE {}

RECURSIVE SubTypes(_)
SubTypes(ty) == {ty} \union UNION {SubTypes(a): a \in Range(ty.args)}
AllTypes(items) == UNION {SubTypes(ty): ty \in UNION {Range(Types(it)): it \in Range(items)}}
Keys(items) == {ty.args[1]: ty \in {t \in AllTypes(items): t.kind = "map"}}

check_named(items, ty) ==
  IF ~Defined(items, ty.name) THEN {Error("undefined type", <<SpanOf(ty)>>)}
  ELSE IF item(items, ty.name).kind = "service" THEN {Error("services cannot be used as types", <<SpanOf(ty)>>)}
  ELSE {}

check_types(items, lang) ==
  UNION {check_named(items, ty): ty \in {t \in AllTypes(items): t.kind = "named"}}
  \union UNION {check_map_key_type(items, lang, k): k \in Keys(items)}

check(items, lang) ==
  check_duplicate_definitions(items) \union UNION {check_parts(it): it \in Range(items)}
  \union check_types(items, lang)
Diverges(items, lang) ==
  \E k \in Keys(items): validate_map_key_type(items, lang, k, {}).verdict = "diverges"

(* compile of lib.rs: returns is FALSE when it would not.                  *)
Compiled(r, lang) ==
  [schema |-> r.schema,
   returns |-> ~Diverges(r.schema.items, lang),
   errors |-> r.errors \union check(r.schema.items, lang)]
compile(t, lang) == Compiled(parse(t), lang)
WithoutErrors(c) == c.returns /\ c.errors = {}
Accepted(t, lang) == WithoutErrors(compile(t, lang))

(***************************************************************************)
(* can_derive of codegen_rust.rs; checking is derive_checking.             *)
(***************************************************************************)
DerivableTraits == {"Debug", "Copy", "Clone", "PartialEq", "Eq", "Hash", "Default"}
Underivable(trait) == CASE trait = "Copy" -> {"string", "array", "map"}
                        [] trait = "Hash" -> {"f32", "f64", "map"}
                        [] trait = "Eq" -> {"f32", "f64"}
                        [] OTHER -> {}
RECURSIVE can_derive(_, _, _, _)
can_derive_item(items, it, trait, checking) ==
  \A ty \in Range(Types(it)): can_derive(items, ty, trait, checking)
\* A mutant: a type that contains itself derives nothing.
DeriveNoCycles(items, ty, trait, checking) ==
  /\ ty.kind \notin Underivable(trait)
  /\ \A a \in Range(ty.args): can_derive(items, a, trait, checking)
  /\ ty.kind = "named" =>
       /\ ty.name \notin checking
       /\ can_derive_item(items, item(items, ty.name), trait, checking \union {ty.name})
can_derive(items, ty, trait, checking) ==
  /\ ty.kind \notin Underivable(trait)
  /\ \A a \in Range(ty.args): can_derive(items, a, trait, checking)
  /\ ty.kind = "named" =>
       \/ ty.name \in checking
       \/ can_derive_item(items, item(items, ty.name), trait, checking \union {ty.name})

gen_derive_attr(items, it) ==
  {trait \in DerivableTraits: can_derive_item(items, it, trait, {})
                              /\ ~(trait = "Default" /\ it.kind = "union")}
=============================================================================
