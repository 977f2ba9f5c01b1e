------------------------------ MODULE Exchange ------------------------------
(***************************************************************************)
(* What doc/wire_format.md and doc/reference.md promise of values that are *)
(* passed between programs that know different versions of a schema: no    *)
(* bytes and no languages here.  Fields are found by their index; one that *)
(* a version does not know is dropped, one that it does not get has its    *)
(* default; an unknown variant is an error.                                *)
(***************************************************************************)
EXTENDS Schema

CONSTANT Root      \* the type that is exchanged
VARIABLES case,    \* [old |-> schema, new |-> schema, v |-> a value of the new Root]
          version, \* the version that the holder of the value knows
          val, status
vars == <<case, version, val, status>>

ByNumber(fs, i) == CHOOSE f \in Range(fs): f.index = i
Numbers(fs) == {fs[i].index : i \in DOMAIN fs}

\* The defaults that the documents give; none for types of the schema.
DocumentedDefault(f) ==
  CASE f.optional -> <<>>
    [] f.ty[1] = "bool" -> FALSE
    [] f.ty[1] \in {"string", "array", "map"} -> <<>>
    [] OTHER -> 0

\* Every variant in v is one that `to` has too.
RECURSIVE Known(_, _, _, _)
KnownFields(from, to, fs, gs, v) ==
  \A i \in DOMAIN fs: fs[i].name \in NamesOf(gs) =>
    LET f == fs[i]
    IN IF f.optional THEN v[f.name] = <<>> \/ Known(from, to, f.ty, v[f.name][1])
       ELSE Known(from, to, f.ty, v[f.name])
Known(from, to, ty, v) ==
  CASE ty[1] = "array" -> \A i \in DOMAIN v: Known(from, to, ty[2], v[i])
    [] ty[1] = "map" -> \A i \in DOMAIN v: Known(from, to, ty[2], v[i][1]) /\ Known(from, to, ty[3], v[i][2])
    [] Is(from, ty, "struct") \/ Is(from, ty, "message") ->
         KnownFields(from, to, from[ty[2]].fields, to[ty[2]].fields, v)
    [] Is(from, ty, "enum") -> v \in NamesOf(to[ty[2]].variants)
    [] Is(from, ty, "union") ->
         LET n == CHOOSE n \in DOMAIN v: TRUE
         IN n \in NamesOf(to[ty[2]].variants) /\ Known(from, to, ByName(to[ty[2]].variants, n).ty, v[n])
    [] OTHER -> TRUE

\* The value v of `from` as the version `to` sees it.
RECURSIVE Evolve(_, _, _, _)
EvolveFields(from, to, fs, v) ==
  [n \in NamesOf(fs) |->
     LET f == ByName(fs, n)
     IN CASE n \notin DOMAIN v -> DocumentedDefault(f)
          [] n \in DOMAIN v /\ f.optional -> [i \in DOMAIN v[n] |-> Evolve(from, to, f.ty, v[n][i])]
          [] OTHER -> Evolve(from, to, f.ty, v[n])]
Evolve(from, to, ty, v) ==
  CASE ty[1] = "array" -> [i \in DOMAIN v |-> Evolve(from, to, ty[2], v[i])]
    [] ty[1] = "map" -> [i \in DOMAIN v |-> <<Evolve(from, to, ty[2], v[i][1]), Evolve(from, to, ty[3], v[i][2])>>]
    [] Is(from, ty, "struct") \/ Is(from, ty, "message") -> EvolveFields(from, to, to[ty[2]].fields, v)
    [] Is(from, ty, "union") -> [n \in DOMAIN v |-> Evolve(from, to, ByName(to[ty[2]].variants, n).ty, v[n])]
    [] OTHER -> v

Init ==
  /\ version = "new" /\ val = case.v /\ status = "held"

Pass(to) ==
  /\ status = "held"
  /\ Known(case[version], case[to], Root, val)
  /\ val' = Evolve(case[version], case[to], Root, val)
  /\ version' = to
  /\ UNCHANGED <<case, status>>

Lose == status = "held" /\ status' = "lost" /\ UNCHANGED <<case, version, val>>

Next == (\E to \in {"old", "new"}: Pass(to)) \/ Lose
Spec == Init /\ [][Next]_vars
=============================================================================
