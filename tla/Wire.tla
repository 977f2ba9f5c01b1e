-------------------------------- MODULE Wire --------------------------------
(***************************************************************************)
(* Programs in Rust, Go and TypeScript that hand a message on: each reads  *)
(* it with the codec generated from its own version of the schema, and     *)
(* writes it again.  Behind the message are other bytes (Trailer), that    *)
(* are not the reader's; or the end of it is missing (Cut).                *)
(***************************************************************************)
EXTENDS WireBytes

CONSTANTS Cases, Root, Trailer

VARIABLES case,    \* one of Cases: the two versions of the schema, the value, who takes part
          at,      \* [lang, ver]: the program that holds the value; lang is "" on the wire
          val,     \* what it holds, and what was last held
          buf,     \* bytes that were sent
          pc       \* "held", "sent", "cut", or "refused"
vars == <<case, at, val, buf, pc>>

Rust == INSTANCE WireRust
Go == INSTANCE WireGo
Ts == INSTANCE WireTs

Encode(lang, sch, v) == CASE lang = "rust" -> Rust!Encode(sch, Root, v)
                          [] lang = "go" -> Go!Encode(sch, Root, v)
                          [] lang = "ts" -> Ts!Encode(sch, Root, v)
Decode(lang, sch, b) == CASE lang = "rust" -> Rust!Decode(sch, Root, b)
                          [] lang = "go" -> Go!Decode(sch, Root, b)
                          [] lang = "ts" -> Ts!Decode(sch, Root, b)

Init ==
  /\ \E i \in DOMAIN Cases: case = Cases[i]
  /\ at \in [lang: case.langs, ver: {"new"}]
  /\ val = case.v
  /\ buf = <<>> /\ pc = "held"

Write ==
  /\ pc = "held"
  /\ buf' = Encode(at.lang, case[at.ver], val) \o Trailer
  /\ at' = [at EXCEPT !.lang = ""]
  /\ pc' = "sent"
  /\ UNCHANGED <<case, val>>

Cut ==
  /\ pc = "sent"
  /\ \E n \in 0 .. Len(buf) - Len(Trailer) - 1: buf' = SubSeq(buf, 1, n)
  /\ pc' = "cut"
  /\ UNCHANGED <<case, at, val>>

\* The program in lang takes what decoding gave, r, for its value.
Accept(lang, ver, r) ==
  /\ at' = [lang |-> lang, ver |-> IF r.ok THEN ver ELSE at.ver]
  /\ val' = IF r.ok THEN r.v ELSE val
  /\ buf' = IF r.ok THEN r.rest ELSE buf
  /\ pc' = IF r.ok THEN "held" ELSE "refused"
  /\ UNCHANGED case
Receive(lang, ver) ==
  /\ pc = "sent" \/ (pc = "cut" /\ lang # "ts")
  /\ Accept(lang, ver, Decode(lang, case[ver], buf))

Next == Write \/ Cut \/ \E lang \in case.langs, ver \in {"old", "new"}: Receive(lang, ver)
Spec == Init /\ [][Next]_vars
----------------------------------------------------------------------------
Sch == case[at.ver]
Documented ==
  INSTANCE Exchange WITH version <- at.ver, status <- IF pc = "refused" THEN "lost" ELSE "held"

(* A value that is passed on any number of times, between languages and    *)
(* versions of the schema, arrives as the documents say: what both sides   *)
(* know is kept, what one does not know is skipped or has its default.     *)
ArrivesAsDocumented == Documented!Spec

(* A reader takes exactly the bytes of the message, known and unknown      *)
(* fields alike, and none that follow.                                     *)
ReadsToTheEnd == pc = "held" => buf \in {<<>>, Trailer}

(* Programs that hold the same value send the same bytes, whatever their   *)
(* language, and whatever was done to the value before.                    *)
WritersAgree ==
  pc = "held" => \A l \in case.langs: Encode(l, Sch, val) = Encode(at.lang, Sch, val)

(* A message that was cut anywhere before its end is never taken for a     *)
(* shorter one (Rust and Go).                                              *)
TruncationIsSeen == [][pc = "cut" => pc' = "refused"]_vars

(* Rust and Go refuse a whole message only for a variant they do not know. *)
OnlyUnknownVariantsAreRefused ==
  pc = "sent" => \A ver \in {"old", "new"}:
    Documented!Known(Sch, case[ver], Root, val)
      => \A l \in case.langs \ {"ts"}: Decode(l, case[ver], buf).ok

(* The same of every language, which doc/wire_format.md promises.          *)
UnknownFieldsAreSkipped ==
  pc = "sent" /\ Documented!Known(Sch, case.old, Root, val)
    => \A l \in case.langs: Decode(l, case.old, buf).ok
=============================================================================
