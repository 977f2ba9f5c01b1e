--------------------------- MODULE LanguageServer ---------------------------
(***************************************************************************)
(* volexc/src/bin/volex-lsp: the language server of schemas and an editor. *)
(* The server takes one message at a time, keeps the documents it was sent *)
(* with what compile made of them, answers requests from what it keeps,    *)
(* and publishes diagnostics after every text.  The editor (external) goes *)
(* on typing, asking and applying edits without waiting for answers.       *)
(*                                                                         *)
(* A position is the token it lies in: lines, columns and offsets are left *)
(* out.  All documents are checked for Rust, as the server does.           *)
(***************************************************************************)
EXTENDS Checker

CONSTANTS
  Uris,        \* the documents
  Texts,       \* what may be opened: a sequence of token sequences
  Edited,      \* the indices of those a user goes on with
  Typed,       \* the indices of those another text is changed to
  NewName,     \* the name a rename asks for
  MaxSent,     \* messages the editor sends, a bound
  MaxAsked     \* requests among them, a bound
ASSUME BoundsAssumption == MaxSent \in Nat /\ MaxAsked \in Nat

VARIABLES
  documents,   \* uri -> VolexLsp.documents; some is FALSE for none
  running,     \* "up", "ended" after a shutdown, or "crashed"
  inbox,       \* messages to the server
  outbox,      \* messages to the editor
  text,        \* uri -> what the editor shows, Closed for none
  shown,       \* uri -> the diagnostics it shows
  asked,       \* requests without an answer, with the text they are about
  last,        \* the last request that was answered, and its answer
  sent         \* the number of messages the editor has sent
vars == <<documents, running, inbox, outbox, text, shown, asked, last, sent>>
editor == <<text, shown, asked, last, sent>>

Closed == <<>>
NoDocument == [some |-> FALSE, text |-> Closed, schema |-> NoSchema, errors |-> {}]
NoAnswer == [some |-> FALSE, spans |-> {}, edits |-> {}, hover |-> <<>>]
NoLast == [kind |-> "none", id |-> 0, uri |-> CHOOSE u \in Uris: TRUE, at |-> 0,
           declaration |-> FALSE, text |-> Closed, answer |-> NoAnswer]

Init ==
  /\ documents = [u \in Uris |-> NoDocument]
  /\ running = "up"
  /\ inbox = <<>> /\ outbox = <<>>
  /\ text = [u \in Uris |-> Closed]
  /\ shown = [u \in Uris |-> {}]
  /\ asked = {}
  /\ last = NoLast
  /\ sent = 0

(***************************************************************************)
(* What the server computes of a document.                                 *)
(***************************************************************************)
At(x, p) == x.from <= p /\ p < x.to

\* Of a response only the type itself is looked at, and in all of its span.
NamedTypes(it) ==
  LET found(part) == IF it.kind = "service" THEN SubTypes(part.types[1]) \union {part.types[2]}
                     ELSE UNION {SubTypes(ty): ty \in Range(part.types)}
  IN {ty \in UNION {found(part): part \in Range(it.parts)}: ty.kind = "named"}

\* The definition or the reference at p: a set of at most one.
find_item_at_position(items, p) ==
  {[definition |-> TRUE, name |-> it.name.node, span |-> SpanOf(it.name), item |-> it]:
     it \in {i \in Range(items): At(i.name, p)}}
  \union UNION {{[definition |-> FALSE, name |-> ty.name, span |-> SpanOf(ty), item |-> it]:
                   ty \in {n \in NamedTypes(it): At(n, p)}}: it \in {i \in Range(items): At(i, p)}}

Definition(items, name) == IF Defined(items, name) THEN {SpanOf(item(items, name).name)} ELSE {}
\* A mutant: arrays and maps are not looked into.
ReferencesOutside(items, name) ==
  {SpanOf(ty): ty \in {n \in UNION {Range(Types(it)): it \in Range(items)}: n.kind = "named" /\ n.name = name}}
collect_type_references(items, name) ==
  {SpanOf(ty): ty \in {n \in UNION {NamedTypes(it): it \in Range(items)}: n.name = name}}

goto_definition(items, found) ==
  IF found.definition THEN [NoAnswer EXCEPT !.some = TRUE, !.spans = {found.span}]
  ELSE IF Defined(items, found.name)
       THEN [NoAnswer EXCEPT !.some = TRUE, !.spans = {SpanOf(item(items, found.name))}] ELSE NoAnswer
hover(items, found) ==
  LET kind == IF found.definition THEN found.item.kind
              ELSE IF Defined(items, found.name) THEN item(items, found.name).kind ELSE "Type"
  IN [NoAnswer EXCEPT !.some = TRUE, !.hover = <<kind, found.name>>]
\* The definition is included if the editor asks for it (include_declaration).
references(items, found, declaration) ==
  [NoAnswer EXCEPT !.some = TRUE,
     !.spans = collect_type_references(items, found.name)
               \union (IF declaration THEN Definition(items, found.name) ELSE {})]
\* A mutant: the definition keeps its name.
RenameUses(items, found) ==
  [NoAnswer EXCEPT !.some = TRUE,
     !.edits = {[from |-> s.from, to |-> s.to, new |-> NewName]: s \in collect_type_references(items, found.name)}]
rename(items, found) ==
  [NoAnswer EXCEPT !.some = TRUE,
     !.edits = {[from |-> s.from, to |-> s.to, new |-> NewName]: 
                 s \in Definition(items, found.name) \union collect_type_references(items, found.name)}]

\* Enums count from 0, everything else from 1.
create_renumber_action(it) ==
  {[from |-> it.parts[p].index.from, to |-> it.parts[p].index.to,
    new |-> Ints[IF it.kind = "enum" THEN p ELSE p + 1]]: p \in DOMAIN it.parts}
code_action(items, found) ==
  IF found.definition /\ found.item.kind # "struct" /\ found.item.parts # <<>>
  THEN [NoAnswer EXCEPT !.some = TRUE, !.edits = create_renumber_action(found.item)] ELSE NoAnswer

Requests == {"definition", "hover", "references", "rename", "codeAction"}
Answer(doc, m) ==
  LET items == doc.schema.items
      found == find_item_at_position(items, m.at)
      f == CHOOSE x \in found: TRUE
  IN IF ~doc.some \/ ~doc.schema.some \/ found = {} THEN NoAnswer
     ELSE CASE m.kind = "definition" -> goto_definition(items, f)
            [] m.kind = "hover" -> hover(items, f)
            [] m.kind = "references" -> references(items, f, m.declaration)
            [] m.kind = "rename" -> rename(items, f)
            [] OTHER -> code_action(items, f)

\* One diagnostic for each label, or one for an error without any.
diagnostics(doc) ==
  UNION {IF e.at = <<>> THEN {[msg |-> e.msg, span |-> [from |-> 0, to |-> 0]]}
         ELSE {[msg |-> e.msg, span |-> s]: s \in Range(e.at)}: e \in doc.errors}

(***************************************************************************)
(* The server: main_loop.                                                  *)
(***************************************************************************)
Serves(kinds) == running = "up" /\ inbox # <<>> /\ Head(inbox).kind \in kinds
Document(t) ==
  LET c == compile(t, "Rust") IN [some |-> TRUE, text |-> t, schema |-> c.schema, errors |-> c.errors]
Publish(u, found) == Append(outbox, [kind |-> "publishDiagnostics", uri |-> u, diagnostics |-> found])

\* A mutant: only errors are published.
PublishErrors ==
  /\ Serves({"didOpen", "didChange"})
  /\ LET m == Head(inbox)
         doc == Document(m.text)
     IN /\ compile(m.text, "Rust").returns
        /\ documents' = [documents EXCEPT ![m.uri] = doc]
        /\ outbox' = IF doc.errors = {} THEN outbox ELSE Publish(m.uri, diagnostics(doc))
        /\ inbox' = Tail(inbox)
  /\ UNCHANGED <<running, editor>>
\* didOpen and didChange: the text is compiled, kept, and its errors told.
\* (Of several changes only the first would be taken: an editor that was told
\* to send whole texts sends one.)
update_document ==
  /\ Serves({"didOpen", "didChange"})
  /\ LET m == Head(inbox)
         doc == Document(m.text)
     IN IF compile(m.text, "Rust").returns
        THEN /\ documents' = [documents EXCEPT ![m.uri] = doc]
             /\ outbox' = Publish(m.uri, diagnostics(doc))
             /\ inbox' = Tail(inbox)
             /\ UNCHANGED running
        ELSE /\ running' = "crashed"
             /\ UNCHANGED <<documents, inbox, outbox>>
  /\ UNCHANGED editor

did_close ==
  /\ Serves({"didClose"})
  /\ documents' = [documents EXCEPT ![Head(inbox).uri] = NoDocument]
  /\ inbox' = Tail(inbox)
  /\ UNCHANGED <<running, outbox, editor>>

\* A mutant: there is no answer where there is nothing to answer.
AnswerFound ==
  /\ Serves(Requests)
  /\ LET m == Head(inbox)
         answer == Answer(documents[m.uri], m)
     IN outbox' = IF answer.some THEN Append(outbox, [kind |-> "response", id |-> m.id, answer |-> answer]) ELSE outbox
  /\ inbox' = Tail(inbox)
  /\ UNCHANGED <<documents, running, editor>>
handle_request ==
  /\ Serves(Requests)
  /\ LET m == Head(inbox)
     IN outbox' = Append(outbox, [kind |-> "response", id |-> m.id, answer |-> Answer(documents[m.uri], m)])
  /\ inbox' = Tail(inbox)
  /\ UNCHANGED <<documents, running, editor>>

\* handle_shutdown answers and waits for exit; main_loop returns.
handle_shutdown ==
  /\ Serves({"shutdown"})
  /\ running' = "ended"
  /\ inbox' = Tail(inbox)
  /\ UNCHANGED <<documents, outbox, editor>>

ServerStep == update_document \/ did_close \/ handle_request \/ handle_shutdown

(***************************************************************************)
(* The editor.  After a shutdown it sends nothing more.                    *)
(***************************************************************************)
Send(m) ==
  /\ sent < MaxSent
  /\ \A i \in DOMAIN inbox: inbox[i].kind # "shutdown"
  /\ running # "ended"
  /\ inbox' = Append(inbox, m)
  /\ sent' = sent + 1
  /\ UNCHANGED <<documents, running, outbox>>

Open(u, t) ==
  /\ Send([kind |-> "didOpen", uri |-> u, text |-> t])
  /\ text' = [text EXCEPT ![u] = t]
  /\ UNCHANGED <<shown, asked, last>>

ChangeTo(u, t) ==
  /\ Send([kind |-> "didChange", uri |-> u, text |-> t])
  /\ text' = [text EXCEPT ![u] = t]
  /\ last' = NoLast
  /\ UNCHANGED <<shown, asked>>
EditedTexts == {Texts[i]: i \in Edited}
Change(u, t) == text[u] \in EditedTexts \ {t} /\ ChangeTo(u, t)

Close(u) ==
  /\ text[u] \in EditedTexts
  /\ Send([kind |-> "didClose", uri |-> u])
  /\ text' = [text EXCEPT ![u] = Closed]
  /\ last' = NoLast
  /\ UNCHANGED <<shown, asked>>

Words(u) ==
  IF text[u] \in EditedTexts THEN {p \in DOMAIN text[u]: IsIdent(text[u][p]) \/ text[u][p] = "stream"} ELSE {}
\* Only a request for references says whether it wants the definition too.
Ask(u, kind, p, declaration) ==
  /\ declaration => kind = "references"
  /\ Cardinality(asked) + (IF last = NoLast THEN 0 ELSE 1) < MaxAsked
  /\ Send([kind |-> kind, uri |-> u, id |-> sent, at |-> p, declaration |-> declaration])
  /\ asked' = asked \union {[kind |-> kind, id |-> sent, uri |-> u, at |-> p,
                              declaration |-> declaration, text |-> text[u]]}
  /\ last' = NoLast
  /\ UNCHANGED <<text, shown>>

ApplyEdits(t, edits) ==
  LET Starts(p) == {e \in edits: e.from = p}
      Covered(p) == \E e \in edits: At(e, p)
  IN FlattenSeq([p \in DOMAIN t |-> IF Starts(p) # {} THEN <<(CHOOSE e \in Starts(p): TRUE).new>>
                                    ELSE IF Covered(p) THEN <<>> ELSE <<t[p]>>])

\* Edits for a text that has changed since are thrown away.
Apply ==
  /\ last.answer.edits # {}
  /\ text[last.uri] = last.text
  /\ ChangeTo(last.uri, ApplyEdits(last.text, last.answer.edits))

Shutdown == Send([kind |-> "shutdown"]) /\ last' = NoLast /\ UNCHANGED <<text, shown, asked>>

ReceiveDiagnostics ==
  /\ outbox # <<>> /\ Head(outbox).kind = "publishDiagnostics"
  /\ shown' = [shown EXCEPT ![Head(outbox).uri] = Head(outbox).diagnostics]
  /\ outbox' = Tail(outbox)
  /\ UNCHANGED <<documents, running, inbox, text, asked, last, sent>>
ReceiveAnswer ==
  /\ outbox # <<>> /\ Head(outbox).kind = "response"
  /\ \E a \in asked:
       /\ a.id = Head(outbox).id
       /\ asked' = asked \ {a}
       /\ last' = [kind |-> a.kind, id |-> a.id, uri |-> a.uri, at |-> a.at, text |-> a.text,
                   declaration |-> a.declaration, answer |-> Head(outbox).answer]
  /\ outbox' = Tail(outbox)
  /\ UNCHANGED <<documents, running, inbox, text, shown, sent>>
Receive == ReceiveDiagnostics \/ ReceiveAnswer

EditorStep ==
  \/ \E u \in Uris:
       \/ text[u] = Closed /\ \E i \in DOMAIN Texts: Open(u, Texts[i])
       \/ \E i \in Typed: Change(u, Texts[i])
       \/ Close(u)
       \/ \E p \in Words(u), kind \in Requests, declaration \in BOOLEAN: Ask(u, kind, p, declaration)
  \/ Apply \/ Shutdown

Next == ServerStep \/ EditorStep \/ Receive

\* A step of the server, by what it does to its queue: no other step does it.
Takes ==
  /\ running = "up" /\ inbox # <<>>
  /\ \/ inbox' = Tail(inbox) /\ running' \in {"up", "ended"}
     \/ inbox' = inbox /\ running' = "crashed"
Spec == Init /\ [][Next]_vars /\ WF_<<inbox, running>>(Takes) /\ WF_vars(Receive)

(***************************************************************************)
(* Properties.                                                             *)
(***************************************************************************)
(* The type invariant.                                                     *)
TypeOK ==
  /\ running \in {"up", "ended", "crashed"}
  /\ sent \in 0 .. MaxSent
  /\ \A u \in Uris:
       /\ documents[u].some /\ documents[u].errors = {} => documents[u].schema.some
       /\ \A d \in shown[u]: d.span.from <= d.span.to
  /\ \A a \in asked: a.kind \in Requests /\ a.id \in 0 .. sent /\ a.uri \in Uris
  /\ last.kind \in Requests \union {"none"}

(* Whatever the order of typing, publishing and closing: once no message   *)
(* is on its way, the editor shows the diagnostics of the text it shows,   *)
(* and the server keeps that text (update_document, send_diagnostics).     *)
DiagnosticsSettle ==
  running = "up" /\ inbox = <<>> /\ outbox = <<>> =>
    \A u \in Uris: text[u] # Closed =>
      /\ documents[u].some /\ documents[u].text = text[u]
      /\ shown[u] = diagnostics(Document(text[u]))

(* What the text alone says of a name: where it is defined, and used.      *)
DefinitionsIn(t, name) == {p \in DOMAIN t: t[p] = name /\ Tok(t, p - 1) \in Kinds}
UsesIn(t, name) ==
  {p \in DOMAIN t: /\ t[p] = name
                   /\ \/ Tok(t, p - 1) \in {":", "[", "(", "->", "stream"}
                      \/ Tok(t, p - 1) = "{" /\ ~IsIdent(Tok(t, p - 2))}
\* The server does not look into the types of responses, and takes the word
\* `stream` for a part of the name: names used there are left out.
InsideResponse(t, p) ==
  \E q \in 1 .. p - 2: t[q] = "->" /\ "=" \notin {t[i]: i \in q .. p}
HiddenUse(t, name) == \E p \in UsesIn(t, name): InsideResponse(t, p)
Asked == last.text[last.at]
Clean(t) == parse(t).errors = {}

\* The definition that is gone to is one of the name under the cursor, and
\* is found whenever there is one.
GoesToDefinition ==
  LET t == last.text
      isUse == IsIdent(Asked) /\ last.at \in UsesIn(t, Asked)
  IN /\ \A s \in last.answer.spans:
          \/ s.from \in DefinitionsIn(t, Asked)
          \/ s.from + 1 \in DefinitionsIn(t, Asked)
          \/ t[last.at] = "stream"
     /\ Clean(t) /\ isUse /\ (InsideResponse(t, last.at) => t[last.at - 1] = "stream") =>
          (last.answer.some <=> DefinitionsIn(t, Asked) # {})

\* The spans of an answer, or of its edits, are the uses of a name, and where
\* it is defined if that was asked for: all of them, if the text has no syntax
\* error.
FindsUses ==
  LET t == last.text
      found == {[from |-> s.from, to |-> s.to]: s \in last.answer.spans \union last.answer.edits}
      defs == IF last.kind = "rename" \/ last.declaration THEN DefinitionsIn(t, Asked) ELSE {}
      right == {[from |-> p, to |-> p + 1]:
                  p \in UsesIn(t, Asked) \union (IF defs = {} THEN {} ELSE {Min(defs)})}
  IN IF Clean(t) THEN found = right
     ELSE found \subseteq {[from |-> p, to |-> p + 1]: p \in UsesIn(t, Asked) \union defs}

Renameable == last.answer.some /\ ~HiddenUse(last.text, Asked) /\ Asked # "stream"

(* Look-ups answer what the text says of the name under the cursor, and    *)
(* nothing else; also in a text with syntax errors, from what the parser   *)
(* recovered (goto_definition, references, rename).                        *)
AnswersAreExact ==
  /\ last.kind = "definition" => GoesToDefinition
  /\ last.kind \in {"references", "rename"} /\ Renameable => FindsUses

IndexErrors == {"duplicate index", "index 0 is reserved"}

(* Edits keep a schema acceptable.  One that a language accepts is still   *)
(* accepted when a name of it was changed to one it does not use.          *)
(* Renumbering takes the errors of indices away from an item, and neither  *)
(* takes any other error away nor adds one.                                *)
EditsAreAccepted ==
  LET t == last.text
      edited == ApplyEdits(t, last.answer.edits)
      errors(x) == compile(x, "Rust").errors
      touches(e) == \E s \in Range(e.at): \E d \in last.answer.edits: d.from = s.from
  IN /\ last.kind = "rename" /\ Renameable =>
          \A lang \in Languages: Accepted(t, lang) => Accepted(edited, lang)
     /\ last.kind = "codeAction" /\ last.answer.some =>
          errors(edited) = {e \in errors(t): e.msg \in IndexErrors => ~touches(e)}

(* All that a type is made of, in any number of steps.                     *)
Reached(items, ty) ==
  LET grow(S) == S \union UNION {SubTypes(x): x \in UNION {Range(Types(item(items, n.name))):
                                                 n \in {x \in S: x.kind = "named" /\ Defined(items, x.name)}}}
  IN FoldLeft(LAMBDA S, i: grow(S), SubTypes(ty), items)
KindsReached(items, ty) ==
  {IF x.kind = "named" THEN item(items, x.name).kind ELSE x.kind: x \in Reached(items, ty)}
NotComparable == [Rust |-> {"f32", "f64", "map"},
                  Go |-> {"f32", "f64", "map", "array", "union"},
                  Typescript |-> {"f32", "f64", "map", "array", "union", "struct", "message"}]
AcceptedFor(doc, lang) ==
  doc.schema.some /\ SyntaxError \notin doc.errors /\ ~Diverges(doc.schema.items, lang)
  /\ check(doc.schema.items, lang) = {}

(* A key of a map in an accepted schema is made of comparable types only,  *)
(* in the language it is accepted for; in Rust the generated type has the  *)
(* traits its hash map needs (checker.rs against codegen_rust.rs).         *)
KeysAreComparable ==
  \A u \in Uris, lang \in Languages: AcceptedFor(documents[u], lang) =>
    LET items == documents[u].schema.items
    IN \A k \in Keys(items):
         /\ KindsReached(items, k) \cap NotComparable[lang] = {}
         /\ lang = "Rust" =>
              {"Eq", "Hash"} \subseteq {trait \in DerivableTraits: can_derive(items, k, trait, {})}

(* A generated Rust type derives just the traits that all it is made of    *)
(* allows, however the types refer to each other (can_derive).             *)
DerivesAreExact ==
  \A u \in Uris: AcceptedFor(documents[u], "Rust") =>
    LET items == documents[u].schema.items
    IN \A i \in {j \in DOMAIN items: items[j].kind # "service"}, trait \in DerivableTraits \ {"Default"}:
         trait \in gen_derive_attr(items, items[i]) <=>
           \A ty \in Range(Types(items[i])): KindsReached(items, ty) \cap Underivable(trait) = {}

\* The key of a map leads back to its own type (the recursion of
\* validate_map_key_type).
HasRecursiveKey(t) ==
  LET items == parse(t).schema.items
      again(x) == /\ x.kind = "named" /\ Defined(items, x.name)
                  /\ \E ty \in Range(Types(item(items, x.name))): \E y \in Reached(items, ty): y.name = x.name
  IN \E k \in Keys(items): \E x \in Reached(items, k): again(x)
CrashedOnKey == running = "crashed" /\ HasRecursiveKey(Head(inbox).text)

(* Every request is answered, unless the server crashed, and it crashes on *)
(* no text but one in which the key of a map leads back to its own type.   *)
RequestsAreAnswered ==
  \A id \in 0 .. MaxSent: (\E a \in asked: a.id = id) ~> (CrashedOnKey \/ ~\E a \in asked: a.id = id)
=============================================================================
