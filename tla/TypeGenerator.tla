---------------------------- MODULE TypeGenerator ----------------------------
(* `rwa-sdk generate-types`: contract schemas, read from files or fetched    *)
(* from the network, become one TypeScript module.                           *)
(*                                                                           *)
(* An entry is its kind, its name and the types it is made of; the text of   *)
(* the module is reduced to its declarations: the form each has and the      *)
(* names it mentions.  Names are model values; Sanitize is the identifier a  *)
(* name is written as.                                                       *)
EXTENDS Integers, Sequences, FiniteSets, SequencesExt

CONSTANTS
    Schema,         \* the schemas that files hold and contracts have
    Type,           \* the types their entries are made of, and the parts of these
    Sanitize,       \* sanitizeIdentifier()
    Manual,         \* names the manual types file exports
    MaxSchemas      \* bound: schemas of one run

(* SpecEntry, and a kind of entry that a contract may have and the generator *)
(* does not know; a struct whose fields are all numbered is a tuple.         *)
EntryKinds == {"struct", "tuple", "union", "enum", "error", "function", "event"}
Entry == [kind : EntryKinds, name : STRING, parts : Seq(Type)]

(* A type: its kind, the name of a user-defined one, and what it is made of. *)
SpecType(kind, name, parts) == [kind |-> kind, name |-> name, parts |-> parts]
Void == SpecType("primitive", "void", <<>>)

(* normalizeXdrType() recognizes each kind of the network's by its name, but *)
(* what a type is made of only in the value() of an XDR union: of a plain    *)
(* object it keeps the kind alone.                                           *)
Outermost(t) ==
    CASE t.kind \in {"option", "vec"} -> [t EXCEPT !.parts = <<Void>>]
      [] t.kind \in {"map", "result"} -> [t EXCEPT !.parts = <<Void, Void>>]
      [] t.kind = "tuple" -> [t EXCEPT !.parts = <<>>]
      [] t.kind = "udt" -> [t EXCEPT !.name = "Unknown"]
      [] OTHER -> t

\* Types are finite trees: among any of them, one is made of no other of these.
ASSUME TypeAssumption ==
    /\ Schema \subseteq [client : STRING, entries : Seq(Entry)]
    /\ Type \subseteq [kind : STRING, name : STRING, parts : Seq(Type)]
    /\ \A t \in Type : (t.kind = "result" => t.parts # <<>>) /\ Outermost(t) \in Type
    /\ \A S \in SUBSET Type : S # {} => \E t \in S : ToSet(t.parts) \cap S = {}

VARIABLES
    asked,      \* the options: the schemas to load, fetched or from a file, and
                \*   what --rpc-url, --out, --no-client and --dry-run say
    loaded,     \* schemas loaded so far
    module,     \* the declarations generated
    warnings,   \* the names warned about: unresolved, or colliding
    outcome     \* "loading", "generated", "written" or "failed"

typeVars == <<asked, loaded, module, warnings, outcome>>

(* How the objects of the network's client show their attributes: as         *)
(* properties, of XDR unions or of plain objects, or by accessors, which the *)
(* generator takes for the attributes.                                       *)
Shapes == {"unions", "plain", "accessors"}

(* normalizeXdrSpecEntry(): an entry is recognized by its kind or by the     *)
(* attributes it has, whichever test comes first, and whatever has cases     *)
(* passes the test for unions before those for enums and errors.             *)
HasCases == {"union", "enum", "error"}
Normalized(entry, shape) ==
    [entry EXCEPT !.kind = IF entry.kind \in HasCases THEN "union" ELSE entry.kind,
                  !.parts = [i \in DOMAIN entry.parts |->
                     IF shape = "plain" THEN Outermost(entry.parts[i]) ELSE entry.parts[i]]]

Recognized(entry, shape) == IF entry.kind = "event" THEN <<>> ELSE <<Normalized(entry, shape)>>

Fetched(schema, shape) ==
    [schema EXCEPT !.entries =
       FlattenSeq([i \in DOMAIN schema.entries |-> Recognized(schema.entries[i], shape)])]

(* An accessor has no map(): the first entry that is recognized throws.      *)
Readable(schema, shape) ==
    shape = "accessors" => \A e \in ToSet(schema.entries) : e.kind = "event"

\* Mutant: the key of a map is not looked into.
MentionedNoKeys(t) ==
    LET names[u \in Type] ==
          CASE u.kind = "udt" -> {u.name}
            [] u.kind = "result" -> names[u.parts[1]]
            [] u.kind = "map" -> names[u.parts[2]]
            [] OTHER -> UNION {names[u.parts[i]] : i \in DOMAIN u.parts}
    IN names[t]

(* specTypeToTs(): the names a type expression mentions.  Of a result only   *)
(* the value is written, the error is thrown.                                *)
Mentioned(t) ==
    LET names[u \in Type] ==
          CASE u.kind = "udt" -> {u.name}
            [] u.kind = "result" -> names[u.parts[1]]
            [] OTHER -> UNION {names[u.parts[i]] : i \in DOMAIN u.parts}
    IN names[t]

(* What is written for a type, names as identifiers. *)
Written(t) ==
    LET names[u \in Type] ==
          CASE u.kind = "udt" -> {Sanitize[u.name]}
            [] u.kind = "result" -> names[u.parts[1]]
            [] OTHER -> UNION {names[u.parts[i]] : i \in DOMAIN u.parts}
    IN names[t]

WrittenIn(entry) == UNION {Written(entry.parts[i]) : i \in DOMAIN entry.parts}

(* emitStruct(), emitUnion() and emitEnum(): a struct whose fields are all   *)
(* numbered is a tuple.                                                      *)
Form(entry) ==
    CASE entry.kind = "struct" -> "interface" [] entry.kind = "tuple" -> "tuple"
      [] entry.kind = "union" -> "union" [] OTHER -> "enum"
Declaration(entry) ==
    [name |-> Sanitize[entry.name], form |-> Form(entry), mentions |-> WrittenIn(entry)]

FunctionKinds == {"function"}
IsType(entry) == entry.kind \notin FunctionKinds
IsFunction(entry) == entry.kind \in FunctionKinds

(* emitClientInterface(): one interface with a method for each function. *)
ClientOf(schema) ==
    LET fns == {e \in ToSet(schema.entries) : IsFunction(e)} IN
    IF fns = {} \/ ~asked.client THEN <<>>
    ELSE <<[name |-> schema.client, form |-> "client", mentions |-> UNION {WrittenIn(e) : e \in fns}]>>

(* What the schema's types and, after them, its client are declared as. *)
Emitted(entry) == IF IsType(entry) THEN <<Declaration(entry)>> ELSE <<>>
Declarations(schema) ==
    FlattenSeq([i \in DOMAIN schema.entries |-> Emitted(schema.entries[i])]) \o ClientOf(schema)

Entries == UNION {ToSet(loaded[k].entries) : k \in DOMAIN loaded}

(* `referenced` after everything is emitted: the methods of a client that is *)
(* not emitted add nothing to it.                                            *)
Referenced ==
    UNION {UNION {Mentioned(t) : t \in ToSet(e.parts)} : e \in {e \in Entries : IsType(e) \/ asked.client}}
Defined == {e.name : e \in {e \in Entries : IsType(e)}}

TypeGenInit ==
    /\ asked \in [schemas : UNION {[1..n -> [schema : Schema, fetched : BOOLEAN]] : n \in 0..MaxSchemas},
                  rpc : BOOLEAN, out : BOOLEAN, client : BOOLEAN, dry : BOOLEAN]
    /\ \A i \in 2..Len(asked.schemas) : asked.schemas[i - 1].fetched => asked.schemas[i].fetched
    /\ \A i \in DOMAIN asked.schemas : \A e \in ToSet(asked.schemas[i].schema.entries) :
         e.kind = "event" => asked.schemas[i].fetched
    /\ loaded = <<>> /\ module = <<>> /\ warnings = {} /\ outcome = "loading"

(* The files are read first, then the contracts fetched; the first that      *)
(* cannot be had, a contract without --rpc-url among them, ends the run.     *)
LoadSchema ==
    LET s == asked.schemas[Len(loaded) + 1] IN
    /\ outcome = "loading" /\ Len(loaded) < Len(asked.schemas)
    /\ IF s.fetched
       THEN /\ asked.rpc
            /\ \E shape \in Shapes :
                 Readable(s.schema, shape) /\ loaded' = Append(loaded, Fetched(s.schema, shape))
       ELSE loaded' = Append(loaded, s.schema)
    /\ UNCHANGED <<asked, module, warnings, outcome>>

LoadFails ==
    /\ outcome = "loading"
    /\ Len(loaded) < Len(asked.schemas) \/ asked.schemas = <<>>
    /\ outcome' = "failed" /\ UNCHANGED <<asked, loaded, module, warnings>>

(* generateTypes() and the writing of --out. *)
GenerateTypes ==
    LET declared == FlattenSeq([k \in DOMAIN loaded |-> Declarations(loaded[k])]) IN
    /\ outcome = "loading" /\ loaded # <<>> /\ Len(loaded) = Len(asked.schemas)
    /\ module' = declared
    /\ warnings' = (Referenced \ Defined) \cup ({declared[i].name : i \in DOMAIN declared} \cap Manual)
    /\ outcome' = IF asked.out /\ ~asked.dry THEN "written" ELSE "generated"
    /\ UNCHANGED <<asked, loaded>>

TypeGenNext == LoadSchema \/ LoadFails \/ GenerateTypes

TypeGenSpec == TypeGenInit /\ [][TypeGenNext]_typeVars

-----------------------------------------------------------------------------
(* Properties *)

(* Every name the generated module mentions, in a key, an element, a method  *)
(* or wherever a type may stand, is declared in it or warned about           *)
(* (specTypeToTs's `referenced`, generateTypes).                             *)
ModuleIsClosed ==
    \A i \in DOMAIN module : \A n \in module[i].mentions :
      \/ \E j \in DOMAIN module : module[j].name = n
      \/ \E w \in warnings : Sanitize[w] = n

-----------------------------------------------------------------------------
(* What the repository's words say and the code does not do.  Each was       *)
(* refuted by TLC; the README tells the shortest behaviour that does it.     *)

(* typeGenerator.ts:11: fetchContractSchema "pulls the same structure from a *)
(* live network": every type is declared in the form it has in the schema.   *)
FetchedKeepsItsForm ==
    outcome \in {"generated", "written"} =>
      \A k \in DOMAIN asked.schemas : \A e \in ToSet(asked.schemas[k].schema.entries) :
        IsType(e) => \E j \in DOMAIN module : module[j].name = Sanitize[e.name] /\ module[j].form = Form(e)
=============================================================================
