------------------------------- MODULE UserDefs -------------------------------
(***************************************************************************)
(* The file of names and types a user gives (disasm/symbol_renaming.rs).   *)
(*                                                                         *)
(* An identifier is <<basic, rest>>: the name of a basic type it begins with, *)
(* if any, and the other letters.  The text of a type is                   *)
(*   [k, w]    k = "word"                                                  *)
(*   [k, of]   k = "Pointer" or "Array", whose length is left out          *)
(*   [k]       k = "Function"                                              *)
(* and an optional text is {} or {text}.  A line, comments aside, is       *)
(*   [kind, key, args]   "F": a sequence of optional texts                 *)
(*   [kind, key, type]   "V", "G": an optional text                        *)
(*   [kind, name]        "T"                                               *)
(*   [kind, name, args]  "S": the fields                                   *)
(*   [kind, key]         "XPHI"                                            *)
(*   [kind]              "?": anything else                                *)
(* A type is a text in which a word is basic or has become [k, id], k =    *)
(* "custom" or "struct"; the identifier is the line that introduced it.    *)
(***************************************************************************)
EXTENDS Naturals, Sequences

VARIABLES
  file,      \* the lines
  reading,   \* parse, register, resolve; done, error
  at,        \* the next line
  parsed,    \* parsed_lines
  customs,   \* custom_types: id -> identifier
  structs,   \* struct_definitions: id -> [name, fields]
  pick,      \* the id a hash map lists first for an identifier
  functions, variables, globalDefs, excludedPhis

userVars == <<file, reading, at, parsed, customs, structs, pick, functions, variables,
              globalDefs, excludedPhis>>

Nothing      == [x \in {} |-> {}]
Set(f, x, v) == [y \in DOMAIN f \cup {x} |-> IF y = x THEN v ELSE f[y]]
Word(w)      == [k |-> "word", w |-> w]
Of(k, t)     == [k |-> k, of |-> t]
IsBasic(w)   == w[1] # ""

UserInit(lines) ==
  /\ file = lines /\ reading = "parse" /\ at = 1 /\ parsed = <<>>
  /\ customs = Nothing /\ structs = Nothing /\ pick = Nothing
  /\ functions = Nothing /\ variables = Nothing /\ globalDefs = Nothing /\ excludedPhis = {}
-----------------------------------------------------------------------------
(* parse_type_as_str: <<what is taken of a text, whether that is all of it>>. *)

RECURSIVE Taken(_)
Taken(t) ==
  CASE t.k = "word" -> IF IsBasic(t.w) THEN <<Word(<<t.w[1], "">>), t.w[2] = "">> ELSE <<t, TRUE>>
    [] t.k \in {"Pointer", "Array"} ->
         LET inner == Taken(t.of)
         IN  IF inner[2] THEN <<Of(t.k, inner[1]), TRUE>> ELSE <<Word(<<"", t.k>>), FALSE>>
    [] OTHER -> <<t, TRUE>>
TakenOpt(opt) == {Taken(t)[1] : t \in opt}
AllTaken(args) == \A i \in DOMAIN args : \A t \in args[i] : Taken(t)[2]

\* A function loses its arguments when they do not parse, a structure is an error.
Parses(line) == line.kind # "?" /\ (line.kind = "S" => AllTaken(line.args))
Parsed(line) ==
  CASE line.kind \in {"V", "G"} -> [line EXCEPT !.type = TakenOpt(@)]
    [] line.kind \in {"F", "S"} ->
         [line EXCEPT !.args = IF AllTaken(@) THEN [i \in DOMAIN @ |-> TakenOpt(@[i])] ELSE <<>>]
    [] OTHER -> line

ParseLine ==
  /\ reading = "parse"
  /\ IF at > Len(file) THEN reading' = "register" /\ at' = 1 /\ UNCHANGED parsed
     ELSE IF Parses(file[at])
       THEN parsed' = Append(parsed, Parsed(file[at])) /\ at' = at + 1 /\ UNCHANGED reading
       ELSE reading' = "error" /\ UNCHANGED <<at, parsed>>
  /\ UNCHANGED <<file, customs, structs, pick, functions, variables, globalDefs, excludedPhis>>
-----------------------------------------------------------------------------
\* First pass.
Registered(line) ==
  /\ customs' = IF line.kind = "T" THEN Set(customs, at, line.name) ELSE customs
  /\ structs' = IF line.kind = "S" THEN Set(structs, at, [name |-> line.name, fields |-> <<>>])
                ELSE structs

RegisterLine ==
  /\ reading = "register" /\ at <= Len(parsed)
  /\ Registered(parsed[at]) /\ at' = at + 1
  /\ UNCHANGED <<file, reading, parsed, pick, functions, variables, globalDefs, excludedPhis>>
\* No type is added from here on, so each map keeps its order.
TypesKnown ==
  /\ reading = "register" /\ at > Len(parsed)
  /\ \E c \in [{customs[id] : id \in DOMAIN customs} -> DOMAIN customs],
        s \in [{structs[id].name : id \in DOMAIN structs} -> DOMAIN structs] :
       /\ \A w \in DOMAIN c : customs[c[w]] = w
       /\ \A w \in DOMAIN s : structs[s[w]].name = w
       /\ pick' = [customs |-> c, structs |-> s]
  /\ reading' = "resolve" /\ at' = 1
  /\ UNCHANGED <<file, parsed, customs, structs, functions, variables, globalDefs, excludedPhis>>
-----------------------------------------------------------------------------
\* type_from_name: {} or {type}, a custom type before a structure.
TypeFromName(w) ==
  IF w \in DOMAIN pick.customs THEN {[k |-> "custom", id |-> pick.customs[w]]}
  ELSE IF w \in DOMAIN pick.structs THEN {[k |-> "struct", id |-> pick.structs[w]]}
  ELSE {}

\* parse_type: {} or {type}.
RECURSIVE TypeOfText(_)
TypeOfText(t) ==
  CASE t.k = "word" -> IF IsBasic(t.w) THEN {t} ELSE TypeFromName(t.w)
    [] t.k \in {"Pointer", "Array"} ->
         LET inner == TypeOfText(t.of)
         IN  IF inner = {} THEN TypeFromName(<<"", t.k>>) ELSE {Of(t.k, ty) : ty \in inner}
    [] OTHER -> {t}
TypeOfOpt(opt)   == UNION {TypeOfText(t) : t \in opt}
Resolves(opt)    == \A t \in opt : TypeOfText(t) # {}
TypesOf(args)    == [i \in DOMAIN args |-> TypeOfOpt(args[i])]

Fails(line) ==
  \/ line.kind \in {"V", "G"} /\ ~Resolves(line.type)
  \/ line.kind = "S" /\ \E i \in DOMAIN line.args : ~Resolves(line.args[i])

\* Mutant of StructFound: each line fills the structure it introduced.
StructFoundOwn(w) == at
StructFound(w)    == pick.structs[w]

ResolveLine ==
  /\ reading = "resolve"
  /\ UNCHANGED <<file, parsed, customs, pick>>
  /\ IF at > Len(parsed) \/ Fails(parsed[at])
       THEN /\ reading' = IF at > Len(parsed) THEN "done" ELSE "error"
            /\ UNCHANGED <<at, structs, functions, variables, globalDefs, excludedPhis>>
       ELSE LET line == parsed[at]
            IN  /\ at' = at + 1 /\ UNCHANGED reading
                /\ functions' = IF line.kind = "F" THEN Set(functions, line.key, TypesOf(line.args))
                                ELSE functions
                /\ variables' = IF line.kind = "V" THEN Set(variables, line.key, TypeOfOpt(line.type))
                                ELSE variables
                /\ globalDefs' = IF line.kind = "G" THEN Set(globalDefs, line.key, TypeOfOpt(line.type))
                                 ELSE globalDefs
                /\ structs' = IF line.kind = "S"
                                THEN [structs EXCEPT ![StructFound(line.name)].fields = TypesOf(line.args)]
                                ELSE structs
                /\ excludedPhis' = IF line.kind = "XPHI" THEN excludedPhis \cup {line.key}
                                   ELSE excludedPhis

UserNext == ParseLine \/ RegisterLine \/ TypesKnown \/ ResolveLine
-----------------------------------------------------------------------------
Lines(kinds) == {i \in DOMAIN parsed : parsed[i].kind \in kinds}
IsLast(i)    == \A j \in i + 1 .. Len(parsed) :
                  ~(parsed[j].kind = parsed[i].kind /\ parsed[j].key = parsed[i].key)
LastStruct(w) ==
  CHOOSE i \in Lines({"S"}) : parsed[i].name = w /\
    \A j \in Lines({"S"}) : parsed[j].name = w => j <= i

\* The names a type stands for, and the structures in it.
RECURSIVE Named(_), StructsIn(_)
Named(ty) ==
  CASE ty.k = "custom" -> Word(customs[ty.id])
    [] ty.k = "struct" -> Word(structs[ty.id].name)
    [] ty.k \in {"Pointer", "Array"} -> Of(ty.k, Named(ty.of))
    [] OTHER -> ty
StructsIn(ty) == CASE ty.k = "struct" -> {ty.id}
                   [] ty.k \in {"Pointer", "Array"} -> StructsIn(ty.of)
                   [] OTHER -> {}
NamedArgs(args) == [i \in DOMAIN args |-> {Named(ty) : ty \in args[i]}]

\* Wherever in the file a type is defined, behind its uses as well, and whatever
\* map lists first: a line's type is the one it names, and a structure named so
\* has the fields of the last line that defines it.  Reading only fails for a
\* line that does not parse or names an unknown type.
UserTypesHold ==
  /\ reading = "done" =>
       /\ \A i \in Lines({"V", "G"}) : IsLast(i) =>
            LET table == IF parsed[i].kind = "V" THEN variables ELSE globalDefs
            IN  /\ {Named(ty) : ty \in table[parsed[i].key]} = parsed[i].type
                /\ \A ty \in table[parsed[i].key] : \A id \in StructsIn(ty) :
                     NamedArgs(structs[id].fields) = parsed[LastStruct(structs[id].name)].args
  /\ reading = "error" =>
       \/ \E i \in DOMAIN file : ~Parses(file[i])
       \/ \E i \in DOMAIN parsed : Fails(parsed[i])
=============================================================================
