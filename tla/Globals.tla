-------------------------------- MODULE Globals --------------------------------
(***************************************************************************)
(* The globals of the printed program, and how its expressions name them   *)
(* (control_flow_analyzer.rs): they are found in the expressions of each   *)
(* function, in the order of a hash map, then those only the user knows are *)
(* added, and then the expressions are converted.                          *)
(*                                                                         *)
(* A function has, besides what StructureAnalysis lists,                   *)
(*   places  the constants and the memory cells in its expressions, in the *)
(*           order a visitor comes to them, as [addr, cell, type]: the type *)
(*           is the inferred one                                           *)
(* and a program has image, a sequence of numbers at addresses 0, 1, ...   *)
(***************************************************************************)
EXTENDS StructureAnalysis

VARIABLES
  listing,  \* discover, add, convert; done, panic
  visited,  \* the functions extract_global_variables has come to
  found,    \* HlrGlobals: address -> [type, value]
  shown     \* function -> what its places are converted to

listVars  == <<listing, visited, found, shown>>
wholeVars == <<vars, listVars>>

WholeInit ==
  /\ Init
  /\ listing = "discover" /\ visited = {} /\ found = Empty /\ shown = Empty
-----------------------------------------------------------------------------
(* What the image holds, as a type lays it out.                            *)

\* The length of every array, which UserDefs leaves out.
Length     == 2
InImage(a) == a < Len(program.image)
CellAt(a)  == program.image[a + 1]

IsPointerTo(ty, k) == ty.k = "Pointer" /\ ty.of.k = k
IsFunction(ty)     == ty.k = "Function" \/ IsPointerTo(ty, "Function")
EncodedString      == <<"", "EncodedString">>
IsEncoded(ty)      == IsPointerTo(ty, "custom") /\ customs[ty.of.id] = EncodedString

\* format_field_value: a number that is the address of a global is its name, one
\* that points to an encoded string the characters that follow its length.
PointsToString(n, opt) ==
  n > 0 /\ n \notin DOMAIN globalDefs /\ InImage(n) /\ \E ty \in opt : IsEncoded(ty)
FieldValue(n, opt) ==
  IF n > 0 /\ n \in DOMAIN globalDefs THEN <<"global", n>>
  ELSE IF n > 0 /\ n \in DOMAIN functions /\ \E ty \in opt : IsFunction(ty) THEN <<"function", n>>
  ELSE IF PointsToString(n, opt)
         THEN <<"string", IF CellAt(n) >= 0 /\ InImage(n + CellAt(n)) THEN n ELSE "">>
  ELSE <<"number", n>>
\* A length is cast to usize: a negative one takes the end of the string to before
\* its start, or, when it is greater than the address, out of the image.
FieldFits(n, opt) == PointsToString(n, opt) => ~(CellAt(n) < 0 /\ n + CellAt(n) >= 0)

FieldCell(a) == IF InImage(a) THEN CellAt(a) ELSE 0
StructValue(a, id) ==
  <<"struct", [j \in DOMAIN structs[id].fields |-> FieldValue(FieldCell(a + j - 1), structs[id].fields[j])]>>
StructFits(a, id) ==
  \A j \in DOMAIN structs[id].fields : FieldFits(FieldCell(a + j - 1), structs[id].fields[j])
StructArray(a, id) ==
  <<"array", [i \in 1 .. Length |-> StructValue(a + (i - 1) * Len(structs[id].fields), id)]>>
StructArrayFits(a, id) ==
  \A i \in 1 .. Length : StructFits(a + (i - 1) * Len(structs[id].fields), id)
IntArray(a) ==
  <<"array", [i \in 1 .. Length |->
                IF InImage(a + i - 1) THEN <<"number", CellAt(a + i - 1)>> ELSE <<"outside">>]>>
\* This one, and the strings, index the image without a test.
GenericArray(a, ty) == <<"array", [i \in 1 .. Length |-> FieldValue(CellAt(a + i - 1), {ty})]>>
ArrayFits(a)        == InImage(a + Length - 1)
StringFits(a)       == InImage(a) /\ CellAt(a) >= 0 /\ InImage(a + CellAt(a))

\* The value of a global of an array type the user gives.
UserArray(a, ty) == IF ty.of.k = "struct" THEN StructArray(a, ty.of.id) ELSE GenericArray(a, ty.of)
UserArrayFits(a, ty) ==
  IF ty.of.k = "struct" THEN StructArrayFits(a, ty.of.id)
  ELSE ArrayFits(a) /\ \A i \in 1 .. Length : FieldFits(CellAt(a + i - 1), {ty.of})
-----------------------------------------------------------------------------
(* GlobalVariableDiscovery.                                                *)

Laid(a) == {ty \in IF a \in DOMAIN globalDefs THEN globalDefs[a] ELSE {} : ty.k \in {"Array", "struct"}}
LaidFits(a, ty) == IF ty.k = "Array" THEN UserArrayFits(a, ty) ELSE StructFits(a, ty.id)
Listed(ty, value) == {[type |-> ty, value |-> value]}
IsInt(ty) == ty = Word(<<"Int", "">>)

UserGlobal(a, ty) ==
  Listed(ty, IF ty.k = "Array" THEN UserArray(a, ty) ELSE StructValue(a, ty.id))
InferredGlobal(a, ty) ==
  CASE IsPointerTo(ty, "custom") -> Listed(ty, <<"string", a>>)
    [] ty.k = "Array" -> Listed(ty, CASE ty.of.k = "struct" -> StructArray(a, ty.of.id)
                                      [] IsInt(ty.of)       -> IntArray(a)
                                      [] OTHER              -> <<"unknown">>)
    [] OTHER -> {}
InferredFits(a, ty) ==
  CASE IsPointerTo(ty, "custom")                -> StringFits(a)
    [] ty.k = "Array" /\ ty.of.k = "struct"     -> StructArrayFits(a, ty.of.id)
    [] OTHER                                    -> TRUE
\* {} or {the global a place makes}
GlobalOf(x) ==
  IF x.cell THEN Listed(x.type, <<"cell", CellAt(x.addr)>>)
  ELSE IF x.addr < 0 THEN {}
  ELSE IF Laid(x.addr) # {} THEN UNION {UserGlobal(x.addr, ty) : ty \in Laid(x.addr)}
  ELSE InferredGlobal(x.addr, x.type)

\* Its value is read without a step out of the image.
Fits(x) ==
  IF x.cell THEN InImage(x.addr)
  ELSE x.addr >= 0 =>
         IF Laid(x.addr) # {} THEN \A ty \in Laid(x.addr) : LaidFits(x.addr, ty)
         ELSE InferredFits(x.addr, x.type)

Places(f)  == {Fun(f).places[i] : i \in DOMAIN Fun(f).places}
\* The places that make a global, and the last of those at an address.
Makers(f)  == {i \in DOMAIN Fun(f).places : GlobalOf(Fun(f).places[i]) # {}}
LastAt(f, a) ==
  CHOOSE i \in Makers(f) : Fun(f).places[i].addr = a /\
    \A j \in Makers(f) : Fun(f).places[j].addr = a => j <= i

Discover(f) ==
  /\ stage = "done" /\ listing = "discover" /\ f \notin visited
  /\ IF \E x \in Places(f) : ~Fits(x) THEN listing' = "panic" /\ UNCHANGED <<visited, found>>
     ELSE LET made == {Fun(f).places[i].addr : i \in Makers(f)}
          IN  /\ found' = [a \in DOMAIN found \cup made |->
                             IF a \in made THEN CHOOSE v \in GlobalOf(Fun(f).places[LastAt(f, a)]) : TRUE
                             ELSE found[a]]
              /\ visited' = visited \cup {f}
              /\ listing' = IF visited' = Functions THEN "add" ELSE listing
  /\ UNCHANGED <<vars, shown>>
-----------------------------------------------------------------------------
(* add_unused_global_variables.                                            *)

TypeGiven(a) ==
  IF globalDefs[a] = {} THEN Of("Pointer", Word(<<"Char", "">>)) ELSE CHOOSE ty \in globalDefs[a] : TRUE
\* analyze_global_memory_content; a custom type is shown as the structure of its name.
LooksLike(ty) ==
  IF ty.k = "custom" /\ customs[ty.id] \in DOMAIN pick.structs
    THEN [k |-> "struct", id |-> pick.structs[customs[ty.id]]] ELSE ty
Content(a, ty) ==
  IF LooksLike(ty).k \in {"Array", "struct"}
    THEN (CHOOSE g \in UserGlobal(a, LooksLike(ty)) : TRUE).value ELSE <<"unknown">>
ContentFits(a, ty) == LooksLike(ty).k \in {"Array", "struct"} => LaidFits(a, LooksLike(ty))

\* Mutant of Unlisted: existing addresses are not looked up.
UnlistedAny == DOMAIN globalDefs
Unlisted    == DOMAIN globalDefs \ DOMAIN found
AddUnused ==
  /\ listing = "add"
  /\ IF \E a \in Unlisted : ~ContentFits(a, TypeGiven(a))
       THEN listing' = "panic" /\ UNCHANGED found
       ELSE /\ listing' = "convert"
            /\ found' = [a \in DOMAIN found \cup Unlisted |->
                           IF a \in Unlisted THEN [type |-> TypeGiven(a), value |-> Content(a, TypeGiven(a))]
                           ELSE found[a]]
  /\ UNCHANGED <<vars, visited, shown>>
-----------------------------------------------------------------------------
(* HlrExpressionConverter: any constant that is the address of a global is *)
(* its name, unless its type is a function.                                *)

Converted(x) ==
  IF x.cell THEN <<"variable", x.addr, found[x.addr].type>>
  ELSE IF x.addr < 0 THEN <<"number", x.addr>>
  ELSE IF x.type.k = "Function" THEN <<"function", x.addr>>
  ELSE IF x.addr \in DOMAIN found THEN <<"variable", x.addr, found[x.addr].type>>
  ELSE <<"number", x.addr>>

Convert(f) ==
  /\ listing = "convert" /\ f \notin DOMAIN shown
  /\ IF \E x \in Places(f) : x.cell /\ x.addr \notin DOMAIN found
       THEN listing' = "panic" /\ UNCHANGED shown
       ELSE /\ shown' = Merge(shown, f, [i \in DOMAIN Fun(f).places |-> Converted(Fun(f).places[i])])
            /\ listing' = IF DOMAIN shown' = Functions THEN "done" ELSE listing
  /\ UNCHANGED <<vars, visited, found>>

ListNext ==
  \/ \E f \in Functions : Discover(f)
  \/ AddUnused
  \/ \E f \in Functions : Convert(f)

WholeNext ==
  \/ Next /\ UNCHANGED listVars
  \/ ListNext

WholeSpec == WholeInit /\ [][WholeNext]_wholeVars
-----------------------------------------------------------------------------
AllPlaces     == UNION {Places(f) : f \in Functions}
Candidates(a) == UNION {GlobalOf(x) : x \in {x \in AllPlaces : x.addr = a}}

\* Whatever order the functions come in, the listing has every global an expression
\* reads and every one the user names, each as one of its own uses shows it or, when
\* none does, as the user says; a structure or an array the user lays out and the
\* code only points to keeps that type; and all functions show an address alike.
\* The listing stops only at an address out of the image or where a word points to
\* a negative length.
GlobalsHold ==
  /\ listing = "done" =>
       /\ DOMAIN globalDefs \subseteq DOMAIN found
       /\ \A a \in DOMAIN found :
            IF Candidates(a) # {} THEN found[a] \in Candidates(a)
            ELSE a \in DOMAIN globalDefs /\ found[a].type = TypeGiven(a)
       /\ \A a \in DOMAIN globalDefs :
            (\A x \in AllPlaces : x.cell => x.addr # a) => \A ty \in Laid(a) : found[a].type = ty
       /\ \A f, g \in Functions : \A i \in DOMAIN shown[f], j \in DOMAIN shown[g] :
            shown[f][i][1] = "variable" /\ shown[g][j][1] = "variable" /\ shown[f][i][2] = shown[g][j][2]
              => shown[f][i] = shown[g][j]
  /\ listing = "panic" =>
       \/ \E x \in AllPlaces : IF x.cell THEN ~InImage(x.addr)
                               ELSE IsPointerTo(x.type, "custom") /\ ~StringFits(x.addr)
       \/ \E a \in DOMAIN globalDefs : \E ty \in globalDefs[a] : ty.k = "Array" /\ ~ArrayFits(a)
       \/ \E i \in DOMAIN program.image :
            program.image[i] > 0 /\ InImage(program.image[i]) /\ CellAt(program.image[i]) < 0
=============================================================================
