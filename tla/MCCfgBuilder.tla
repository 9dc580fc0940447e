---------------------------- MODULE MCCfgBuilder ----------------------------
(* Images for CfgBuilder, assembled from functions whose jumps stay inside, *)
(* as a compiler leaves them.                                              *)
EXTENDS CfgBuilder

\* A piece of a body: its kind, and the piece a jump goes to.
P(k, j) == [k |-> k, j |-> j]
Length(p) == CASE p.k = "call" -> 2 [] p.k = "callm" -> 4 [] OTHER -> 1

RECURSIVE AddressOf(_, _, _)
AddressOf(base, body, j) ==
  IF j = 1 THEN base + 1 ELSE AddressOf(base, body, j - 1) + Length(body[j - 1])

Emit(base, body, j) ==
  LET a == AddressOf(base, body, j)
      p == body[j]
  IN  CASE p.k = "call"  -> <<Item("link", a + 2), Item("goto", base)>>
        [] p.k = "callm" -> <<Item("arg", 1), Item("arg", 2), Item("link", a + 4), Item("gotoM", 0)>>
        [] p.k \in Jumps -> <<Item(p.k, AddressOf(base, body, p.j))>>
        [] OTHER         -> <<Item(p.k, 0)>>

\* R += 2; the pieces; R -= 2; goto [R]
Assemble(base, body) ==
  <<Item("adjust", 2)>>
    \o FlattenSeq([j \in DOMAIN body |-> Emit(base, body, j)])
    \o <<Item("adjust", -2), Item("gotoR", 0)>>

Pieces(n) == {P(k, 0) : k \in {"plain", "halt", "call", "callm"}}
               \cup {P("if", j) : j \in 1 .. n + 1} \cup {P("goto", 1), P("goto", n + 1)}
Bodies(n) == [1 .. n -> Pieces(n)]

One == {Assemble(1, body) : body \in Bodies(3)}

\* Data, a function, and an entry that is none: its branch ends in data.
NoEntry(base) ==
  <<Item("adjust", 1), Item("ifM", 0), Item("writeI", 0), Item("if", base + 6), Item("adjustM", 0),
    Item("halt", 0), Bad>>
Two ==
  UNION {LET f == <<Bad>> \o Assemble(2, body)
             g == f \o NoEntry(Len(f) + 1)
         IN  {g \o Assemble(Len(g) + 1, <<P("if", 2), P("plain", 0)>>), g \o <<Item("adjust", 1)>>} :
         body \in Bodies(1)}

MCImages    == One \cup Two
MCAddresses == 1 .. 27

\* A compiler leaves such images.
ASSUME ImagesAreCompiled == \A im \in MCImages : Compiled(im)
=============================================================================
