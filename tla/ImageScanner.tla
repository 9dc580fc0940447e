---------------------------- MODULE ImageScanner ----------------------------
(***************************************************************************)
(* The search for functions in an image (image_scanner/scanner.rs).        *)
(*                                                                         *)
(* `pos` walks over the image; where an item looks like the entry of a     *)
(* function, scan_from follows the code from there, with a stack of        *)
(* addresses, and either a function is found and `pos` moves behind its    *)
(* span, or one address does not decode and the entry was data after all.  *)
(*                                                                         *)
(* `found` holds the vectors of scan_from: a call or a return, which is two *)
(* instructions, is [start, end], the end excluded.                        *)
(***************************************************************************)
EXTENDS Image, Reachability, FiniteSets, SequencesExt

CONSTANTS
  Images,      \* the images
  Addresses    \* every address an image has or mentions

ASSUME ImagesInRange ==
  \A im \in Images :
    /\ im \in Seq([k : Kinds, n : Int])
    /\ DOMAIN im \subseteq Addresses
    /\ \A a, e \in DOMAIN im : Successors(im, a, im[e].n) \subseteq Addresses

VARIABLES
  image,
  pos,        \* `i` of scan
  fn,         \* the entry scan_from started from, or None
  queue, seen, found,
  data,       \* addresses that are in no function
  functions,  \* the recognised functions
  scan        \* walk, done, panic

scanVars == <<image, pos, fn, queue, seen, found, data, functions, scan>>

None == -1

Nothing == [instrs |-> <<>>, returns |-> {}, targets |-> {}, jumps |-> {}, calls |-> {}, halts |-> {}]

ScanInit ==
  /\ image \in Images
  /\ pos = 1 /\ fn = None /\ queue = <<>> /\ seen = {} /\ found = Nothing
  /\ data = {} /\ functions = {} /\ scan = "walk"
-----------------------------------------------------------------------------
Size == image[fn].n

\* One word of data, or the start of scan_from.
SkipData ==
  /\ scan = "walk" /\ fn = None /\ pos \in DOMAIN image /\ ~IsEntry(image, pos)
  /\ data' = data \cup {pos} /\ pos' = End(pos)
  /\ UNCHANGED <<image, fn, queue, seen, found, functions, scan>>

BeginFunction ==
  /\ scan = "walk" /\ fn = None /\ pos \in DOMAIN image /\ IsEntry(image, pos)
  /\ fn' = pos /\ queue' = <<pos>> /\ seen' = {} /\ found' = Nothing
  /\ UNCHANGED <<image, pos, data, functions, scan>>

\* What is pushed for the address a: where it goes on, a jump's target first,
\* so that the instruction behind it is taken before.
\* Mutants of Pushed: the other branch of a conditional jump is not followed; a
\* halt is.
PushedOnce(a) ==
  LET i == image[a] IN
  IF IsReturn(image, a, Size) THEN <<>>
  ELSE IF IsCallPair(image, a) THEN <<End(End(a))>>
  ELSE IF i.k \in Jumps THEN <<i.n>>
  ELSE IF i.k \in Gotos \cup {"halt"} THEN <<>> ELSE <<End(a)>>
PushedThrough(a) ==
  LET i == image[a] IN
  IF IsReturn(image, a, Size) THEN <<>>
  ELSE IF IsCallPair(image, a) THEN <<End(End(a))>>
  ELSE (IF i.k \in Jumps THEN <<i.n>> ELSE <<>>) \o (IF i.k \in Gotos THEN <<>> ELSE <<End(a)>>)
Pushed(a) ==
  LET i == image[a] IN
  IF IsReturn(image, a, Size) THEN <<>>
  ELSE IF IsCallPair(image, a) THEN <<End(End(a))>>
  ELSE (IF i.k \in Jumps THEN <<i.n>> ELSE <<>>)
         \o (IF i.k \in Gotos \cup {"halt"} THEN <<>> ELSE <<End(a)>>)

\* What scan_from notes of the address a.
Noted(a) ==
  LET i == image[a]
      pair == [start |-> a, end |-> End(End(a))]
  IN
  IF IsReturn(image, a, Size) THEN
    [found EXCEPT !.instrs = @ \o <<a, End(a)>>, !.returns = @ \cup {pair}]
  ELSE IF IsCallPair(image, a) THEN
    [found EXCEPT !.instrs = @ \o <<a, End(a)>>, !.calls = @ \cup {pair}]
  ELSE
    [found EXCEPT !.instrs  = Append(@, a),
                  !.targets = IF i.k \in Jumps THEN @ \cup {i.n} ELSE @,
                  !.jumps   = IF i.k \in Jumps THEN @ \cup {a} ELSE @,
                  !.halts   = IF i.k = "halt" THEN @ \cup {a} ELSE @]

Scanning == scan = "walk" /\ fn # None /\ queue # <<>>

\* Mutant of TakeSeen: the address stays on the stack.
TakeSeenPeek ==
  /\ Scanning /\ Last(queue) \in seen
  /\ UNCHANGED scanVars
TakeSeen ==
  /\ Scanning /\ Last(queue) \in seen
  /\ queue' = Front(queue)
  /\ UNCHANGED <<image, pos, fn, seen, found, data, functions, scan>>

TakeAddress ==
  /\ Scanning /\ Last(queue) \notin seen /\ Decodes(image, Last(queue))
  /\ seen' = seen \cup {Last(queue)}
  /\ queue' = Front(queue) \o Pushed(Last(queue))
  /\ found' = Noted(Last(queue))
  /\ UNCHANGED <<image, pos, fn, data, functions, scan>>

\* An address that does not decode ends scan_from with an error.
RejectFunction ==
  /\ Scanning /\ Last(queue) \notin seen /\ ~Decodes(image, Last(queue))
  /\ data' = data \cup {pos} /\ pos' = End(pos) /\ fn' = None
  /\ UNCHANGED <<image, queue, seen, found, functions, scan>>

\* The instructions are sorted: the i-th is the least with i of them up to it.
\* A function has at most one return.
Sorted ==
  LET upTo(a) == {i \in DOMAIN found.instrs : found.instrs[i] <= a}
  IN  [i \in 1 .. Len(found.instrs) |->
         CHOOSE a \in Range(found.instrs) :
           /\ Cardinality(upTo(a)) >= i
           /\ \A c \in Range(found.instrs) : Cardinality(upTo(c)) >= i => a <= c]
Recognised ==
  [start   |-> fn, end |-> End(Last(Sorted)), size |-> Size, instrs |-> Sorted,
   returns |-> found.returns, targets |-> found.targets, jumps |-> found.jumps,
   calls   |-> found.calls, halts |-> found.halts]

AcceptFunction ==
  /\ scan = "walk" /\ fn # None /\ queue = <<>>
  /\ IF Cardinality(found.returns) <= 1
       THEN /\ functions' = functions \cup {Recognised}
            /\ pos' = Recognised.end /\ fn' = None
            /\ UNCHANGED scan
       ELSE scan' = "panic" /\ UNCHANGED <<pos, fn, functions>>
  /\ UNCHANGED <<image, queue, seen, found, data>>

EndOfImage ==
  /\ scan = "walk" /\ fn = None /\ pos \notin DOMAIN image
  /\ scan' = "done"
  /\ UNCHANGED <<image, pos, fn, queue, seen, found, data, functions>>

ScanNext ==
  \/ SkipData \/ BeginFunction
  \/ TakeSeen \/ TakeAddress \/ RejectFunction \/ AcceptFunction
  \/ EndOfImage

ScanSpec == ScanInit /\ [][ScanNext]_scanVars
-----------------------------------------------------------------------------
ScanTypeOK ==
  /\ image \in Images
  /\ fn = None \/ fn \in DOMAIN image
  /\ queue \in Seq(Addresses) /\ seen \subseteq DOMAIN image
  /\ found \in [instrs : Seq(Int), targets : SUBSET Int, jumps : SUBSET Int, halts : SUBSET Int,
                returns : SUBSET [start : Int, end : Int], calls : SUBSET [start : Int, end : Int]]
  /\ scan \in {"walk", "done", "panic"}

Queued == Range(queue)

\* A set of addresses that holds the entry and what follows any of its addresses.
Closed(S) == fn \in S /\ \A a \in S : Successors(image, a, Size) \subseteq S

\* A recognised function is complete: when the stack is empty, what follows an
\* address that was taken was taken too, all of it decodes, and each instruction
\* is listed, with the second of its pair (scanner.rs:188-230).
ScanClosed ==
  fn # None /\ queue = <<>> =>
    /\ Closed(seen)
    /\ \A a \in seen : Decodes(image, a)
    /\ Range(found.instrs) = UNION {Extent(image, a, Size) : a \in seen}

\* It has no more than that: each address the scan takes, or rejects the function
\* for, is reached from the entry; so an entry taken for data cannot be code.
Edges == [a \in DOMAIN image |-> Successors(image, a, Size)]
ScanReaches == fn # None => seen \cup Queued \subseteq Reach(Edges, {fn})

\* The same, said of every closed set.
ScanLeast ==
  fn # None => \A S \in SUBSET Addresses : Closed(S) => seen \cup Queued \subseteq S
=============================================================================
