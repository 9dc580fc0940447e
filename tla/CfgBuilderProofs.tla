-------------------------- MODULE CfgBuilderProofs --------------------------
(***************************************************************************)
(* The image scanner finds exactly the code of a function, for every image, *)
(* and the graph builder makes exactly its graph, for every image as a     *)
(* compiler leaves it (Compiled).                                          *)
(*                                                                         *)
(* The scanner's inductive invariant, Pending, is about the stack: what    *)
(* follows an address that was taken was taken too or is on the stack.     *)
(* With an empty stack that is ScanClosed.  ScanInv adds what was noted of *)
(* the addresses that were taken; with it a recognised function is the code *)
(* of its entry, in order (Right).                                         *)
(*                                                                         *)
(* The builder's, BuildInv, says of a function at work which positions of  *)
(* its list are heads of blocks (IsHead), that the blocks up to `next` are *)
(* the stretches between heads (Cutting), and that the linked ones go on   *)
(* where their last instructions do (Linking).  IsHead is about the list   *)
(* alone, so most of the work is without steps: an instruction that is not *)
(* before a head falls through or starts a pair (InsideBlock), where one   *)
(* before a head goes there is a head (TargetsAreHeads), and the conversion *)
(* of such a stretch does not fail (NoConversionPanic).                    *)
(***************************************************************************)
EXTENDS CfgBuilder, ReachabilityProofs

\* Lemmas on sequences as sets of their elements.
LEMMA FrontLast ==
  ASSUME NEW S, NEW q \in Seq(S), q # <<>>
  PROVE  /\ Front(q) \in Seq(S) /\ Last(q) \in S
         /\ Range(q) = Range(Front(q)) \cup {Last(q)}
<1>1. Len(q) \in Nat /\ Len(q) > 0 /\ DOMAIN q = 1 .. Len(q)
  OBVIOUS
<1>2. Front(q) = SubSeq(q, 1, Len(q) - 1) /\ Last(q) = q[Len(q)]
  BY DEF Front, Last
<1>3. /\ Front(q) \in Seq(S) /\ DOMAIN Front(q) = 1 .. Len(q) - 1
      /\ \A i \in 1 .. Len(q) - 1 : Front(q)[i] = q[i]
  BY <1>1, <1>2
<1>4. 1 .. Len(q) = (1 .. Len(q) - 1) \cup {Len(q)}
  BY <1>1
<1> QED
  BY <1>1, <1>2, <1>3, <1>4 DEF Range

\* Short tuples.
LEMMA TupleElements ==
  ASSUME NEW a, NEW b
  PROVE  Range(<<>>) = {} /\ Range(<<a>>) = {a} /\ Range(<<a, b>>) = {a, b}
<1>1. DOMAIN <<>> = {} /\ DOMAIN <<a>> = {1} /\ DOMAIN <<a, b>> = {1, 2}
  OBVIOUS
<1> QED
  BY <1>1 DEF Range

LEMMA ConcatElements ==
  ASSUME NEW S, NEW s \in Seq(S), NEW t \in Seq(S)
  PROVE  /\ s \o t \in Seq(S)
         /\ Range(s \o t) = Range(s) \cup Range(t)
<1>1. s \o t \in Seq(S) /\ DOMAIN (s \o t) = 1 .. Len(s) + Len(t)
      /\ DOMAIN s = 1 .. Len(s) /\ DOMAIN t = 1 .. Len(t) /\ Len(s) \in Nat /\ Len(t) \in Nat
  OBVIOUS
<1>2. \A i \in 1 .. Len(s) : i \in DOMAIN (s \o t) /\ (s \o t)[i] = s[i]
  BY <1>1
<1>3. \A i \in 1 .. Len(t) : Len(s) + i \in DOMAIN (s \o t) /\ (s \o t)[Len(s) + i] = t[i]
  BY <1>1
<1>4. \A i \in DOMAIN (s \o t) :
        i \in 1 .. Len(s) \/ \E j \in 1 .. Len(t) : i = Len(s) + j
  <2> TAKE i \in DOMAIN (s \o t)
  <2>1. CASE i <= Len(s)
    BY <1>1, <2>1
  <2>2. CASE i > Len(s)
    <3>1. i - Len(s) \in 1 .. Len(t) /\ i = Len(s) + (i - Len(s))
      BY <1>1, <2>2
    <3> QED
      BY <3>1
  <2> QED
    BY <1>1, <2>1, <2>2
<1>5. \A i \in DOMAIN (s \o t) : (s \o t)[i] \in {s[j] : j \in DOMAIN s} \cup {t[j] : j \in DOMAIN t}
  BY <1>1, <1>2, <1>3, <1>4
<1>6. \A j \in DOMAIN s : s[j] \in {(s \o t)[i] : i \in DOMAIN (s \o t)}
  BY <1>1, <1>2
<1>7. \A j \in DOMAIN t : t[j] \in {(s \o t)[i] : i \in DOMAIN (s \o t)}
  BY <1>1, <1>3
<1> QED
  BY <1>1, <1>5, <1>6, <1>7 DEF Range

LEMMA AppendElements ==
  ASSUME NEW S, NEW s \in Seq(S), NEW a \in S
  PROVE  Append(s, a) \in Seq(S) /\ Range(Append(s, a)) = Range(s) \cup {a}
<1>1. /\ Append(s, a) \in Seq(S) /\ DOMAIN s = 1 .. Len(s) /\ Len(s) \in Nat
      /\ DOMAIN Append(s, a) = 1 .. Len(s) + 1
      /\ \A i \in 1 .. Len(s) : Append(s, a)[i] = s[i]
      /\ Append(s, a)[Len(s) + 1] = a
  OBVIOUS
<1>2. 1 .. Len(s) + 1 = (1 .. Len(s)) \cup {Len(s) + 1}
  BY <1>1
<1> QED
  BY <1>1, <1>2 DEF Range

\* What the scan pushes and lists for an address is what the image says follows it
\* and belongs to it.
LEMMA Element ==
  ASSUME NEW S, NEW s \in Seq(S), NEW i \in DOMAIN s
  PROVE  s[i] \in S /\ i \in Int
OBVIOUS

LEMMA Decoded ==
  ASSUME NEW im \in Images, NEW a, Decodes(im, a)
  PROVE  a \in DOMAIN im /\ At(im, a) = im[a] /\ im[a] \in [k : Kinds, n : Int] /\ a \in Int
         /\ im[a].k # "bad"
<1>1. im \in Seq([k : Kinds, n : Int])
  BY ImagesInRange
<1>2. a \in DOMAIN im
  BY DEF Decodes, At, Bad, Item
<1>3. im[a] \in [k : Kinds, n : Int] /\ a \in Int
  BY <1>1, <1>2, Element
<1>4. At(im, a) = im[a]
  BY <1>2 DEF At
<1>5. im[a].k # "bad"
  BY <1>4 DEF Decodes
<1> QED
  BY <1>2, <1>3, <1>4, <1>5

LEMMA PushedElements ==
  ASSUME image \in Images, fn \in DOMAIN image, NEW a, Decodes(image, a)
  PROVE  /\ Pushed(a) \in Seq(Addresses)
         /\ Range(Pushed(a)) = Successors(image, a, Size)
<1>1. a \in DOMAIN image /\ At(image, a) = image[a] /\ image[a].k # "bad"
  BY Decoded
<1>2. Successors(image, a, Size) \subseteq Addresses
  BY <1>1, ImagesInRange DEF Size
<1>3. CASE IsReturn(image, a, Size)
  <2>1. Successors(image, a, Size) = {} /\ Pushed(a) = <<>>
    BY <1>3 DEF Pushed, Successors
  <2>2. <<>> \in Seq(Addresses) /\ Range(<<>>) = {}
    <3>1. <<>> \in Seq(Addresses)
      OBVIOUS
    <3> QED
      BY <3>1, TupleElements
  <2> QED
    BY <2>1, <2>2
<1>4. CASE ~IsReturn(image, a, Size) /\ IsCallPair(image, a)
  <2>1. Successors(image, a, Size) = {End(End(a))} /\ Pushed(a) = <<End(End(a))>>
    BY <1>1, <1>4 DEF Pushed, Successors
  <2>2. <<End(End(a))>> \in Seq(Addresses)
    BY <1>2, <2>1
  <2>3. Range(<<End(End(a))>>) = {End(End(a))}
    BY TupleElements
  <2> QED
    BY <2>1, <2>2, <2>3
<1>5. CASE ~IsReturn(image, a, Size) /\ ~IsCallPair(image, a)
  <2> DEFINE J == IF image[a].k \in Jumps THEN <<image[a].n>> ELSE <<>>
             F == IF image[a].k \in Gotos \cup {"halt"} THEN <<>> ELSE <<End(a)>>
  <2>1. Pushed(a) = J \o F
    BY <1>5 DEF Pushed
  <2>2. Successors(image, a, Size)
          = (IF image[a].k \in Jumps THEN {image[a].n} ELSE {})
              \cup (IF image[a].k \in Gotos \cup {"halt"} THEN {} ELSE {End(a)})
    BY <1>1, <1>5 DEF Successors
  <2>3. J \in Seq(Addresses) /\ F \in Seq(Addresses)
    BY <1>2, <2>2
  <2>4. Range(J) = IF image[a].k \in Jumps THEN {image[a].n} ELSE {}
    BY TupleElements
  <2>5. Range(F) = IF image[a].k \in Gotos \cup {"halt"} THEN {} ELSE {End(a)}
    BY TupleElements
  <2> HIDE DEF J, F
  <2>6. J \o F \in Seq(Addresses) /\ Range(J \o F) = Range(J) \cup Range(F)
    BY <2>3, ConcatElements
  <2> QED
    BY <2>1, <2>2, <2>4, <2>5, <2>6
<1> QED
  BY <1>3, <1>4, <1>5

FoundType ==
  [instrs : Seq(Int), targets : SUBSET Int, jumps : SUBSET Int, halts : SUBSET Int,
   returns : SUBSET [start : Int, end : Int], calls : SUBSET [start : Int, end : Int]]

LEMMA NotedElements ==
  ASSUME image \in Images, found \in FoundType, NEW a, Decodes(image, a)
  PROVE  /\ Noted(a) \in FoundType
         /\ Range(Noted(a).instrs) = Range(found.instrs) \cup Extent(image, a, Size)
<1>1. a \in Int /\ End(a) \in Int /\ image[a].n \in Int
  BY Decoded DEF End
<1>2. found.instrs \in Seq(Int)
  BY DEF FoundType
<1>3. CASE IsReturn(image, a, Size) \/ IsCallPair(image, a)
  <2> DEFINE pair == [start |-> a, end |-> End(End(a))]
             L == found.instrs \o <<a, End(a)>>
  <2>1. pair \in [start : Int, end : Int]
    BY <1>1 DEF End
  <2>2. <<a, End(a)>> \in Seq(Int)
    BY <1>1
  <2>3. L \in Seq(Int) /\ Range(L) = Range(found.instrs) \cup {a, End(a)}
    <3>1. L \in Seq(Int) /\ Range(L) = Range(found.instrs) \cup Range(<<a, End(a)>>)
      BY <1>2, <2>2, ConcatElements
    <3>2. Range(<<a, End(a)>>) = {a, End(a)}
      BY TupleElements
    <3> QED
      BY <3>1, <3>2
  <2>4. \/ Noted(a) = [found EXCEPT !.instrs = L, !.returns = found.returns \cup {pair}]
        \/ Noted(a) = [found EXCEPT !.instrs = L, !.calls = found.calls \cup {pair}]
    BY <1>3 DEF Noted
  <2> HIDE DEF pair, L
  <2>5. Noted(a) \in FoundType /\ Noted(a).instrs = L
    <3>1. CASE Noted(a) = [found EXCEPT !.instrs = L, !.returns = found.returns \cup {pair}]
      <4>1. found.returns \cup {pair} \subseteq [start : Int, end : Int]
        BY <2>1 DEF FoundType
      <4> QED
        BY <2>3, <3>1, <4>1 DEF FoundType
    <3>2. CASE Noted(a) = [found EXCEPT !.instrs = L, !.calls = found.calls \cup {pair}]
      <4>1. found.calls \cup {pair} \subseteq [start : Int, end : Int]
        BY <2>1 DEF FoundType
      <4> QED
        BY <2>3, <3>2, <4>1 DEF FoundType
    <3> QED
      BY <2>4, <3>1, <3>2
  <2> QED
    BY <1>3, <2>3, <2>5 DEF Extent
<1>4. CASE ~IsReturn(image, a, Size) /\ ~IsCallPair(image, a)
  <2> DEFINE T == IF image[a].k \in Jumps THEN found.targets \cup {image[a].n} ELSE found.targets
             J == IF image[a].k \in Jumps THEN found.jumps \cup {a} ELSE found.jumps
             H == IF image[a].k = "halt" THEN found.halts \cup {a} ELSE found.halts
             L == Append(found.instrs, a)
  <2>1. Noted(a) = [found EXCEPT !.instrs = L, !.targets = T, !.jumps = J, !.halts = H]
    BY <1>4 DEF Noted
  <2>2. T \subseteq Int /\ J \subseteq Int /\ H \subseteq Int
    BY <1>1 DEF FoundType
  <2>3. L \in Seq(Int) /\ Range(L) = Range(found.instrs) \cup {a}
    BY <1>1, <1>2, AppendElements
  <2> HIDE DEF T, J, H, L
  <2>5. Noted(a) \in FoundType /\ Noted(a).instrs = L
    BY <2>1, <2>2, <2>3 DEF FoundType
  <2> QED
    BY <1>4, <2>3, <2>5 DEF Extent
<1> QED
  BY <1>3, <1>4
-----------------------------------------------------------------------------
\* The state is well typed: addresses on the stack are among `Addresses`, what was
\* taken lies in the image.
THEOREM ScanTypeCorrect == ScanSpec => []ScanTypeOK
<1>1. ScanInit => ScanTypeOK
  BY DEF ScanInit, ScanTypeOK, Nothing, None
<1>2. ScanTypeOK /\ [ScanNext]_scanVars => ScanTypeOK'
  <2> SUFFICES ASSUME ScanTypeOK, [ScanNext]_scanVars PROVE ScanTypeOK'
    OBVIOUS
  <2>0. image \in Seq([k : Kinds, n : Int]) /\ DOMAIN image \subseteq Addresses
    BY ImagesInRange DEF ScanTypeOK
  <2>1. CASE SkipData
    BY <2>1 DEF SkipData, ScanTypeOK
  <2>2. CASE BeginFunction
    <3>1. <<pos>> \in Seq(Addresses)
      BY <2>0, <2>2 DEF BeginFunction
    <3> QED
      BY <2>2, <3>1 DEF BeginFunction, ScanTypeOK, Nothing
  <2>3. CASE TakeSeen
    <3>1. Front(queue) \in Seq(Addresses)
      BY <2>3, FrontLast DEF TakeSeen, Scanning, ScanTypeOK
    <3> QED
      BY <2>3, <3>1 DEF TakeSeen, ScanTypeOK
  <2>4. CASE TakeAddress
    <3> DEFINE a == Last(queue)
    <3>1. Front(queue) \in Seq(Addresses)
      BY <2>4, FrontLast DEF TakeAddress, Scanning, ScanTypeOK
    <3>2. image \in Images /\ fn \in DOMAIN image /\ Decodes(image, a) /\ found \in FoundType
      BY <2>4 DEF TakeAddress, Scanning, ScanTypeOK, FoundType
    <3>3. a \in DOMAIN image
      BY <3>2, Decoded
    <3>4. Pushed(a) \in Seq(Addresses)
      BY <3>2, PushedElements
    <3>5. Noted(a) \in FoundType
      BY <3>2, NotedElements
    <3>6. Front(queue) \o Pushed(a) \in Seq(Addresses)
      BY <3>1, <3>4
    <3> QED
      BY <2>4, <3>3, <3>5, <3>6 DEF TakeAddress, ScanTypeOK, FoundType
  <2>5. CASE RejectFunction
    BY <2>5 DEF RejectFunction, ScanTypeOK
  <2>6. CASE AcceptFunction
    BY <2>6 DEF AcceptFunction, ScanTypeOK
  <2>7. CASE EndOfImage
    BY <2>7 DEF EndOfImage, ScanTypeOK
  <2>8. CASE UNCHANGED scanVars
    BY <2>8 DEF scanVars, ScanTypeOK
  <2> QED
    BY <2>1, <2>2, <2>3, <2>4, <2>5, <2>6, <2>7, <2>8 DEF ScanNext
<1> QED
  BY <1>1, <1>2, PTL DEF ScanSpec
-----------------------------------------------------------------------------
\* The inductive invariant: what follows an address that was taken was taken, or
\* is on the stack; the same holds of the entry; the list has what was taken.
Pending ==
  fn # None =>
    /\ fn \in seen \cup Queued
    /\ \A a \in seen :
         Decodes(image, a) /\ Successors(image, a, Size) \subseteq seen \cup Queued
    /\ Range(found.instrs) = UNION {Extent(image, a, Size) : a \in seen}

LEMMA PendingStep ==
  ASSUME ScanTypeOK, Pending, [ScanNext]_scanVars
  PROVE  Pending'
<1>1. CASE SkipData
  BY <1>1 DEF SkipData, Pending
<1>2. CASE BeginFunction
  <2>1. Range(<<pos>>) = {pos} /\ Range(<<>>) = {}
    BY TupleElements
  <2>2. /\ fn' = pos /\ queue' = <<pos>> /\ seen' = {} /\ found' = Nothing
    BY <1>2 DEF BeginFunction
  <2>3. Range(found'.instrs) = {}
    BY <2>1, <2>2 DEF Nothing
  <2>4. fn' \in (seen \cup Queued)'
    BY <2>1, <2>2 DEF Queued
  <2> QED
    BY <2>2, <2>3, <2>4 DEF Pending
<1>3. CASE TakeSeen
  <2>1. Queued = Range(Front(queue)) \cup {Last(queue)}
    BY <1>3, FrontLast DEF TakeSeen, Scanning, ScanTypeOK, Queued
  <2>2. /\ queue' = Front(queue) /\ seen' = seen /\ fn' = fn /\ image' = image /\ found' = found
        /\ Last(queue) \in seen
    BY <1>3 DEF TakeSeen
  <2>3. (seen \cup Queued)' = seen \cup Queued
    BY <2>1, <2>2 DEF Queued
  <2> QED
    BY <2>2, <2>3 DEF Pending, Size
<1>4. CASE TakeAddress
  <2> DEFINE a == Last(queue)
  <2>1. /\ fn # None /\ Decodes(image, a) /\ image \in Images /\ fn \in DOMAIN image
        /\ found \in FoundType /\ queue \in Seq(Addresses) /\ queue # <<>>
    BY <1>4 DEF TakeAddress, Scanning, ScanTypeOK, FoundType
  <2>2. /\ queue' = Front(queue) \o Pushed(a) /\ seen' = seen \cup {a} /\ found' = Noted(a)
        /\ fn' = fn /\ image' = image
    BY <1>4 DEF TakeAddress
  <2>3. Queued = Range(Front(queue)) \cup {a} /\ Front(queue) \in Seq(Addresses)
    BY <2>1, FrontLast DEF Queued
  <2>4. Pushed(a) \in Seq(Addresses) /\ Range(Pushed(a)) = Successors(image, a, Size)
    BY <2>1, PushedElements
  <2>5. Range(queue') = Range(Front(queue)) \cup Successors(image, a, Size)
    BY <2>2, <2>3, <2>4, ConcatElements
  <2>6. (seen \cup Queued)' = seen \cup Queued \cup Successors(image, a, Size)
    BY <2>2, <2>3, <2>5 DEF Queued
  <2>7. Range(found'.instrs) = Range(found.instrs) \cup Extent(image, a, Size)
    BY <2>1, <2>2, NotedElements
  <2>8. Size' = Size
    BY <2>2 DEF Size
  <2> HIDE DEF a
  <2>9. fn' \in (seen \cup Queued)'
    BY <2>1, <2>2, <2>6 DEF Pending
  <2>10. \A b \in seen' :
           Decodes(image', b) /\ Successors(image', b, Size') \subseteq (seen \cup Queued)'
    BY <2>1, <2>2, <2>6, <2>8 DEF Pending
  <2>11. Range(found'.instrs) = UNION {Extent(image', b, Size') : b \in seen'}
    BY <2>1, <2>2, <2>7, <2>8 DEF Pending
  <2> QED
    BY <2>9, <2>10, <2>11 DEF Pending
<1>5. CASE RejectFunction
  BY <1>5 DEF RejectFunction, Pending
<1>6. CASE AcceptFunction
  BY <1>6 DEF AcceptFunction, Pending, Queued, Size
<1>7. CASE EndOfImage
  BY <1>7 DEF EndOfImage, Pending, Queued, Size
<1>8. CASE UNCHANGED scanVars
  BY <1>8 DEF scanVars, Pending, Queued, Size
<1> QED
  BY <1>1, <1>2, <1>3, <1>4, <1>5, <1>6, <1>7, <1>8 DEF ScanNext

\* A function that is recognised has all the code its entry reaches, all of it
\* decodes, and the pairs of calls and returns are whole.
THEOREM ScanIsComplete == ScanSpec => []ScanClosed
<1>1. ScanInit => Pending
  BY DEF ScanInit, Pending
<1>2. ScanTypeOK /\ Pending /\ [ScanNext]_scanVars => Pending'
  BY PendingStep
<1>3. Pending => ScanClosed
  <2> SUFFICES ASSUME Pending, fn # None, queue = <<>>
               PROVE  /\ Closed(seen)
                      /\ \A a \in seen : Decodes(image, a)
                      /\ Range(found.instrs) = UNION {Extent(image, a, Size) : a \in seen}
    BY DEF ScanClosed
  <2>1. Queued = {}
    BY TupleElements DEF Queued
  <2> QED
    BY <2>1 DEF Pending, Closed
<1> QED
  BY <1>1, <1>2, <1>3, ScanTypeCorrect, PTL DEF ScanSpec

\* It has nothing else: whatever closed set one takes, the scan stays in it.
THEOREM ScanIsLeast == ScanSpec => []ScanLeast
<1>1. ScanInit => ScanLeast
  BY DEF ScanInit, ScanLeast
<1>2. ScanTypeOK /\ ScanLeast /\ [ScanNext]_scanVars => ScanLeast'
  <2> SUFFICES ASSUME ScanTypeOK, ScanLeast, [ScanNext]_scanVars,
                      fn' # None, NEW S \in SUBSET Addresses, Closed(S)'
               PROVE  (seen \cup Queued)' \subseteq S
    BY DEF ScanLeast
  <2>1. CASE SkipData
    BY <2>1 DEF SkipData
  <2>2. CASE BeginFunction
    <3>1. Range(<<pos>>) = {pos}
      BY TupleElements
    <3>2. seen' = {} /\ fn' = pos /\ Range(queue') = {pos}
      BY <2>2, <3>1 DEF BeginFunction
    <3> QED
      BY <3>2 DEF Closed, Queued
  <2>3. CASE TakeSeen
    <3>1. Queued = Range(Front(queue)) \cup {Last(queue)}
      BY <2>3, FrontLast DEF TakeSeen, Scanning, ScanTypeOK, Queued
    <3>2. Closed(S)
      BY <2>3 DEF TakeSeen, Closed, Size
    <3>3. seen \cup Queued \subseteq S
      BY <2>3, <3>2 DEF TakeSeen, ScanLeast
    <3> QED
      BY <2>3, <3>1, <3>3 DEF TakeSeen, Queued
  <2>4. CASE TakeAddress
    <3> DEFINE a == Last(queue)
    <3>1. /\ fn # None /\ Decodes(image, a) /\ image \in Images /\ fn \in DOMAIN image
          /\ queue \in Seq(Addresses) /\ queue # <<>>
      BY <2>4 DEF TakeAddress, Scanning, ScanTypeOK
    <3>2. /\ queue' = Front(queue) \o Pushed(a) /\ seen' = seen \cup {a}
          /\ fn' = fn /\ image' = image
      BY <2>4 DEF TakeAddress
    <3>3. Queued = Range(Front(queue)) \cup {a} /\ Front(queue) \in Seq(Addresses)
      BY <3>1, FrontLast DEF Queued
    <3>4. Pushed(a) \in Seq(Addresses) /\ Range(Pushed(a)) = Successors(image, a, Size)
      BY <3>1, PushedElements
    <3>5. Range(queue') = Range(Front(queue)) \cup Successors(image, a, Size)
      BY <3>2, <3>3, <3>4, ConcatElements
    <3>6. Closed(S)
      BY <3>2 DEF Closed, Size
    <3>7. seen \cup Queued \subseteq S
      BY <3>1, <3>6 DEF ScanLeast
    <3>8. Successors(image, a, Size) \subseteq S
      BY <3>3, <3>6, <3>7 DEF Closed
    <3> HIDE DEF a
    <3> QED
      BY <3>2, <3>3, <3>5, <3>7, <3>8 DEF Queued
  <2>5. CASE RejectFunction
    BY <2>5 DEF RejectFunction
  <2>6. CASE AcceptFunction
    <3>1. UNCHANGED <<image, queue, seen>> /\ fn' = fn
      BY <2>6 DEF AcceptFunction
    <3>2. Closed(S)
      BY <3>1 DEF Closed, Size
    <3> QED
      BY <3>1, <3>2 DEF ScanLeast, Queued
  <2>7. CASE EndOfImage \/ UNCHANGED scanVars
    <3>1. UNCHANGED <<image, queue, seen, fn>>
      BY <2>7 DEF EndOfImage, scanVars
    <3>2. Closed(S)
      BY <3>1 DEF Closed, Size
    <3> QED
      BY <3>1, <3>2 DEF ScanLeast, Queued
  <2> QED
    BY <2>1, <2>2, <2>3, <2>4, <2>5, <2>6, <2>7 DEF ScanNext
<1> QED
  BY <1>1, <1>2, ScanTypeCorrect, PTL DEF ScanSpec
-----------------------------------------------------------------------------
\* An address outside the image, or one that does not decode, leads nowhere.
LEMMA NothingFollows ==
  ASSUME NEW im, NEW a, NEW size, a \notin DOMAIN im
  PROVE  Successors(im, a, size) = {}
<1>1. At(im, a).k = "bad"
  BY DEF At, Bad, Item
<1> QED BY <1>1 DEF Successors

\* What the entry reaches is a closed set of addresses.
LEMMA ReachedIsClosed ==
  ASSUME ScanTypeOK, fn # None
  PROVE  Reach(Edges, {fn}) \in SUBSET Addresses /\ Closed(Reach(Edges, {fn}))
<1>1. /\ image \in Images /\ image \in Seq([k : Kinds, n : Int])
      /\ fn \in DOMAIN image /\ DOMAIN image \subseteq Addresses
  BY ImagesInRange DEF ScanTypeOK
<1>2. DOMAIN Edges = DOMAIN image /\ \A a \in DOMAIN image : Edges[a] = Successors(image, a, Size)
  BY DEF Edges
<1>3. IsFiniteSet(DOMAIN Edges)
  <2>1. DOMAIN image = 1 .. Len(image) /\ Len(image) \in Nat
    BY <1>1
  <2>2. IsFiniteSet(1 .. Len(image))
    BY <2>1, FS_Interval
  <2> QED BY <1>2, <2>1, <2>2
<1>4. Reach(Edges, {fn}) \subseteq Addresses
  <2>1. IsClosed(Edges, Addresses)
    BY <1>1, <1>2, ImagesInRange DEF IsClosed, Size
  <2> QED BY <1>1, <1>3, <2>1, ReachLeast
<1>5. fn \in Reach(Edges, {fn}) /\ IsClosed(Edges, Reach(Edges, {fn}))
  BY <1>3, ReachHolds, ReachClosed
<1>6. \A a \in Reach(Edges, {fn}) : Successors(image, a, Size) \subseteq Reach(Edges, {fn})
  BY <1>2, <1>5, NothingFollows DEF IsClosed
<1> QED BY <1>4, <1>5, <1>6 DEF Closed

\* Each address the scan takes, or rejects the function for, is reached from the
\* entry: what is taken for data is no code of that function.
THEOREM ScanOnlyReaches == ScanSpec => []ScanReaches
<1>1. ScanTypeOK /\ ScanLeast => ScanReaches
  BY ReachedIsClosed DEF ScanReaches, ScanLeast
<1> QED BY <1>1, ScanTypeCorrect, ScanIsLeast, PTL
-----------------------------------------------------------------------------
(* The sorted list of instructions.                                        *)

UpTo(a) == {i \in DOMAIN found.instrs : found.instrs[i] <= a}

LEMMA UpToCounts ==
  ASSUME found.instrs \in Seq(Int)
  PROVE  /\ DOMAIN found.instrs = 1 .. Len(found.instrs) /\ Len(found.instrs) \in Nat
         /\ \A a : /\ IsFiniteSet(UpTo(a)) /\ Cardinality(UpTo(a)) \in Nat
                   /\ UpTo(a) \subseteq 1 .. Len(found.instrs)
                   /\ Cardinality(UpTo(a)) <= Len(found.instrs)
<1>1. DOMAIN found.instrs = 1 .. Len(found.instrs) /\ Len(found.instrs) \in Nat
  OBVIOUS
<1>2. /\ IsFiniteSet(1 .. Len(found.instrs))
      /\ Cardinality(1 .. Len(found.instrs)) = Len(found.instrs)
  BY <1>1, FS_Interval
<1>3. ASSUME NEW a
      PROVE  /\ IsFiniteSet(UpTo(a)) /\ Cardinality(UpTo(a)) \in Nat
             /\ UpTo(a) \subseteq 1 .. Len(found.instrs)
             /\ Cardinality(UpTo(a)) <= Len(found.instrs)
  <2>1. UpTo(a) \in SUBSET (1 .. Len(found.instrs))
    BY <1>1 DEF UpTo
  <2>2. IsFiniteSet(UpTo(a)) /\ Cardinality(UpTo(a)) <= Len(found.instrs)
    BY <1>2, <2>1, FS_Subset
  <2>3. Cardinality(UpTo(a)) \in Nat
    BY <2>2, FS_CardinalityType
  <2> QED BY <2>1, <2>2, <2>3
<1> QED BY <1>1, <1>3

LEMMA UpToMore ==
  ASSUME found.instrs \in Seq(Int),
         NEW a \in Int, NEW c \in Range(found.instrs), a < c
  PROVE  Cardinality(UpTo(a)) < Cardinality(UpTo(c))
<1>1. PICK j \in DOMAIN found.instrs : found.instrs[j] = c
  BY DEF Range
<1>2. c \in Int /\ \A i \in DOMAIN found.instrs : found.instrs[i] \in Int
  BY <1>1, Element
<1>3. UpTo(a) \subseteq UpTo(c) /\ j \in UpTo(c) /\ j \notin UpTo(a)
  BY <1>1, <1>2 DEF UpTo
<1>4. UpTo(a) \in SUBSET UpTo(c) /\ UpTo(a) # UpTo(c) /\ IsFiniteSet(UpTo(c))
  BY <1>3, UpToCounts
<1>5. /\ Cardinality(UpTo(a)) <= Cardinality(UpTo(c))
      /\ Cardinality(UpTo(a)) # Cardinality(UpTo(c))
  BY <1>4, FS_Subset
<1>6. Cardinality(UpTo(a)) \in Nat /\ Cardinality(UpTo(c)) \in Nat
  BY UpToCounts
<1> QED BY <1>5, <1>6

\* The element at position i of Sorted.
IsNth(a, i) ==
  /\ a \in Range(found.instrs) /\ Cardinality(UpTo(a)) >= i
  /\ \A c \in Range(found.instrs) : Cardinality(UpTo(c)) >= i => a <= c

LEMMA NthExists ==
  ASSUME found.instrs \in Seq(Int), NEW i \in 1 .. Len(found.instrs)
  PROVE  \E a : IsNth(a, i)
<1> DEFINE R == Range(found.instrs)
           Count(a) == Cardinality(UpTo(a))
           n == Len(found.instrs)
           Missing == {n - Count(a) : a \in R}
           Enough == {Count(a) : a \in {b \in R : Count(b) >= i}}
<1>0. /\ n \in Nat /\ DOMAIN found.instrs = 1 .. n
      /\ \A a : Count(a) \in Nat /\ Count(a) <= n
  BY UpToCounts
<1>1. R \subseteq Int /\ \A j \in 1 .. n : found.instrs[j] \in R
  BY <1>0, Element DEF Range
<1>2. \E a \in R : Count(a) >= i
  <2>1. Missing \subseteq Nat
    BY <1>0
  <2>2. Missing # {}
    BY <1>1
  <2>3. PICK m \in Missing : \A x \in Missing : m <= x
    BY <2>1, <2>2, LeastNumber
  <2>4. PICK a \in R : m = n - Count(a)
    OBVIOUS
  <2>5. \A c \in R : Count(c) <= Count(a)
    <3> SUFFICES ASSUME NEW c \in R PROVE Count(c) <= Count(a)
      OBVIOUS
    <3>1. n - Count(a) <= n - Count(c)
      BY <2>3, <2>4
    <3>2. Count(a) \in Nat /\ Count(c) \in Nat /\ n \in Nat
      BY <1>0
    <3> HIDE DEF Count, n
    <3> QED BY <3>1, <3>2
  <2>6. \A j \in 1 .. n : found.instrs[j] <= a
    <3> SUFFICES ASSUME NEW j \in 1 .. n, ~(found.instrs[j] <= a) PROVE FALSE
      OBVIOUS
    <3>1. found.instrs[j] \in R /\ a \in Int /\ found.instrs[j] \in Int
      BY <1>1
    <3>2. a < found.instrs[j]
      BY <3>1
    <3>3. Count(a) < Count(found.instrs[j])
      BY <3>1, <3>2, UpToMore
    <3>4. Count(found.instrs[j]) <= Count(a) /\ Count(a) \in Nat /\ Count(found.instrs[j]) \in Nat
      BY <1>0, <2>5, <3>1
    <3> HIDE DEF Count
    <3> QED BY <3>3, <3>4
  <2>7. UpTo(a) = 1 .. n
    BY <1>0, <2>6 DEF UpTo
  <2>8. Count(a) = n
    <3>1. Cardinality(1 .. n) = n
      BY <1>0, FS_Interval
    <3> QED BY <2>7, <3>1
  <2> QED BY <1>0, <2>8
<1>3. PICK a \in R : Count(a) >= i /\ \A c \in R : Count(c) >= i => Count(a) <= Count(c)
  <2>1. Enough \subseteq Nat
    BY <1>0
  <2>2. Enough # {}
    BY <1>2
  <2>3. PICK m \in Enough : \A x \in Enough : m <= x
    BY <2>1, <2>2, LeastNumber
  <2> QED BY <2>3
<1>4. \A c \in R : Count(c) >= i => a <= c
  <2> SUFFICES ASSUME NEW c \in R, Count(c) >= i, ~(a <= c) PROVE FALSE
    OBVIOUS
  <2>1. a \in Int /\ c \in Int
    BY <1>1
  <2>2. c < a
    BY <2>1
  <2>3. Count(c) < Count(a)
    BY <2>1, <2>2, UpToMore
  <2>4. Count(a) <= Count(c) /\ Count(a) \in Nat /\ Count(c) \in Nat
    BY <1>0, <1>3
  <2> HIDE DEF Count
  <2> QED BY <2>3, <2>4
<1> QED BY <1>3, <1>4 DEF IsNth

LEMMA SortedIsNth ==
  ASSUME found.instrs \in Seq(Int)
  PROVE  /\ Sorted \in Seq(Int) /\ Len(Sorted) = Len(found.instrs)
         /\ DOMAIN Sorted = 1 .. Len(found.instrs)
         /\ \A i \in 1 .. Len(found.instrs) : IsNth(Sorted[i], i)
<1>1. DOMAIN Sorted = 1 .. Len(found.instrs)
  BY DEF Sorted
<1>2. \A i \in 1 .. Len(found.instrs) : IsNth(Sorted[i], i)
  <2> SUFFICES ASSUME NEW i \in 1 .. Len(found.instrs) PROVE IsNth(Sorted[i], i)
    OBVIOUS
  <2> DEFINE Least(a) ==
               /\ Cardinality(UpTo(a)) >= i
               /\ \A c \in Range(found.instrs) : Cardinality(UpTo(c)) >= i => a <= c
  <2>1. \E a \in Range(found.instrs) : Least(a)
    BY NthExists DEF IsNth
  <2>2. Sorted[i] = CHOOSE a \in Range(found.instrs) : Least(a)
    BY DEF Sorted, UpTo
  <2>3. Sorted[i] \in Range(found.instrs) /\ Least(Sorted[i])
    <3> HIDE DEF Least
    <3> QED BY <2>1, <2>2
  <2> QED BY <2>3 DEF IsNth
<1>3. Len(found.instrs) \in Nat /\ Range(found.instrs) \subseteq Int
  BY UpToCounts, Element DEF Range
<1>4. \A i \in 1 .. Len(found.instrs) : Sorted[i] \in Int
  BY <1>2, <1>3 DEF IsNth
<1>6. Sorted \in [1 .. Len(found.instrs) -> Int]
  <2> DEFINE G(i) == CHOOSE a \in Range(found.instrs) :
                       /\ Cardinality(UpTo(a)) >= i
                       /\ \A c \in Range(found.instrs) : Cardinality(UpTo(c)) >= i => a <= c
  <2>1. Sorted = [i \in 1 .. Len(found.instrs) |-> G(i)]
    BY DEF Sorted, UpTo
  <2> HIDE DEF G
  <2> QED BY <1>4, <2>1
<1>7. Sorted \in Seq(Int) /\ Len(Sorted) = Len(found.instrs)
  BY <1>3, <1>6
<1> QED BY <1>1, <1>2, <1>7

\* The sorted list has the elements of the list in rising order, each once if the
\* list has it once.
LEMMA SortedRises ==
  ASSUME found.instrs \in Seq(Int),
         \A i, j \in DOMAIN found.instrs : found.instrs[i] = found.instrs[j] => i = j
  PROVE  /\ Sorted \in Seq(Int) /\ Len(Sorted) = Len(found.instrs)
         /\ Range(Sorted) = Range(found.instrs)
         /\ \A i, j \in DOMAIN Sorted : i < j => Sorted[i] < Sorted[j]
<1> DEFINE n == Len(found.instrs)
           R == Range(found.instrs)
<1>1. /\ Sorted \in Seq(Int) /\ Len(Sorted) = n /\ DOMAIN Sorted = 1 .. n
      /\ \A i \in 1 .. n : IsNth(Sorted[i], i)
  BY SortedIsNth
<1>2. /\ n \in Nat /\ DOMAIN found.instrs = 1 .. n
      /\ \A a : Cardinality(UpTo(a)) \in Nat /\ Cardinality(UpTo(a)) <= n
  BY UpToCounts
<1>3. R \subseteq Int
  BY <1>2, Element DEF Range
<1>4. \A i, j \in 1 .. n : i <= j => Sorted[i] <= Sorted[j]
  <2> SUFFICES ASSUME NEW i \in 1 .. n, NEW j \in 1 .. n, i <= j PROVE Sorted[i] <= Sorted[j]
    OBVIOUS
  <2>1. IsNth(Sorted[i], i) /\ IsNth(Sorted[j], j)
    BY <1>1
  <2>2. Sorted[j] \in R /\ Cardinality(UpTo(Sorted[j])) >= j /\ Cardinality(UpTo(Sorted[j])) \in Nat
    BY <1>2, <2>1 DEF IsNth
  <2>3. Cardinality(UpTo(Sorted[j])) >= i
    BY <1>2, <2>2
  <2> QED BY <2>1, <2>2, <2>3 DEF IsNth
<1>5. \A a \in R : \E i \in 1 .. n : Sorted[i] = a
  <2> SUFFICES ASSUME NEW a \in R PROVE \E i \in 1 .. n : Sorted[i] = a
    OBVIOUS
  <2> DEFINE i == Cardinality(UpTo(a))
  <2>1. PICK j \in 1 .. n : found.instrs[j] = a
    BY <1>2 DEF Range
  <2>2. j \in UpTo(a) /\ a \in Int
    BY <1>2, <1>3, <2>1 DEF UpTo
  <2>3. i # 0
    <3>1. IsFiniteSet(UpTo(a)) /\ UpTo(a) # {}
      BY <2>2, UpToCounts
    <3> QED BY <3>1, FS_EmptySet
  <2>4. i \in 1 .. n
    BY <1>2, <2>3
  <2>5. IsNth(Sorted[i], i)
    BY <1>1, <2>4
  <2>6. Sorted[i] <= a /\ Sorted[i] \in R /\ Cardinality(UpTo(Sorted[i])) >= i
    BY <1>2, <2>4, <2>5 DEF IsNth
  <2>7. ~(Sorted[i] < a)
    <3> SUFFICES ASSUME Sorted[i] < a PROVE FALSE
      OBVIOUS
    <3>1. Cardinality(UpTo(Sorted[i])) < i
      BY <1>3, <2>6, UpToMore
    <3> QED BY <1>2, <2>6, <3>1
  <2> HIDE DEF i
  <2> QED BY <1>3, <2>2, <2>4, <2>6, <2>7
<1>6. Range(Sorted) = R
  <2>1. \A i \in 1 .. n : Sorted[i] \in R
    BY <1>1 DEF IsNth
  <2>2. Range(Sorted) = {Sorted[i] : i \in 1 .. n}
    BY <1>1 DEF Range
  <2> QED BY <1>5, <2>1, <2>2
<1>7. \A i, j \in 1 .. n : Sorted[i] = Sorted[j] => i = j
  <2>1. found.instrs \in [1 .. n -> R] /\ Sorted \in [1 .. n -> R]
    <3>1. found.instrs \in [1 .. n -> Int] /\ Sorted \in [1 .. n -> Int]
      BY <1>1, <1>2
    <3>2. (\A i \in 1 .. n : found.instrs[i] \in R) /\ \A i \in 1 .. n : Sorted[i] \in R
      <4>1. \A i \in 1 .. n : Sorted[i] \in R
        BY <1>1 DEF IsNth
      <4> QED BY <1>2, <4>1 DEF Range
    <3> QED BY <3>1, <3>2
  <2>2. found.instrs \in Surjection(1 .. n, R) /\ Sorted \in Surjection(1 .. n, R)
    BY <1>2, <1>5, <2>1 DEF Surjection, Range
  <2>3. found.instrs \in Injection(1 .. n, R)
    BY <1>2, <2>1 DEF Injection, IsInjective
  <2>4. IsFiniteSet(1 .. n)
    BY <1>2, FS_Interval
  <2>5. Cardinality(R) = Cardinality(1 .. n)
    BY <2>2, <2>3, <2>4, FS_Surjection
  <2>6. Sorted \in Injection(1 .. n, R)
    BY <2>2, <2>4, <2>5, FS_Surjection
  <2> QED BY <2>1, <2>6 DEF Injection, IsInjective
<1>8. \A i, j \in 1 .. n : i < j => Sorted[i] < Sorted[j]
  <2> SUFFICES ASSUME NEW i \in 1 .. n, NEW j \in 1 .. n, i < j PROVE Sorted[i] < Sorted[j]
    OBVIOUS
  <2>1. Sorted[i] <= Sorted[j] /\ Sorted[i] # Sorted[j]
    BY <1>2, <1>4, <1>7
  <2>2. Sorted[i] \in Int /\ Sorted[j] \in Int
    BY <1>1, Element
  <2> QED BY <2>1, <2>2
<1> QED BY <1>1, <1>6, <1>8
-----------------------------------------------------------------------------
(* What the scanner hands to the graph builder.                            *)

PairAt(a) == [start |-> a, end |-> End(End(a))]

PairsApart(im, e) ==
  \A a \in Code(im, e) : IsPair(im, a, im[e].n) => End(a) \notin Code(im, e)

\* The lists of f have what its code says.
Notes(im, size, S, f) ==
  /\ f.jumps   = {a \in S : im[a].k \in Jumps}
  /\ f.targets = {im[a].n : a \in {b \in S : im[b].k \in Jumps}}
  /\ f.halts   = {a \in S : im[a].k = "halt"}
  /\ f.returns = {PairAt(a) : a \in {b \in S : IsReturn(im, b, size)}}
  /\ f.calls   = {PairAt(a) : a \in {b \in S : IsCallPair(im, b)}}

Distinct(s) == \A i, j \in DOMAIN s : s[i] = s[j] => i = j
Rises(s)    == \A i, j \in DOMAIN s : i < j => s[i] < s[j]

\* A recognised function is the code of its entry.
Right(im, f) ==
  /\ im \in Images /\ f.start \in DOMAIN im /\ IsEntry(im, f.start) /\ f.size = im[f.start].n
  /\ \A a \in Code(im, f.start) : Decodes(im, a)
  /\ Notes(im, f.size, Code(im, f.start), f)
  /\ f.instrs \in Seq(Int) /\ Rises(f.instrs)
  /\ Range(f.instrs) = UNION {Extent(im, a, f.size) : a \in Code(im, f.start)}
  /\ f.end = End(Last(f.instrs))

Noting ==
  fn # None =>
    /\ pos = fn /\ IsEntry(image, fn)
    /\ Notes(image, Size, seen, found)
    /\ PairsApart(image, fn) => Distinct(found.instrs)

ScanInv ==
  /\ ScanTypeOK /\ Pending /\ ScanLeast
  /\ pos \in Nat /\ scan # "panic" /\ Noting
  /\ \A f \in functions : Right(image, f)

AllCompiled == \A im \in Images : Compiled(im)

LEMMA ImageFacts ==
  ASSUME NEW im \in Images
  PROVE  /\ im \in Seq([k : Kinds, n : Int]) /\ DOMAIN im \subseteq Addresses
         /\ DOMAIN im = 1 .. Len(im) /\ Len(im) \in Nat
         /\ \A a \in DOMAIN im : a \in Nat /\ im[a].k \in Kinds /\ im[a].n \in Int
<1>1. im \in Seq([k : Kinds, n : Int]) /\ DOMAIN im \subseteq Addresses
  BY ImagesInRange
<1>2. DOMAIN im = 1 .. Len(im) /\ Len(im) \in Nat
  BY <1>1
<1>3. \A a \in DOMAIN im : im[a] \in [k : Kinds, n : Int]
  BY <1>1, Element
<1> QED BY <1>1, <1>2, <1>3

LEMMA NotedFields ==
  ASSUME image \in Images, found \in FoundType, NEW a, Decodes(image, a)
  PROVE  /\ Noted(a).targets = found.targets \cup (IF image[a].k \in Jumps THEN {image[a].n} ELSE {})
         /\ Noted(a).jumps   = found.jumps \cup (IF image[a].k \in Jumps THEN {a} ELSE {})
         /\ Noted(a).halts   = found.halts \cup (IF image[a].k = "halt" THEN {a} ELSE {})
         /\ Noted(a).returns = found.returns \cup (IF IsReturn(image, a, Size) THEN {PairAt(a)} ELSE {})
         /\ Noted(a).calls   = found.calls \cup (IF IsCallPair(image, a) THEN {PairAt(a)} ELSE {})
         /\ Noted(a).instrs  = IF IsPair(image, a, Size) THEN found.instrs \o <<a, End(a)>>
                          ELSE Append(found.instrs, a)
<1>1. At(image, a) = image[a]
  BY Decoded
<1>2. IsReturn(image, a, Size) => image[a].k = "adjust"
  BY <1>1 DEF IsReturn
<1>3. IsCallPair(image, a) => image[a].k = "link"
  BY <1>1 DEF IsCallPair
<1>4. CASE IsReturn(image, a, Size)
  <2>1. Noted(a) = [found EXCEPT !.instrs = found.instrs \o <<a, End(a)>>,
                                 !.returns = found.returns \cup {PairAt(a)}]
    BY <1>4 DEF Noted, PairAt
  <2>2. ~IsCallPair(image, a)
    BY <1>2, <1>3, <1>4
  <2> QED BY <1>2, <1>4, <2>1, <2>2 DEF FoundType, Jumps, IsPair
<1>5. CASE ~IsReturn(image, a, Size) /\ IsCallPair(image, a)
  <2>1. Noted(a) = [found EXCEPT !.instrs = found.instrs \o <<a, End(a)>>,
                                 !.calls = found.calls \cup {PairAt(a)}]
    BY <1>5 DEF Noted, PairAt
  <2> QED BY <1>3, <1>5, <2>1 DEF FoundType, Jumps, IsPair
<1>6. CASE ~IsReturn(image, a, Size) /\ ~IsCallPair(image, a)
  <2>1. Noted(a) = [found EXCEPT
           !.instrs  = Append(found.instrs, a),
           !.targets = IF image[a].k \in Jumps THEN found.targets \cup {image[a].n} ELSE found.targets,
           !.jumps   = IF image[a].k \in Jumps THEN found.jumps \cup {a} ELSE found.jumps,
           !.halts   = IF image[a].k = "halt" THEN found.halts \cup {a} ELSE found.halts]
    BY <1>6 DEF Noted
  <2> QED BY <1>6, <2>1 DEF FoundType, IsPair
<1> QED BY <1>4, <1>5, <1>6

LEMMA NotesGrow ==
  ASSUME image \in Images, found \in FoundType, NEW a, Decodes(image, a),
         NEW S, Notes(image, Size, S, found)
  PROVE  Notes(image, Size, S \cup {a}, Noted(a))
<1> DEFINE new == Noted(a)
<1>1. /\ new.targets = found.targets \cup (IF image[a].k \in Jumps THEN {image[a].n} ELSE {})
      /\ new.jumps   = found.jumps \cup (IF image[a].k \in Jumps THEN {a} ELSE {})
      /\ new.halts   = found.halts \cup (IF image[a].k = "halt" THEN {a} ELSE {})
      /\ new.returns = found.returns \cup (IF IsReturn(image, a, Size) THEN {PairAt(a)} ELSE {})
      /\ new.calls   = found.calls \cup (IF IsCallPair(image, a) THEN {PairAt(a)} ELSE {})
  BY NotedFields
<1> HIDE DEF new
<1>2. new.jumps = {b \in S \cup {a} : image[b].k \in Jumps}
  BY <1>1 DEF Notes
<1>3. new.targets = {image[b].n : b \in {c \in S \cup {a} : image[c].k \in Jumps}}
  BY <1>1 DEF Notes
<1>4. new.halts = {b \in S \cup {a} : image[b].k = "halt"}
  BY <1>1 DEF Notes
<1>5. new.returns = {PairAt(b) : b \in {c \in S \cup {a} : IsReturn(image, c, Size)}}
  BY <1>1 DEF Notes
<1>6. new.calls = {PairAt(b) : b \in {c \in S \cup {a} : IsCallPair(image, c)}}
  BY <1>1 DEF Notes
<1>7. Notes(image, Size, S \cup {a}, new)
  BY <1>2, <1>3, <1>4, <1>5, <1>6 DEF Notes
<1> QED BY <1>7 DEF new

LEMMA AppendDistinct ==
  ASSUME NEW s \in Seq(Int), NEW a \in Int, Distinct(s), a \notin Range(s)
  PROVE  Distinct(Append(s, a))
<1>1. /\ Len(s) \in Nat /\ DOMAIN s = 1 .. Len(s) /\ DOMAIN Append(s, a) = 1 .. Len(s) + 1
      /\ \A i \in 1 .. Len(s) : Append(s, a)[i] = s[i]
      /\ Append(s, a)[Len(s) + 1] = a
  OBVIOUS
<1>2. \A i \in 1 .. Len(s) : s[i] # a
  BY <1>1 DEF Range
<1>3. \A i \in 1 .. Len(s) + 1 : i \in 1 .. Len(s) \/ i = Len(s) + 1
  BY <1>1
<1> QED BY <1>1, <1>2, <1>3 DEF Distinct

LEMMA PairDistinct ==
  ASSUME NEW s \in Seq(Int), NEW a \in Int, Distinct(s), a \notin Range(s), a + 1 \notin Range(s)
  PROVE  Distinct(s \o <<a, a + 1>>)
<1>1. Distinct(Append(s, a)) /\ Append(s, a) \in Seq(Int) /\ Range(Append(s, a)) = Range(s) \cup {a}
  BY AppendDistinct, AppendElements
<1>2. a + 1 # a /\ a + 1 \in Int
  OBVIOUS
<1>3. Distinct(Append(Append(s, a), a + 1))
  BY <1>1, <1>2, AppendDistinct
<1>4. Append(Append(s, a), a + 1) = s \o <<a, a + 1>>
  OBVIOUS
<1> QED BY <1>3, <1>4

LEMMA CodeIsReached == Code(image, fn) = Reach(Edges, {fn})
BY DEF Code, Edges, Size

\* What is taken lies in the code of the entry.
LEMMA TakenIsCode ==
  ASSUME ScanTypeOK, ScanLeast, fn # None
  PROVE  seen \cup Queued \subseteq Code(image, fn)
BY CodeIsReached, ReachedIsClosed DEF ScanLeast

\* With an empty stack it is all of it.
LEMMA CodeIsTaken ==
  ASSUME ScanTypeOK, ScanLeast, Pending, fn # None, queue = <<>>
  PROVE  /\ seen = Code(image, fn) /\ \A a \in seen : Decodes(image, a)
<1>1. Queued = {}
  BY TupleElements DEF Queued
<1>2. fn \in seen /\ \A a \in seen : Decodes(image, a) /\ Successors(image, a, Size) \subseteq seen
  BY <1>1 DEF Pending
<1>3. DOMAIN Edges = DOMAIN image /\ \A a \in DOMAIN image : Edges[a] = Successors(image, a, Size)
  BY DEF Edges
<1>4. IsFiniteSet(DOMAIN Edges)
  <2>1. DOMAIN image = 1 .. Len(image) /\ Len(image) \in Nat
    BY ImageFacts DEF ScanTypeOK
  <2> QED BY <1>3, <2>1, FS_Interval
<1>5. IsClosed(Edges, seen)
  BY <1>2, <1>3 DEF IsClosed
<1>6. Reach(Edges, {fn}) \subseteq seen
  BY <1>2, <1>4, <1>5, ReachLeast
<1> QED BY <1>2, <1>6, CodeIsReached, TakenIsCode

LEMMA DistinctStep ==
  ASSUME ScanInv, TakeAddress, PairsApart(image, fn), Distinct(found.instrs)
  PROVE  Distinct(found'.instrs)
<1> DEFINE a == Last(queue)
<1>1. /\ fn # None /\ a \notin seen /\ Decodes(image, a) /\ found' = Noted(a)
      /\ image \in Images /\ found \in FoundType /\ queue \in Seq(Addresses) /\ queue # <<>>
      /\ fn \in DOMAIN image
  BY DEF ScanInv, TakeAddress, Scanning, ScanTypeOK, FoundType
<1>2. a \in Queued
  <2>1. Range(queue) = Range(Front(queue)) \cup {a}
    <3> HIDE DEF a
    <3>1. queue \in Seq(Addresses) /\ queue # <<>> /\ a = Last(queue)
      BY <1>1 DEF a
    <3> QED BY <3>1, FrontLast
  <2> QED BY <2>1 DEF Queued
<1>3. a \in Code(image, fn) /\ seen \subseteq Code(image, fn)
  BY <1>1, <1>2, TakenIsCode DEF ScanInv
<1>4. Range(found.instrs) = UNION {Extent(image, b, Size) : b \in seen} /\ \A b \in seen : Decodes(image, b)
  BY <1>1 DEF ScanInv, Pending
<1>5. found.instrs \in Seq(Int) /\ a \in Int
  BY <1>1, Decoded DEF FoundType
<1>6. \A b \in seen : b \in Int
  BY <1>1, <1>4, Decoded
<1>7. \A x \in Range(found.instrs) : x \in seen \/ \E b \in seen : x = b + 1 /\ IsPair(image, b, Size)
  BY <1>4 DEF Extent, End, IsPair
<1>8. a \notin Range(found.instrs)
  BY <1>1, <1>3, <1>7 DEF PairsApart, Size, End
<1>9. IsPair(image, a, Size) => a + 1 \notin Range(found.instrs)
  <2> SUFFICES ASSUME IsPair(image, a, Size), a + 1 \in Range(found.instrs) PROVE FALSE
    OBVIOUS
  <2>1. a + 1 \notin seen
    BY <1>3 DEF PairsApart, Size, End
  <2>2. PICK b \in seen : a + 1 = b + 1
    BY <1>7, <2>1
  <2> HIDE DEF a
  <2>3. a = b
    BY <1>5, <1>6, <2>2
  <2> QED BY <1>1, <2>3
<1>10. found'.instrs = IF IsPair(image, a, Size) THEN found.instrs \o <<a, a + 1>>
                       ELSE Append(found.instrs, a)
  BY <1>1, NotedFields DEF End
<1> HIDE DEF a
<1> QED BY <1>5, <1>8, <1>9, <1>10, AppendDistinct, PairDistinct

LEMMA ScanInvTake ==
  ASSUME ScanInv, TakeAddress
  PROVE  Noting'
<1> DEFINE a == Last(queue)
<1>1. /\ fn # None /\ Decodes(image, a) /\ image \in Images /\ found \in FoundType
      /\ seen' = seen \cup {a} /\ found' = Noted(a) /\ UNCHANGED <<image, fn, pos>>
  BY DEF ScanInv, TakeAddress, Scanning, ScanTypeOK, FoundType
<1>2. Size' = Size
  BY <1>1 DEF Size
<1>3. Notes(image, Size, seen', found')
  <2>1. Notes(image, Size, seen, found)
    BY <1>1 DEF ScanInv, Noting
  <2> QED BY <1>1, <2>1, NotesGrow
<1>4. PairsApart(image, fn) => Distinct(found'.instrs)
  BY <1>1, DistinctStep DEF ScanInv, Noting
<1>5. pos = fn /\ IsEntry(image, fn)
  BY <1>1 DEF ScanInv, Noting
<1> HIDE DEF a
<1> QED BY <1>1, <1>2, <1>3, <1>4, <1>5 DEF Noting

LEMMA LastOf ==
  ASSUME NEW s \in Seq(Int), s # <<>>
  PROVE  /\ Len(s) \in Nat \ {0} /\ DOMAIN s = 1 .. Len(s) /\ Last(s) = s[Len(s)]
         /\ Last(s) \in Range(s) /\ Last(s) \in Int
<1>1. Len(s) \in Nat \ {0} /\ DOMAIN s = 1 .. Len(s)
  OBVIOUS
<1> QED BY <1>1, Element DEF Last, Range

LEMMA RecognisedRight ==
  ASSUME AllCompiled, ScanInv, fn # None, queue = <<>>
  PROVE  /\ Right(image, Recognised) /\ Recognised.end \in Nat
         /\ Cardinality(found.returns) <= 1
<1> DEFINE f == Recognised
           C == Code(image, fn)
<1>1. /\ image \in Images /\ fn \in DOMAIN image /\ found \in FoundType /\ found.instrs \in Seq(Int)
      /\ IsEntry(image, fn) /\ Notes(image, Size, seen, found)
      /\ PairsApart(image, fn) => Distinct(found.instrs)
  BY DEF ScanInv, ScanTypeOK, FoundType, Noting
<1>2. seen = C /\ \A a \in C : Decodes(image, a)
  BY CodeIsTaken DEF ScanInv
<1>3. CompiledFunction(image, fn)
  BY <1>1, <1>2 DEF AllCompiled, Compiled
<1>4. Distinct(found.instrs)
  BY <1>1, <1>3 DEF CompiledFunction, PairsApart
<1>5. /\ Sorted \in Seq(Int) /\ Len(Sorted) = Len(found.instrs)
      /\ Range(Sorted) = Range(found.instrs) /\ Rises(Sorted)
  BY <1>1, <1>4, SortedRises DEF Distinct, Rises
<1>6. Range(found.instrs) = UNION {Extent(image, a, Size) : a \in C} /\ fn \in C
  BY <1>2, TupleElements DEF ScanInv, Pending, Queued
<1>7. /\ f.start = fn /\ f.end = End(Last(Sorted)) /\ f.size = Size /\ f.instrs = Sorted
      /\ f.returns = found.returns /\ f.targets = found.targets /\ f.jumps = found.jumps
      /\ f.calls = found.calls /\ f.halts = found.halts
  BY DEF Recognised
<1>8. Size = image[fn].n
  BY DEF Size
<1> HIDE DEF f
<1>9. Right(image, f)
  BY <1>1, <1>2, <1>5, <1>6, <1>7, <1>8 DEF Right, Notes
<1>10. f.end \in Nat
  <2>1. \A x \in Range(found.instrs) : x \in Nat
    <3> SUFFICES ASSUME NEW a \in C, NEW x \in Extent(image, a, Size) PROVE x \in Nat
      BY <1>6
    <3>1. a \in Nat
      BY <1>1, <1>2, Decoded, ImageFacts
    <3> QED BY <3>1 DEF Extent, End
  <2>2. Sorted # <<>>
    <3>1. Range(Sorted) # {}
      <4>1. fn \in Extent(image, fn, Size)
        BY DEF Extent
      <4> QED BY <1>5, <1>6, <4>1
    <3> QED BY <3>1, TupleElements
  <2>3. Last(Sorted) \in Nat
    BY <1>5, <2>1, <2>2, LastOf
  <2> QED BY <1>7, <2>3 DEF End
<1>11. Cardinality(found.returns) <= 1
  <2>1. \A a, b \in C : IsReturn(image, a, Size) /\ IsReturn(image, b, Size) => a = b
    BY <1>3, <1>8 DEF CompiledFunction
  <2>2. found.returns = {} \/ \E r : found.returns = {r}
    <3>1. found.returns = {PairAt(a) : a \in {b \in C : IsReturn(image, b, Size)}}
      BY <1>1, <1>2 DEF Notes
    <3>2. ASSUME NEW a \in C, IsReturn(image, a, Size) PROVE found.returns = {PairAt(a)}
      BY <2>1, <3>1, <3>2
    <3> QED BY <3>1, <3>2
  <2>3. CASE found.returns = {}
    <3>1. Cardinality(found.returns) = 0
      BY <2>3, FS_EmptySet
    <3> QED BY <3>1
  <2>4. ASSUME NEW r, found.returns = {r} PROVE Cardinality(found.returns) <= 1
    <3>1. Cardinality(found.returns) = 1
      BY <2>4, FS_Singleton
    <3> QED BY <3>1
  <2> QED BY <2>2, <2>3, <2>4
<1> QED BY <1>9, <1>10, <1>11 DEF f

FactsOfScan ==
  /\ pos \in Nat /\ scan # "panic" /\ Noting
  /\ \A f \in functions : Right(image, f)

LEMMA FactsOfScanStep ==
  ASSUME AllCompiled, ScanInv, [ScanNext]_scanVars
  PROVE  FactsOfScan'
<1>0. FactsOfScan
  BY DEF ScanInv, FactsOfScan
<1>1. CASE SkipData
  BY <1>0, <1>1 DEF SkipData, FactsOfScan, Noting, End
<1>2. CASE BeginFunction
  <2>1. /\ fn' = pos /\ queue' = <<pos>> /\ seen' = {} /\ found' = Nothing
        /\ UNCHANGED <<image, pos, functions, scan>> /\ IsEntry(image, pos)
    BY <1>2 DEF BeginFunction
  <2>2. Notes(image, Size', {}, Nothing)
    BY DEF Notes, Nothing
  <2>3. Distinct(Nothing.instrs)
    BY DEF Distinct, Nothing
  <2> QED BY <1>0, <2>1, <2>2, <2>3 DEF FactsOfScan, Noting
<1>3. CASE TakeSeen \/ EndOfImage \/ UNCHANGED scanVars
  <2>1. UNCHANGED <<image, fn, seen, found, functions, pos>> /\ (scan' = scan \/ scan' = "done")
    BY <1>3 DEF TakeSeen, EndOfImage, scanVars
  <2> QED BY <1>0, <2>1 DEF FactsOfScan, Noting, Size
<1>4. CASE TakeAddress
  BY <1>0, <1>4, ScanInvTake DEF TakeAddress, FactsOfScan
<1>5. CASE RejectFunction
  BY <1>0, <1>5 DEF RejectFunction, FactsOfScan, Noting, End
<1>6. CASE AcceptFunction
  <2>1. fn # None /\ queue = <<>>
    BY <1>6 DEF AcceptFunction
  <2>2. Right(image, Recognised) /\ Recognised.end \in Nat /\ Cardinality(found.returns) <= 1
    BY <2>1, RecognisedRight
  <2>3. /\ functions' = functions \cup {Recognised} /\ pos' = Recognised.end /\ fn' = None
        /\ scan' = scan /\ image' = image
    BY <1>6, <2>2 DEF AcceptFunction
  <2> QED BY <1>0, <2>2, <2>3 DEF FactsOfScan, Noting
<1> QED BY <1>1, <1>2, <1>3, <1>4, <1>5, <1>6 DEF ScanNext

LEMMA PendingAlways == ScanSpec => []Pending
<1>1. ScanInit => Pending
  BY DEF ScanInit, Pending
<1>2. ScanTypeOK /\ Pending /\ [ScanNext]_scanVars => Pending'
  BY PendingStep
<1> QED BY <1>1, <1>2, ScanTypeCorrect, PTL DEF ScanSpec

\* Every function the scan hands on is the code of its entry, in order, and the
\* scan does not fail.
THEOREM ScanHandsOver ==
  ASSUME AllCompiled
  PROVE  ScanSpec => []ScanInv
<1>1. ScanInit => FactsOfScan
  BY DEF ScanInit, FactsOfScan, Noting
<1>2. ScanTypeOK /\ Pending /\ ScanLeast /\ FactsOfScan <=> ScanInv
  BY DEF ScanInv, FactsOfScan
<1>3. ScanInv /\ [ScanNext]_scanVars => FactsOfScan'
  BY FactsOfScanStep
<1> QED BY <1>1, <1>2, <1>3, PendingAlways, ScanTypeCorrect, ScanIsLeast, PTL DEF ScanSpec

\* The scanner runs in the composition as it does alone.
LEMMA ScansFirst == Spec => ScanSpec
<1>1. Init => ScanInit
  BY DEF Init
<1>2. [Next]_vars => [ScanNext]_scanVars
  BY DEF Next, vars, scanVars, Build, BeginBuild, NextFunction, CutBlock, LinkBlock, FinishFunction,
         BuildDone, Finished
<1> QED BY <1>1, <1>2, PTL DEF Spec, ScanSpec
-----------------------------------------------------------------------------
(* The list of a function and where it is cut.                             *)

List      == fun.instrs
Steps     == Code(image, fun.start)
PairIn(a) == IsPair(image, a, fun.size)
Goes(a)   == Successors(image, a, fun.size)
Sound     == Right(image, fun) /\ CompiledFunction(image, fun.start)

Falls(a) == ~PairIn(a) /\ image[a].k \in {"adjust", "link", "arg", "plain"}

\* The items of a function and where they go on.
LEMMA StepFacts ==
  ASSUME Sound
  PROVE  /\ fun.start \in Steps /\ fun.size = image[fun.start].n /\ fun.size > 0
         /\ image[fun.start].k = "adjust" /\ ~PairIn(fun.start)
         /\ \A a \in Steps :
              /\ a \in Nat /\ fun.start <= a /\ a \in DOMAIN image /\ At(image, a) = image[a]
              /\ image[a].k \in (Kinds \ {"bad"}) \ Refused /\ image[a].n \in Int
              /\ Goes(a) \subseteq Steps /\ fun.start \notin Goes(a)
              /\ PairIn(a) => a + 1 \notin Steps
              /\ image[a].k = "adjust" => a = fun.start \/ IsReturn(image, a, fun.size)
<1> DEFINE e == fun.start
           edges == [a \in DOMAIN image |-> Successors(image, a, image[e].n)]
<1>1. /\ image \in Images /\ e \in DOMAIN image /\ IsEntry(image, e) /\ fun.size = image[e].n
      /\ \A a \in Steps : Decodes(image, a)
  BY DEF Sound, Right, Steps
<1>2. DOMAIN image = 1 .. Len(image) /\ Len(image) \in Nat
      /\ \A a \in DOMAIN image : a \in Nat /\ image[a].k \in Kinds /\ image[a].n \in Int
  BY <1>1, ImageFacts
<1>3. IsFiniteSet(DOMAIN edges)
  BY <1>2, FS_Interval
<1>4. e \in Steps /\ IsClosed(edges, Steps)
  BY <1>3, ReachHolds, ReachClosed DEF Steps, Code
<1>5. image[e].k = "adjust" /\ image[e].n > 0
  BY <1>1 DEF IsEntry, At
<1>6. ~PairIn(e)
  <2>1. At(image, e) = image[e]
    BY <1>1 DEF At
  <2>2. ~IsReturn(image, e, fun.size)
    BY <1>1, <1>2, <1>5, <2>1 DEF IsReturn
  <2> QED BY <1>5, <2>1, <2>2 DEF PairIn, IsPair, IsCallPair
<1>7. ASSUME NEW a \in Steps
      PROVE  /\ a \in Nat /\ e <= a /\ a \in DOMAIN image /\ At(image, a) = image[a]
             /\ image[a].k \in (Kinds \ {"bad"}) \ Refused /\ image[a].n \in Int
             /\ Goes(a) \subseteq Steps /\ e \notin Goes(a)
             /\ PairIn(a) => a + 1 \notin Steps
             /\ image[a].k = "adjust" => a = e \/ IsReturn(image, a, fun.size)
  <2>1. a \in DOMAIN image /\ At(image, a) = image[a] /\ image[a].k # "bad"
    BY <1>1, Decoded
  <2>2. Goes(a) \subseteq Steps
    BY <1>1, <1>4, <2>1 DEF IsClosed, Goes
  <2>3. /\ e <= a /\ e \notin Goes(a) /\ (PairIn(a) => a + 1 \notin Steps)
        /\ image[a].k \notin Refused
        /\ (image[a].k = "adjust" => a = e \/ IsReturn(image, a, fun.size))
    BY <1>1 DEF Sound, CompiledFunction, Steps, Goes, PairIn, End
  <2> QED BY <1>2, <2>1, <2>2, <2>3
<1> HIDE DEF e
<1> QED BY <1>1, <1>4, <1>5, <1>6, <1>7 DEF e

LEMMA StepKinds ==
  ASSUME Sound, NEW a \in Steps
  PROVE  /\ IsReturn(image, a, fun.size) =>
              image[a].k = "adjust" /\ image[a].n < 0 /\ At(image, a + 1).k = "gotoR" /\ Goes(a) = {}
         /\ IsCallPair(image, a) =>
              /\ image[a].k = "link" /\ At(image, a + 1).k \in Gotos /\ image[a].n = a + 2
              /\ Goes(a) = {a + 2}
         /\ image[a].k = "goto" => ~PairIn(a) /\ Goes(a) = {image[a].n}
         /\ image[a].k = "if"   => ~PairIn(a) /\ Goes(a) = {image[a].n, a + 1}
         /\ image[a].k = "halt" => ~PairIn(a) /\ Goes(a) = {}
         /\ Falls(a) => Goes(a) = {a + 1}
         /\ Falls(a) \/ PairIn(a) \/ image[a].k \in {"goto", "if", "halt"}
<1>1. /\ a \in Nat /\ At(image, a) = image[a] /\ image[a].n \in Int /\ fun.size > 0 /\ fun.size \in Int
      /\ image[a].k \in (Kinds \ {"bad"}) \ Refused
  <2>1. fun.size \in Int
    BY StepFacts
  <2> QED BY <2>1, StepFacts
<1>2. IsReturn(image, a, fun.size) => image[a].k = "adjust" /\ image[a].n < 0 /\ At(image, a + 1).k = "gotoR"
  BY <1>1 DEF IsReturn, End
<1>3. IsCallPair(image, a) => image[a].k = "link" /\ At(image, a + 1).k \in Gotos /\ image[a].n = a + 2
  BY <1>1 DEF IsCallPair, End
<1>4. PairIn(a) => image[a].k \in {"adjust", "link"}
  BY <1>2, <1>3 DEF PairIn, IsPair
<1>5. Goes(a) = IF IsReturn(image, a, fun.size) THEN {}
                ELSE IF IsCallPair(image, a) THEN {End(End(a))}
                ELSE (IF image[a].k \in Jumps THEN {image[a].n} ELSE {})
                       \cup (IF image[a].k \in Gotos \cup {"halt"} THEN {} ELSE {End(a)})
  BY <1>1 DEF Goes, Successors
<1>6. IsReturn(image, a, fun.size) => Goes(a) = {}
  BY <1>5
<1>7. IsCallPair(image, a) => Goes(a) = {a + 2}
  <2>1. IsCallPair(image, a) => ~IsReturn(image, a, fun.size)
    BY <1>2, <1>3
  <2>2. End(End(a)) = a + 2
    BY <1>1 DEF End
  <2> QED BY <1>5, <2>1, <2>2
<1>8. ~PairIn(a) => ~IsReturn(image, a, fun.size) /\ ~IsCallPair(image, a)
  BY DEF PairIn, IsPair
<1>9. image[a].k = "goto" => ~PairIn(a) /\ Goes(a) = {image[a].n}
  BY <1>4, <1>5, <1>8 DEF Jumps, Gotos
<1>10. image[a].k = "if" => ~PairIn(a) /\ Goes(a) = {image[a].n, a + 1}
  BY <1>4, <1>5, <1>8 DEF Jumps, Gotos, End
<1>11. image[a].k = "halt" => ~PairIn(a) /\ Goes(a) = {}
  BY <1>4, <1>5, <1>8 DEF Jumps, Gotos
<1>12. Falls(a) => Goes(a) = {a + 1}
  BY <1>5, <1>8 DEF Falls, Jumps, Gotos, End
<1>13. Falls(a) \/ PairIn(a) \/ image[a].k \in {"goto", "if", "halt"}
  BY <1>1 DEF Falls, Kinds, Refused
<1> QED BY <1>2, <1>3, <1>6, <1>7, <1>9, <1>10, <1>11, <1>12, <1>13

LEMMA ListFacts ==
  ASSUME Sound
  PROVE  /\ List \in Seq(Int) /\ Len(List) \in Nat \ {0} /\ DOMAIN List = 1 .. Len(List)
         /\ \A i \in 1 .. Len(List) : List[i] \in Nat
         /\ \A i, j \in 1 .. Len(List) : i < j => List[i] < List[j]
         /\ fun.end = List[Len(List)] + 1 /\ List[1] = fun.start
         /\ \A i \in 1 .. Len(List) :
              List[i] \in Steps \/ (List[i] - 1 \in Steps /\ PairIn(List[i] - 1))
         /\ \A a \in Steps : \E i \in 1 .. Len(List) : List[i] = a
         /\ \A a \in Steps : PairIn(a) => \E i \in 1 .. Len(List) : List[i] = a + 1
<1> DEFINE n == Len(List)
<1>1. /\ List \in Seq(Int) /\ Rises(List) /\ fun.end = End(Last(List))
      /\ Range(List) = UNION {Extent(image, a, fun.size) : a \in Steps}
  BY DEF Sound, Right, List, Steps
<1>2. \A a \in Steps : a \in Nat /\ fun.start <= a
  BY StepFacts
<1>3. \A a \in Steps : Extent(image, a, fun.size) = IF PairIn(a) THEN {a, a + 1} ELSE {a}
  BY DEF Extent, PairIn, IsPair, End
<1>4. List # <<>>
  <2>1. fun.start \in Steps
    BY StepFacts
  <2>2. fun.start \in Extent(image, fun.start, fun.size)
    BY <1>3, <2>1
  <2>3. fun.start \in Range(List)
    BY <1>1, <2>1, <2>2
  <2> QED BY <2>3, TupleElements
<1>5. n \in Nat \ {0} /\ DOMAIN List = 1 .. n /\ Last(List) = List[n]
  BY <1>1, <1>4, LastOf
<1>6. \A i \in 1 .. n : List[i] \in Steps \/ (List[i] - 1 \in Steps /\ PairIn(List[i] - 1))
  <2> SUFFICES ASSUME NEW i \in 1 .. n
               PROVE  List[i] \in Steps \/ (List[i] - 1 \in Steps /\ PairIn(List[i] - 1))
    OBVIOUS
  <2>0. List[i] \in Range(List)
    BY <1>5 DEF Range
  <2>1. PICK a \in Steps : List[i] \in Extent(image, a, fun.size)
    BY <1>1, <2>0
  <2>2. List[i] = a \/ (List[i] = a + 1 /\ PairIn(a))
    BY <1>3, <2>1
  <2>3. a \in Nat
    BY <1>2
  <2>4. List[i] = a + 1 => List[i] - 1 = a
    BY <2>3
  <2> QED BY <2>2, <2>4
<1>7. \A i \in 1 .. n : List[i] \in Nat /\ fun.start <= List[i]
  <2> SUFFICES ASSUME NEW i \in 1 .. n PROVE List[i] \in Nat /\ fun.start <= List[i]
    OBVIOUS
  <2>1. List[i] \in Int /\ fun.start \in Nat
    BY <1>1, <1>2, <1>5, StepFacts, Element
  <2> QED BY <1>2, <1>6, <2>1
<1>8. \A a \in Steps : \A x \in {a} \cup (IF PairIn(a) THEN {a + 1} ELSE {}) : \E i \in 1 .. n : List[i] = x
  <2> SUFFICES ASSUME NEW a \in Steps, NEW x \in {a} \cup (IF PairIn(a) THEN {a + 1} ELSE {})
               PROVE  \E i \in 1 .. n : List[i] = x
    OBVIOUS
  <2>1. x \in Extent(image, a, fun.size)
    BY <1>3
  <2>2. x \in Range(List)
    BY <1>1, <2>1
  <2> QED BY <1>5, <2>2 DEF Range
<1>9. \A i, j \in 1 .. n : i < j => List[i] < List[j]
  BY <1>1, <1>5 DEF Rises
<1>10. List[1] = fun.start
  <2>1. PICK i \in 1 .. n : List[i] = fun.start
    BY <1>8, StepFacts
  <2>2. i = 1 \/ List[1] < List[i]
    BY <1>5, <1>9
  <2>3. 1 \in 1 .. n
    BY <1>5
  <2>4. List[1] \in Nat /\ fun.start <= List[1]
    BY <1>7, <2>3
  <2> QED BY <1>2, <2>1, <2>2, <2>4, StepFacts
<1>11. fun.end = List[n] + 1
  BY <1>1, <1>5 DEF End
<1> QED BY <1>1, <1>5, <1>6, <1>7, <1>8, <1>9, <1>10, <1>11

\* Neighbours in the list.
LEMMA NextInList ==
  ASSUME Sound, NEW i \in 1 .. Len(List), NEW j \in 1 .. Len(List), List[j] = List[i] + 1
  PROVE  j = i + 1
<1>1. /\ List[i] \in Nat /\ List[j] \in Nat /\ Len(List) \in Nat
      /\ \A k, m \in 1 .. Len(List) : k < m => List[k] < List[m]
  BY ListFacts
<1>2. i < j
  <2>1. i # j
    BY <1>1
  <2>2. ~(j < i)
    BY <1>1
  <2> QED BY <1>1, <2>1, <2>2
<1>3. ~(i + 1 < j)
  <2> SUFFICES ASSUME i + 1 < j PROVE FALSE
    OBVIOUS
  <2>1. i + 1 \in 1 .. Len(List)
    BY <1>1
  <2>2. List[i + 1] \in Nat
    BY <2>1, ListFacts
  <2>3. List[i] < List[i + 1] /\ List[i + 1] < List[j]
    BY <1>1, <2>1
  <2> QED BY <1>1, <2>2, <2>3
<1> QED BY <1>2, <1>3
-----------------------------------------------------------------------------
(* The places where a block starts.                                        *)

\* The instruction at b makes a boundary of a.
Marks(b, a) ==
  \/ image[b].k \in Jumps /\ (a = image[b].n \/ a = b + 1)
  \/ image[b].k = "halt" /\ a = b + 1
  \/ IsCallPair(image, b) /\ a = b + 2
  \/ IsReturn(image, b, fun.size) /\ (a = b \/ a = b + 2)

LEMMA BoundaryOf ==
  ASSUME Sound, NEW a
  PROVE  a \in Boundaries <=>
           /\ fun.start <= a /\ a < fun.end
           /\ a = fun.start \/ \E b \in Steps : Marks(b, a)
<1>1. Notes(image, fun.size, Steps, fun)
  BY DEF Sound, Right, Steps
<1>2. \A b \in Steps : b \in Nat
  BY StepFacts
<1>3. a \in {End(h) : h \in fun.halts \cup fun.jumps} <=>
        \E b \in Steps : (image[b].k = "halt" \/ image[b].k \in Jumps) /\ a = b + 1
  BY <1>1 DEF Notes, End
<1>4. a \in fun.targets <=> \E b \in Steps : image[b].k \in Jumps /\ a = image[b].n
  BY <1>1 DEF Notes
<1>5. a \in {c.end : c \in fun.calls} <=> \E b \in Steps : IsCallPair(image, b) /\ a = b + 2
  <2>1. \A b \in Steps : PairAt(b).end = b + 2
    BY <1>2 DEF PairAt, End
  <2>2. fun.calls = {PairAt(b) : b \in {c \in Steps : IsCallPair(image, c)}}
    BY <1>1 DEF Notes
  <2> QED BY <2>1, <2>2
<1>6. a \in UNION {{r.start, r.end} : r \in fun.returns} <=>
        \E b \in Steps : IsReturn(image, b, fun.size) /\ (a = b \/ a = b + 2)
  <2>1. \A b \in Steps : PairAt(b).start = b /\ PairAt(b).end = b + 2
    BY <1>2 DEF PairAt, End
  <2>2. fun.returns = {PairAt(b) : b \in {c \in Steps : IsReturn(image, c, fun.size)}}
    BY <1>1 DEF Notes
  <2> QED BY <2>1, <2>2
<1>7. a \in Boundaries <=>
        /\ fun.start <= a /\ a < fun.end
        /\ \/ a \in fun.targets \/ a = fun.start
           \/ a \in {End(h) : h \in fun.halts \cup fun.jumps}
           \/ a \in {c.end : c \in fun.calls}
           \/ a \in UNION {{r.start, r.end} : r \in fun.returns}
  BY DEF Boundaries
<1> QED BY <1>3, <1>4, <1>5, <1>6, <1>7 DEF Marks

\* No block starts with the second instruction of a pair.
LEMMA NotSecond ==
  ASSUME Sound, NEW b \in Steps, PairIn(b)
  PROVE  b + 1 \notin Boundaries
<1>1. \A c \in Steps : c \in Nat /\ fun.start <= c /\ Goes(c) \subseteq Steps /\ (PairIn(c) => c + 1 \notin Steps)
  BY StepFacts
<1>2. fun.start \in Nat
  BY StepFacts
<1>3. b + 1 # fun.start /\ b + 1 \notin Steps
  BY <1>1, <1>2
<1>4. ASSUME NEW c \in Steps, Marks(c, b + 1) PROVE FALSE
  <2>1. CASE image[c].k \in Jumps /\ b + 1 = image[c].n
    <3>1. image[c].n \in Goes(c)
      BY <2>1, StepKinds DEF Jumps
    <3> QED BY <1>1, <1>3, <2>1, <3>1
  <2>2. CASE (image[c].k \in Jumps \/ image[c].k = "halt") /\ b + 1 = c + 1
    <3>1. b = c
      BY <1>1, <2>2
    <3> QED BY <2>2, <3>1, StepKinds DEF Jumps
  <2>3. CASE PairIn(c) /\ b + 1 = c + 2
    <3>1. b = c + 1
      BY <1>1, <2>3
    <3> QED BY <1>1, <2>3, <3>1
  <2>4. CASE b + 1 = c
    BY <1>3, <2>4
  <2> QED BY <1>4, <2>1, <2>2, <2>3, <2>4 DEF Marks, PairIn, IsPair
<1> QED BY <1>3, <1>4, BoundaryOf

IsHead(i) == i = 1 \/ End(List[i - 1]) \in Boundaries \/ List[i] \in Boundaries

LEMMA BeforeEnd ==
  ASSUME Sound, NEW i \in 1 .. Len(List)
  PROVE  fun.start <= List[i] /\ List[i] < fun.end /\ (i < Len(List) => List[i] + 1 < fun.end)
<1>1. /\ Len(List) \in Nat \ {0} /\ List[i] \in Nat /\ fun.end = List[Len(List)] + 1
      /\ List[1] = fun.start
      /\ \A k, m \in 1 .. Len(List) : k < m => List[k] < List[m]
  BY ListFacts
<1>2. Len(List) \in 1 .. Len(List) /\ 1 \in 1 .. Len(List)
  BY <1>1
<1>3. List[Len(List)] \in Nat /\ List[1] \in Nat
  BY <1>2, ListFacts
<1>4. i = Len(List) \/ List[i] < List[Len(List)]
  BY <1>1, <1>2
<1>5. i = 1 \/ List[1] < List[i]
  BY <1>1, <1>2
<1> QED BY <1>1, <1>3, <1>4, <1>5

LEMMA PairPlace ==
  ASSUME Sound, NEW i \in 1 .. Len(List), List[i] \in Steps, PairIn(List[i])
  PROVE  /\ i < Len(List) /\ List[i + 1] = List[i] + 1 /\ ~IsHead(i + 1)
         /\ i + 1 = Len(List) \/ IsHead(i + 2)
<1>1. Len(List) \in Nat /\ List[i] \in Nat
  BY ListFacts
<1>2. PICK j \in 1 .. Len(List) : List[j] = List[i] + 1
  BY ListFacts
<1>3. j = i + 1
  BY <1>2, NextInList
<1>4. i < Len(List) /\ List[i + 1] = List[i] + 1
  BY <1>1, <1>2, <1>3
<1>5. ~IsHead(i + 1)
  <2>1. List[i] + 1 \notin Boundaries
    BY NotSecond
  <2>2. (i + 1) - 1 = i /\ i + 1 # 1
    BY <1>1
  <2> QED BY <1>4, <2>1, <2>2 DEF IsHead, End
<1>6. ASSUME i + 1 < Len(List) PROVE IsHead(i + 2)
  <2>1. i + 1 \in 1 .. Len(List) /\ (i + 2) - 1 = i + 1
    BY <1>1, <1>6
  <2>2. fun.start <= List[i + 1] /\ List[i + 1] + 1 < fun.end
    BY <1>6, <2>1, BeforeEnd
  <2>3. List[i + 1] + 1 = List[i] + 2
    BY <1>1, <1>4
  <2>4. Marks(List[i], List[i] + 2)
    BY DEF Marks, PairIn, IsPair
  <2>5. fun.start \in Nat
    BY StepFacts
  <2>6. fun.start <= List[i] + 2
    BY <1>1, <1>4, <2>2, <2>5
  <2>7. List[i] + 2 \in Boundaries
    BY <2>2, <2>3, <2>4, <2>6, BoundaryOf
  <2> QED BY <2>1, <2>3, <2>7 DEF IsHead, End
<1> QED BY <1>1, <1>4, <1>5, <1>6

\* An instruction that does not end its block goes on to the next.
LEMMA InsideBlock ==
  ASSUME Sound, NEW i \in 1 .. Len(List), i < Len(List), ~IsHead(i + 1)
  PROVE  /\ List[i] \in Steps /\ List[i + 1] = List[i] + 1
         /\ Falls(List[i]) \/ PairIn(List[i])
<1>1. Len(List) \in Nat /\ List[i] \in Nat /\ fun.start \in Nat
  BY ListFacts, StepFacts
<1>2. fun.start <= List[i] /\ List[i] + 1 < fun.end
  BY BeforeEnd
<1>3. List[i] + 1 \notin Boundaries
  <2>1. (i + 1) - 1 = i
    BY <1>1
  <2> QED BY <2>1 DEF IsHead, End
<1>4. \A b \in Steps : ~Marks(b, List[i] + 1)
  <2>1. fun.start <= List[i] + 1
    BY <1>1, <1>2
  <2> QED BY <1>2, <1>3, <2>1, BoundaryOf
<1>5. List[i] \in Steps
  <2> SUFFICES ASSUME List[i] \notin Steps PROVE FALSE
    OBVIOUS
  <2>1. List[i] - 1 \in Steps /\ PairIn(List[i] - 1)
    BY ListFacts
  <2>2. List[i] + 1 = (List[i] - 1) + 2
    BY <1>1
  <2>3. Marks(List[i] - 1, List[i] + 1)
    BY <2>1, <2>2 DEF Marks, PairIn, IsPair
  <2> QED BY <1>4, <2>1, <2>3
<1>6. image[List[i]].k \notin {"goto", "if", "halt"}
  BY <1>4, <1>5 DEF Marks, Jumps
<1>7. Falls(List[i]) \/ PairIn(List[i])
  BY <1>5, <1>6, StepKinds
<1>8. \E j \in 1 .. Len(List) : List[j] = List[i] + 1
  <2>1. Falls(List[i]) => Goes(List[i]) = {List[i] + 1}
    BY <1>5, StepKinds
  <2>2. Falls(List[i]) => List[i] + 1 \in Steps
    BY <1>5, <2>1, StepFacts
  <2> QED BY <1>5, <1>7, <2>2, ListFacts
<1>9. List[i + 1] = List[i] + 1
  BY <1>8, NextInList
<1> QED BY <1>5, <1>7, <1>9

LEMMA HeadIsStep ==
  ASSUME Sound, NEW i \in 1 .. Len(List), IsHead(i)
  PROVE  List[i] \in Steps
<1> SUFFICES ASSUME List[i] \notin Steps PROVE FALSE
  OBVIOUS
<1>1. List[i] - 1 \in Steps /\ PairIn(List[i] - 1) /\ List[i] \in Nat
  BY ListFacts
<1>2. PICK j \in 1 .. Len(List) : List[j] = List[i] - 1
  BY <1>1, ListFacts
<1>3. List[i] = List[j] + 1
  BY <1>1, <1>2
<1>4. i = j + 1
  BY <1>3, NextInList
<1>5. ~IsHead(j + 1)
  BY <1>1, <1>2, PairPlace
<1> QED BY <1>4, <1>5

\* Where an instruction that ends its block goes on, a block starts.
LEMMA TargetsAreHeads ==
  ASSUME Sound, NEW i \in 1 .. Len(List), List[i] \in Steps,
         Falls(List[i]) => i = Len(List) \/ IsHead(i + 1),
         NEW t \in Goes(List[i])
  PROVE  \E j \in 1 .. Len(List) : List[j] = t /\ IsHead(j)
<1> DEFINE a == List[i]
<1>1. t \in Steps /\ a \in Nat
  BY StepFacts
<1>2. PICK j \in 1 .. Len(List) : List[j] = t
  BY <1>1, ListFacts
<1>3. CASE Falls(a)
  <2>1. t = a + 1
    BY <1>3, StepKinds
  <2>2. j = i + 1
    BY <1>2, <2>1, NextInList
  <2>3. i # Len(List)
    <3>1. Len(List) \in Nat
      BY ListFacts
    <3>2. j <= Len(List)
      BY <1>2, <3>1
    <3> QED BY <2>2, <3>1, <3>2
  <2> QED BY <1>2, <1>3, <2>2, <2>3
<1>4. CASE ~Falls(a)
  <2>1. Marks(a, t)
    <3>1. CASE IsReturn(image, a, fun.size)
      BY <3>1, StepKinds
    <3>2. CASE IsCallPair(image, a)
      BY <3>2, StepKinds DEF Marks
    <3>3. CASE image[a].k = "goto"
      BY <3>3, StepKinds DEF Marks, Jumps
    <3>4. CASE image[a].k = "if"
      BY <3>4, StepKinds DEF Marks, Jumps
    <3>5. CASE image[a].k = "halt"
      BY <3>5, StepKinds
    <3> QED BY <1>4, <3>1, <3>2, <3>3, <3>4, <3>5, StepKinds DEF PairIn, IsPair
  <2>2. fun.start <= t /\ t < fun.end
    BY <1>2, BeforeEnd
  <2>3. t \in Boundaries
    BY <2>1, <2>2, BoundaryOf
  <2> QED BY <1>2, <2>3 DEF IsHead
<1> QED BY <1>3, <1>4
-----------------------------------------------------------------------------
(* The blocks.                                                             *)

IsBlock(p, q) ==
  /\ p \in 1 .. Len(List) /\ q \in p .. Len(List) /\ IsHead(p)
  /\ \A i \in p + 1 .. q : ~IsHead(i)
  /\ q = Len(List) \/ IsHead(q + 1)

\* The position of its last instruction, or of the first of its last pair.
LastIn(p, q) == IF p < q /\ PairIn(List[q - 1]) THEN q - 1 ELSE q

LEMMA BlockInside ==
  ASSUME Sound, NEW p, NEW q, IsBlock(p, q), NEW i \in p .. q, i < q
  PROVE  /\ i \in 1 .. Len(List) /\ List[i] \in Steps /\ List[i + 1] = List[i] + 1
         /\ Falls(List[i]) \/ PairIn(List[i])
<1>1. Len(List) \in Nat /\ p \in 1 .. Len(List) /\ q \in p .. Len(List)
  BY ListFacts DEF IsBlock
<1>2. i \in 1 .. Len(List) /\ i < Len(List) /\ i + 1 \in p + 1 .. q
  BY <1>1
<1>3. ~IsHead(i + 1)
  BY <1>2 DEF IsBlock
<1> QED BY <1>2, <1>3, InsideBlock

LEMMA BlockRuns ==
  ASSUME Sound, NEW p, NEW q, IsBlock(p, q)
  PROVE  \A i \in p .. q : List[i] = List[p] + (i - p)
<1> DEFINE T == {k \in Nat : p + k <= q => List[p + k] = List[p] + k}
<1>1. Len(List) \in Nat /\ p \in 1 .. Len(List) /\ q \in p .. Len(List) /\ List[p] \in Nat
  BY ListFacts DEF IsBlock
<1>2. 0 \in T
  BY <1>1
<1>3. ASSUME NEW k \in Nat, k \in T PROVE k + 1 \in T
  <2> SUFFICES ASSUME p + (k + 1) <= q PROVE List[p + (k + 1)] = List[p] + (k + 1)
    OBVIOUS
  <2>1. p + k <= q /\ p + k \in p .. q /\ p + k < q /\ (p + k) + 1 = p + (k + 1)
    BY <1>1
  <2>2. List[p + k] = List[p] + k
    BY <1>3, <2>1
  <2>3. List[(p + k) + 1] = List[p + k] + 1
    BY <2>1, BlockInside
  <2> QED BY <1>1, <2>1, <2>2, <2>3
<1> HIDE DEF T
<1>4. \A k \in Nat : k \in T
  BY <1>2, <1>3, NumberInduction
<1> SUFFICES ASSUME NEW i \in p .. q PROVE List[i] = List[p] + (i - p)
  OBVIOUS
<1>5. i - p \in Nat /\ p + (i - p) = i /\ i <= q
  BY <1>1
<1>6. List[p + (i - p)] = List[p] + (i - p)
  BY <1>4, <1>5 DEF T
<1> QED BY <1>5, <1>6

LEMMA BlockLast ==
  ASSUME Sound, NEW p, NEW q, IsBlock(p, q)
  PROVE  /\ LastIn(p, q) \in p .. q /\ List[LastIn(p, q)] \in Steps
         /\ PairIn(List[LastIn(p, q)]) <=> LastIn(p, q) = q - 1
         /\ LastIn(p, q) # q - 1 => LastIn(p, q) = q
         /\ \A i \in p .. q : i < LastIn(p, q) => List[i] \in Steps /\ Falls(List[i])
         /\ ~PairIn(List[LastIn(p, q)]) => LastIn(p, q) = Len(List) \/ IsHead(LastIn(p, q) + 1)
<1> DEFINE s == LastIn(p, q)
           n == Len(List)
<1>1. /\ n \in Nat /\ p \in 1 .. n /\ q \in p .. n /\ p \in Nat /\ q \in Nat /\ q \in 1 .. n
      /\ IsHead(p) /\ (q = n \/ IsHead(q + 1)) /\ (\A i \in p + 1 .. q : ~IsHead(i))
  <2>1. n \in Nat /\ p \in 1 .. n /\ q \in p .. n
    BY ListFacts DEF IsBlock
  <2> QED BY <2>1 DEF IsBlock
<1>2. s = q - 1 => p < q /\ PairIn(List[q - 1])
  BY <1>1 DEF LastIn
<1>3. s # q - 1 => s = q
  BY <1>1 DEF LastIn
<1>4. s \in p .. q
  BY <1>1, <1>2, <1>3
<1>5. p < q => q - 1 \in p .. q /\ List[q - 1] \in Steps /\ List[q] = List[q - 1] + 1
  <2> SUFFICES ASSUME p < q
               PROVE  q - 1 \in p .. q /\ List[q - 1] \in Steps /\ List[q] = List[q - 1] + 1
    OBVIOUS
  <2>1. q - 1 \in p .. q /\ q - 1 < q /\ (q - 1) + 1 = q
    BY <1>1
  <2> QED BY <2>1, BlockInside
<1>6. List[s] \in Steps
  <2>1. CASE s = q - 1
    BY <1>2, <1>5, <2>1
  <2>2. CASE s = q /\ p = q
    BY <1>1, <2>2, HeadIsStep
  <2>3. CASE s = q /\ p < q
    <3>1. ~PairIn(List[q - 1])
      BY <1>1, <2>3 DEF LastIn
    <3>2. List[q] \in Steps \/ PairIn(List[q] - 1)
      BY <1>1, ListFacts
    <3>3. List[q - 1] \in Nat
      BY <1>5, <2>3, StepFacts
    <3>4. List[q] - 1 = List[q - 1]
      BY <1>5, <2>3, <3>3
    <3> QED BY <2>3, <3>1, <3>2, <3>4
  <2> QED BY <1>1, <1>3, <2>1, <2>2, <2>3
<1>7. s = q => ~PairIn(List[q])
  <2> SUFFICES ASSUME s = q, PairIn(List[q]) PROVE FALSE
    OBVIOUS
  <2>1. q < n /\ ~IsHead(q + 1)
    BY <1>1, <1>6, PairPlace
  <2> QED BY <1>1, <2>1
<1>8. PairIn(List[s]) <=> s = q - 1
  BY <1>1, <1>2, <1>3, <1>7
<1>9. ASSUME NEW i \in p .. q, i < s PROVE List[i] \in Steps /\ Falls(List[i])
  <2>1. i < q /\ i \in 1 .. n /\ s \in Nat
    BY <1>1, <1>4, <1>9
  <2>2. List[i] \in Steps /\ (Falls(List[i]) \/ PairIn(List[i]))
    BY <2>1, BlockInside
  <2>3. ~PairIn(List[i])
    <3> SUFFICES ASSUME PairIn(List[i]) PROVE FALSE
      OBVIOUS
    <3>1. i + 1 = n \/ IsHead(i + 2)
      BY <2>1, <2>2, PairPlace
    <3>2. CASE i + 1 = q
      <4>1. q - 1 = i /\ p < q
        BY <1>1, <3>2
      <4>2. s = q - 1
        BY <4>1 DEF LastIn
      <4> QED BY <1>9, <2>1, <4>1, <4>2
    <3>3. CASE i + 1 < q
      <4>1. i + 2 \in p + 1 .. q /\ i + 1 # n
        BY <1>1, <3>3
      <4> QED BY <1>1, <3>1, <4>1
    <3> QED BY <1>1, <2>1, <3>2, <3>3
  <2> QED BY <2>2, <2>3
<1>10. ~PairIn(List[s]) => s = n \/ IsHead(s + 1)
  BY <1>1, <1>3, <1>8
<1> HIDE DEF s
<1> QED BY <1>3, <1>4, <1>6, <1>8, <1>9, <1>10 DEF s

\* The instructions of the function, in the image and in the block.
LEMMA ListInImage ==
  ASSUME Sound, NEW i \in 1 .. Len(List)
  PROVE  /\ List[i] \in DOMAIN image /\ At(image, List[i]) = image[List[i]]
         /\ List[i] \notin Steps => image[List[i]].k \in Gotos
<1>1. CASE List[i] \in Steps
  BY <1>1, StepFacts
<1>2. CASE List[i] \notin Steps
  <2> DEFINE b == List[i] - 1
  <2>1. b \in Steps /\ PairIn(b) /\ List[i] \in Nat
    BY <1>2, ListFacts
  <2>2. b + 1 = List[i]
    BY <2>1
  <2>3. At(image, b + 1).k \in Gotos
    <3> HIDE DEF b
    <3> QED BY <2>1, StepKinds DEF PairIn, IsPair, Gotos
  <2>4. List[i] \in DOMAIN image
    BY <2>2, <2>3 DEF At, Gotos, Bad, Item
  <2> QED BY <2>2, <2>3, <2>4 DEF At
<1> QED BY <1>1, <1>2

Piece(p, q) == SubSeq(List, p, q)

LEMMA PieceFacts ==
  ASSUME Sound, NEW p, NEW q, IsBlock(p, q)
  PROVE  /\ Piece(p, q) \in Seq(Int) /\ Len(Piece(p, q)) = q - p + 1
         /\ DOMAIN Piece(p, q) = 1 .. q - p + 1
         /\ p \in Nat \ {0} /\ q \in Nat \ {0} /\ p <= q
         /\ \A i \in 1 .. q - p + 1 :
              /\ Piece(p, q)[i] = List[p + i - 1] /\ p + i - 1 \in p .. q
              /\ p + i - 1 \in 1 .. Len(List)
         /\ \A x : x \in Range(Piece(p, q)) <=> \E i \in p .. q : List[i] = x
<1>1. /\ List \in Seq(Int) /\ Len(List) \in Nat /\ p \in 1 .. Len(List) /\ q \in p .. Len(List)
      /\ DOMAIN List = 1 .. Len(List)
  BY ListFacts DEF IsBlock
<1>2. p \in Nat \ {0} /\ q \in Nat \ {0} /\ p <= q /\ q <= Len(List)
  BY <1>1
<1>3. Piece(p, q) = [i \in 1 .. q - p + 1 |-> List[i + p - 1]]
  BY <1>1, <1>2 DEF Piece
<1>4. \A i \in 1 .. q - p + 1 : List[i + p - 1] \in Int
  <2> SUFFICES ASSUME NEW i \in 1 .. q - p + 1 PROVE List[i + p - 1] \in Int
    OBVIOUS
  <2>1. i + p - 1 \in 1 .. Len(List)
    BY <1>2, <1>1
  <2> QED BY <1>1, <2>1, Element
<1>5. Piece(p, q) \in [1 .. q - p + 1 -> Int] /\ q - p + 1 \in Nat
  <2>1. Piece(p, q) \in [1 .. q - p + 1 -> Int]
    BY <1>3, <1>4
  <2>2. q - p + 1 \in Nat
    BY <1>2
  <2> QED BY <2>1, <2>2
<1>6. Piece(p, q) \in Seq(Int) /\ Len(Piece(p, q)) = q - p + 1 /\ DOMAIN Piece(p, q) = 1 .. q - p + 1
  BY <1>5
<1>7. ASSUME NEW i \in 1 .. q - p + 1
      PROVE  /\ Piece(p, q)[i] = List[p + i - 1] /\ p + i - 1 \in p .. q
             /\ p + i - 1 \in 1 .. Len(List)
  <2>1. i + p - 1 = p + i - 1 /\ p + i - 1 \in p .. q /\ p + i - 1 \in 1 .. Len(List)
    BY <1>1, <1>2
  <2>2. Piece(p, q)[i] = List[i + p - 1]
    BY <1>3
  <2> QED BY <2>1, <2>2
<1>8. ASSUME NEW x PROVE x \in Range(Piece(p, q)) <=> \E i \in p .. q : List[i] = x
  <2>1. ASSUME NEW i \in p .. q PROVE List[i] \in Range(Piece(p, q))
    <3>1. i - p + 1 \in 1 .. q - p + 1 /\ p + (i - p + 1) - 1 = i
      BY <1>2
    <3>2. Piece(p, q)[i - p + 1] = List[i]
      BY <1>7, <3>1
    <3> QED BY <1>6, <3>1, <3>2 DEF Range
  <2>2. ASSUME NEW y \in Range(Piece(p, q)) PROVE \E i \in p .. q : List[i] = y
    <3>1. PICK j \in 1 .. q - p + 1 : y = Piece(p, q)[j]
      BY <1>6, <2>2 DEF Range
    <3> QED BY <1>7, <3>1
  <2> QED BY <2>1, <2>2
<1> QED BY <1>2, <1>6, <1>7, <1>8
-----------------------------------------------------------------------------
(* The conversion of a block.                                              *)

LEMMA PairsInPiece ==
  ASSUME Sound, NEW p, NEW q, IsBlock(p, q), NEW i \in 1 .. q - p + 1, Piece(p, q)[i] \in Steps
  PROVE  /\ ReturnPair(image, Piece(p, q), i) <=> IsReturn(image, Piece(p, q)[i], fun.size)
         /\ CallPair(image, Piece(p, q), i) <=> IsCallPair(image, Piece(p, q)[i])
<1> DEFINE L == Piece(p, q)
           a == L[i]
           j == p + i - 1
<1>1. /\ p \in Nat \ {0} /\ q \in Nat \ {0} /\ p <= q /\ DOMAIN L = 1 .. q - p + 1
      /\ a = List[j] /\ j \in p .. q /\ j \in 1 .. Len(List)
  BY PieceFacts
<1>2. /\ a \in Nat /\ At(image, a) = image[a] /\ image[a].n \in Int /\ fun.size > 0 /\ fun.size \in Int
      /\ fun.size = image[fun.start].n
      /\ (image[a].k = "adjust" => a = fun.start \/ IsReturn(image, a, fun.size))
  <2>1. a \in Steps
    OBVIOUS
  <2> HIDE DEF a
  <2> QED BY <2>1, StepFacts
<1>3. Nth(image, L, i) = image[a]
  BY <1>1 DEF Nth
<1>4. i < q - p + 1 => /\ i + 1 \in DOMAIN L /\ L[i + 1] = a + 1
                       /\ Nth(image, L, i + 1) = At(image, a + 1)
  <2> SUFFICES ASSUME i < q - p + 1
               PROVE  /\ i + 1 \in DOMAIN L /\ L[i + 1] = a + 1
                      /\ Nth(image, L, i + 1) = At(image, a + 1)
    OBVIOUS
  <2>1. j < q /\ i + 1 \in 1 .. q - p + 1 /\ p + (i + 1) - 1 = j + 1
    BY <1>1
  <2>2. L[i + 1] = List[p + (i + 1) - 1] /\ p + (i + 1) - 1 \in 1 .. Len(List)
    <3> HIDE DEF j
    <3> QED BY <2>1, PieceFacts
  <2>3. L[i + 1] = List[j + 1] /\ j + 1 \in 1 .. Len(List)
    <3> HIDE DEF L, j
    <3> QED BY <2>1, <2>2
  <2>4. List[j + 1] = List[j] + 1
    BY <1>1, <2>1, BlockInside
  <2>5. L[i + 1] = a + 1
    BY <1>1, <2>3, <2>4
  <2>6. At(image, List[j + 1]) = image[List[j + 1]]
    BY <2>3, ListInImage
  <2>7. i + 1 \in DOMAIN L
    BY <1>1, <2>1
  <2>8. Nth(image, L, i + 1) = image[L[i + 1]]
    BY <2>7 DEF Nth
  <2> HIDE DEF L, a, j
  <2> QED BY <2>3, <2>5, <2>6, <2>7, <2>8
<1>5. ~(i < q - p + 1) => i + 1 \notin DOMAIN L /\ Nth(image, L, i + 1).k = "bad" /\ ~PairIn(a)
  <2> SUFFICES ASSUME ~(i < q - p + 1)
               PROVE  i + 1 \notin DOMAIN L /\ Nth(image, L, i + 1).k = "bad" /\ ~PairIn(a)
    OBVIOUS
  <2>1. i + 1 \notin DOMAIN L /\ j = q
    BY <1>1
  <2>2. Nth(image, L, i + 1).k = "bad"
    BY <2>1 DEF Nth, Bad, Item
  <2>3. ~PairIn(a)
    <3> SUFFICES ASSUME PairIn(a) PROVE FALSE
      OBVIOUS
    <3>1. j < Len(List) /\ ~IsHead(j + 1)
      <4>1. List[j] \in Steps /\ PairIn(List[j])
        BY <1>1
      <4> HIDE DEF j
      <4> QED BY <1>1, <4>1, PairPlace
    <3>2. q = Len(List) \/ IsHead(q + 1)
      BY DEF IsBlock
    <3>3. Len(List) \in Nat
      BY ListFacts
    <3> HIDE DEF j
    <3> QED BY <1>1, <2>1, <3>1, <3>2, <3>3
  <2> QED BY <2>1, <2>2, <2>3
<1>6. a \in Steps
  OBVIOUS
<1> HIDE DEF L, a, j
<1>7. /\ IsReturn(image, a, fun.size) =>
           image[a].k = "adjust" /\ image[a].n < 0 /\ At(image, a + 1).k = "gotoR" /\ PairIn(a)
      /\ IsCallPair(image, a) =>
           image[a].k = "link" /\ At(image, a + 1).k \in Gotos /\ image[a].n = a + 2 /\ PairIn(a)
  BY <1>6, StepKinds DEF PairIn, IsPair
<1>8. ReturnPair(image, L, i) => IsReturn(image, a, fun.size)
  <2> SUFFICES ASSUME ReturnPair(image, L, i) PROVE IsReturn(image, a, fun.size)
    OBVIOUS
  <2>1. image[a].k = "adjust" /\ image[a].n < 0
    BY <1>3 DEF ReturnPair
  <2>2. a # fun.start
    BY <1>2, <2>1
  <2> QED BY <1>2, <2>1, <2>2
<1>9. IsReturn(image, a, fun.size) => ReturnPair(image, L, i)
  BY <1>3, <1>4, <1>5, <1>7 DEF ReturnPair
<1>10. CallPair(image, L, i) => IsCallPair(image, a)
  <2> SUFFICES ASSUME CallPair(image, L, i) PROVE IsCallPair(image, a)
    OBVIOUS
  <2>1. image[a].k = "link" /\ Nth(image, L, i + 1).k \in Gotos /\ image[a].n = End(L[i + 1])
    BY <1>3 DEF CallPair
  <2>2. i < q - p + 1
    BY <1>5, <2>1 DEF Gotos
  <2>3. At(image, End(a)).k \in Gotos /\ image[a].n = End(End(a))
    BY <1>4, <2>1, <2>2 DEF End
  <2> QED BY <1>2, <2>1, <2>3 DEF IsCallPair
<1>11. IsCallPair(image, a) => CallPair(image, L, i)
  <2> SUFFICES ASSUME IsCallPair(image, a) PROVE CallPair(image, L, i)
    OBVIOUS
  <2>1. i < q - p + 1
    BY <1>5, <1>7
  <2>2. image[a].n = End(L[i + 1])
    BY <1>2, <1>4, <1>7, <2>1 DEF End
  <2> QED BY <1>3, <1>4, <1>7, <2>1, <2>2 DEF CallPair
<1> QED BY <1>8, <1>9, <1>10, <1>11 DEF L, a

\* The position of the last instruction in the piece, and of the first it keeps.
LastAt(p, q) == LastIn(p, q) - p + 1
FirstAt(p)   == IF p = 1 THEN 2 ELSE 1

LEMMA LastAtPlace ==
  ASSUME Sound, NEW p, NEW q, IsBlock(p, q)
  PROVE  /\ LastAt(p, q) \in 1 .. q - p + 1 /\ Piece(p, q)[LastAt(p, q)] = List[LastIn(p, q)]
         /\ Piece(p, q)[LastAt(p, q)] \in Steps
         /\ \A i \in 1 .. q - p + 1 : i < LastAt(p, q) =>
              Piece(p, q)[i] \in Steps /\ Falls(Piece(p, q)[i])
         /\ \A i \in 1 .. q - p + 1 : i > LastAt(p, q) =>
              /\ i = LastAt(p, q) + 1 /\ PairIn(Piece(p, q)[LastAt(p, q)])
              /\ Piece(p, q)[i] \notin Steps
<1> DEFINE s == LastIn(p, q)
           t == LastAt(p, q)
<1>1. /\ p \in Nat \ {0} /\ q \in Nat \ {0} /\ p <= q
      /\ \A i \in 1 .. q - p + 1 : Piece(p, q)[i] = List[p + i - 1] /\ p + i - 1 \in p .. q
  BY PieceFacts
<1>2. /\ s \in p .. q /\ List[s] \in Steps /\ (PairIn(List[s]) <=> s = q - 1) /\ (s # q - 1 => s = q)
      /\ \A i \in p .. q : i < s => List[i] \in Steps /\ Falls(List[i])
  BY BlockLast
<1> HIDE DEF s
<1>3. t = s - p + 1 /\ t \in 1 .. q - p + 1 /\ p + t - 1 = s
  BY <1>1, <1>2 DEF LastAt, s
<1>4. Piece(p, q)[t] = List[s]
  BY <1>1, <1>3
<1>5. ASSUME NEW i \in 1 .. q - p + 1, i < t PROVE Piece(p, q)[i] \in Steps /\ Falls(Piece(p, q)[i])
  <2>1. p + i - 1 \in p .. q /\ p + i - 1 < s
    BY <1>1, <1>2, <1>3, <1>5
  <2> QED BY <1>1, <1>2, <2>1
<1>6. ASSUME NEW i \in 1 .. q - p + 1, i > t
      PROVE  i = t + 1 /\ PairIn(Piece(p, q)[t]) /\ Piece(p, q)[i] \notin Steps
  <2>1. s = q - 1 /\ i = t + 1 /\ p + i - 1 = s + 1 /\ s < q
    BY <1>1, <1>2, <1>3, <1>6
  <2>2. PairIn(List[s])
    BY <1>2, <2>1
  <2>3. List[s + 1] = List[s] + 1
    BY <1>2, <2>1, BlockInside
  <2>4. List[s] + 1 \notin Steps
    BY <1>2, <2>2, StepFacts
  <2> QED BY <1>1, <1>4, <2>1, <2>2, <2>3, <2>4
<1> HIDE DEF t
<1> QED BY <1>2, <1>3, <1>4, <1>5, <1>6 DEF s, t

\* The conversion leaves all but the entry and the second of the last pair.
LEMMA KeptInPiece ==
  ASSUME Sound, NEW p, NEW q, IsBlock(p, q)
  PROVE  Kept(image, Piece(p, q)) = FirstAt(p) .. LastAt(p, q)
<1> DEFINE L == Piece(p, q)
           t == LastAt(p, q)
           m == q - p + 1
<1>1. /\ p \in Nat \ {0} /\ q \in Nat \ {0} /\ p <= q /\ DOMAIN L = 1 .. m
      /\ \A i \in 1 .. m : L[i] = List[p + i - 1] /\ p + i - 1 \in 1 .. Len(List)
  BY PieceFacts
<1>2. /\ t \in 1 .. m /\ L[t] \in Steps
      /\ \A i \in 1 .. m : i < t => L[i] \in Steps /\ Falls(L[i])
      /\ \A i \in 1 .. m : i > t => i = t + 1 /\ PairIn(L[t])
  BY LastAtPlace
<1>3. t \in Nat /\ m \in Nat /\ t <= m
  BY <1>1, <1>2
<1> HIDE DEF L, t, m
<1>4. \A i \in 1 .. m : L[i] \in Steps => (PairStart(image, L, i) <=> PairIn(L[i]))
  BY PairsInPiece DEF L, m, PairStart, PairIn, IsPair
<1>5. ~PairStart(image, L, 0)
  <2>1. 0 \notin DOMAIN L
    BY <1>1
  <2> QED BY <2>1 DEF PairStart, ReturnPair, CallPair, Nth, Bad, Item
<1>6. \A i \in 1 .. m : i <= t => ~PairStart(image, L, i - 1)
  <2> SUFFICES ASSUME NEW i \in 1 .. m, i <= t PROVE ~PairStart(image, L, i - 1)
    OBVIOUS
  <2>1. CASE i = 1
    <3>1. i - 1 = 0
      BY <2>1
    <3> QED BY <1>5, <3>1
  <2>2. CASE i # 1
    <3>1. i - 1 \in 1 .. m /\ i - 1 < t
      BY <1>3, <2>2
    <3>2. L[i - 1] \in Steps /\ Falls(L[i - 1])
      BY <1>2, <3>1
    <3> QED BY <1>4, <3>1, <3>2 DEF Falls
  <2> QED BY <2>1, <2>2
<1>7. \A i \in 1 .. m : i > t => PairStart(image, L, i - 1)
  <2> SUFFICES ASSUME NEW i \in 1 .. m, i > t PROVE PairStart(image, L, i - 1)
    OBVIOUS
  <2>1. i = t + 1 /\ PairIn(L[t])
    BY <1>2
  <2>2. i - 1 = t
    BY <1>3, <2>1
  <2> QED BY <1>2, <1>4, <2>1, <2>2
<1>8. \A i \in 1 .. m : i <= t =>
        ((image[L[i]].k = "adjust" /\ image[L[i]].n > 0) <=> (p = 1 /\ i = 1))
  <2> SUFFICES ASSUME NEW i \in 1 .. m, i <= t
               PROVE  (image[L[i]].k = "adjust" /\ image[L[i]].n > 0) <=> (p = 1 /\ i = 1)
    OBVIOUS
  <2>1. L[i] \in Steps
    BY <1>2, <1>3
  <2>2. /\ image[fun.start].k = "adjust" /\ image[fun.start].n > 0
        /\ image[L[i]].k = "adjust" => L[i] = fun.start \/ IsReturn(image, L[i], fun.size)
        /\ image[L[i]].n \in Int
    BY <2>1, StepFacts
  <2>3. IsReturn(image, L[i], fun.size) => image[L[i]].n < 0
    BY <2>1, StepKinds
  <2>4. (image[L[i]].k = "adjust" /\ image[L[i]].n > 0) <=> L[i] = fun.start
    BY <2>2, <2>3
  <2>5. L[i] = fun.start <=> p + i - 1 = 1
    <3>1. /\ Len(List) \in Nat \ {0} /\ List[1] = fun.start
          /\ \A k, l \in 1 .. Len(List) : k < l => List[k] < List[l]
          /\ \A k \in 1 .. Len(List) : List[k] \in Nat
      BY ListFacts
    <3>2. p + i - 1 \in 1 .. Len(List) /\ 1 \in 1 .. Len(List) /\ L[i] = List[p + i - 1]
      BY <1>1, <3>1
    <3>3. p + i - 1 # 1 => List[1] < List[p + i - 1]
      <4> DEFINE j == p + i - 1
      <4>1. j \in 1 .. Len(List) /\ j # 1 => 1 < j
        BY <3>1
      <4> HIDE DEF j
      <4>2. j \in 1 .. Len(List)
        BY <3>2 DEF j
      <4>3. j # 1 => List[1] < List[j]
        BY <3>1, <3>2, <4>1, <4>2
      <4> QED BY <4>3 DEF j
    <3>4. List[1] \in Nat /\ List[p + i - 1] \in Nat
      BY <3>1, <3>2
    <3> QED BY <3>1, <3>2, <3>3, <3>4
  <2>6. p + i - 1 = 1 <=> p = 1 /\ i = 1
    BY <1>1, <1>3
  <2> QED BY <2>4, <2>5, <2>6
<1>9. ASSUME NEW i
      PROVE  i \in Kept(image, L) <=> i \in FirstAt(p) .. t
  <2>1. i \in Kept(image, L) <=>
          /\ i \in 1 .. m /\ ~PairStart(image, L, i - 1)
          /\ ~(image[L[i]].k = "adjust" /\ image[L[i]].n > 0)
    BY <1>1 DEF Kept
  <2>2. i \in 1 .. m => (i <= t \/ i > t)
    BY <1>3
  <2>3. i \in FirstAt(p) .. t <=> i \in 1 .. m /\ i <= t /\ ~(p = 1 /\ i = 1)
    <3>1. CASE p = 1
      <4>1. FirstAt(p) = 2
        BY <3>1 DEF FirstAt
      <4> QED BY <1>3, <3>1, <4>1
    <3>2. CASE p # 1
      <4>1. FirstAt(p) = 1
        BY <3>2 DEF FirstAt
      <4> QED BY <1>3, <3>2, <4>1
    <3> QED BY <3>1, <3>2
  <2>4. i \in 1 .. m /\ i > t => ~(i <= t)
    BY <1>3
  <2> QED BY <1>6, <1>7, <1>8, <2>1, <2>2, <2>3, <2>4
<1> QED BY <1>9 DEF L, t
-----------------------------------------------------------------------------
(* The conversion of a block does not fail.                                *)

\* No block starts among the arguments of a call.
LEMMA NoHeadAmongArguments ==
  ASSUME Sound, NEW p \in 1 .. Len(List), IsHead(p), ~PairIn(List[p]),
         List[p] - 1 \in Steps, image[List[p] - 1].k = "arg",
         \A b \in Steps : image[b].k \in Jumps => image[b].n # List[p]
  PROVE  FALSE
<1> DEFINE h == List[p]
<1>1. /\ Len(List) \in Nat /\ List[p] \in Nat /\ List[1] = fun.start
      /\ \A b \in Steps : b \in Nat /\ fun.start <= b
      /\ \A b \in Steps : PairIn(b) => b + 1 \notin Steps
  BY ListFacts, StepFacts
<1>2. p # 1
  <2>1. fun.start \in Nat /\ fun.start <= h - 1
    BY <1>1, StepFacts
  <2>2. h # fun.start
    BY <1>1, <2>1
  <2> QED BY <1>1, <2>2
<1>3. List[p - 1] = h - 1
  <2>1. PICK j \in 1 .. Len(List) : List[j] = h - 1
    BY ListFacts
  <2>2. h = List[j] + 1
    BY <1>1, <2>1
  <2>3. p = j + 1
    BY <2>2, NextInList
  <2>4. p - 1 = j
    BY <1>1, <2>3
  <2> QED BY <2>1, <2>4
<1>4. h \in Boundaries
  <2>1. End(List[p - 1]) = h
    BY <1>1, <1>3 DEF End
  <2> QED BY <1>2, <2>1 DEF IsHead
<1>5. h # fun.start
  <2>1. fun.start \in Nat /\ fun.start <= h - 1
    BY <1>1, StepFacts
  <2> QED BY <1>1, <2>1
<1>6. PICK b \in Steps : Marks(b, h)
  BY <1>4, <1>5, BoundaryOf
<1>7. h = b + 1 => image[b].k = "arg"
  <2>1. h = b + 1 => b = h - 1
    BY <1>1
  <2> QED BY <2>1
<1>8. h = b + 2 => ~PairIn(b)
  <2>1. h = b + 2 => b + 1 = h - 1
    BY <1>1
  <2> QED BY <1>1, <2>1
<1>9. ~(image[b].k \in Jumps /\ h = image[b].n)
  OBVIOUS
<1>10. ~(IsReturn(image, b, fun.size) /\ h = b)
  BY DEF PairIn, IsPair
<1> HIDE DEF h
<1> QED BY <1>6, <1>7, <1>8, <1>9, <1>10 DEF Marks, PairIn, IsPair, Jumps

\* What BadArguments reads: the items before the call, from the last.
ArgumentMissing(im, L, lo, t) ==
  /\ lo < t /\ im[L[t - 1]].k = "arg"
  /\ \E m \in 1 .. im[L[t - 1]].n - 1 :
       t - 1 - m < lo \/ im[L[t - 1 - m]] # Item("arg", im[L[t - 1]].n - m)

LEMMA ItemsBefore ==
  ASSUME NEW im, NEW L, NEW lo \in Nat, NEW t \in Nat, Kept(im, L) = lo .. t, BadArguments(im, L, t)
  PROVE  ArgumentMissing(im, L, lo, t)
<1> DEFINE before == {j \in Kept(im, L) : j < t}
           pick(m) == CHOOSE j \in before : Cardinality({l \in before : l > j}) = m
           item(m) == IF m < Cardinality(before) THEN im[L[pick(m)]] ELSE Bad
<1>1. item(0).k = "arg" /\ \E m \in 1 .. item(0).n - 1 : item(m) # Item("arg", item(0).n - m)
  BY DEF BadArguments
<1>2. before = lo .. t - 1
  <2>1. \A j : j \in before <=> j \in lo .. t - 1
    OBVIOUS
  <2> HIDE DEF before
  <2> QED BY <2>1
<1>3. \A j \in before : {l \in before : l > j} = j + 1 .. t - 1
  <2> SUFFICES ASSUME NEW j \in before PROVE {l \in before : l > j} = j + 1 .. t - 1
    OBVIOUS
  <2>1. j \in lo .. t - 1
    BY <1>2
  <2>2. \A l : (l \in lo .. t - 1 /\ l > j) <=> l \in j + 1 .. t - 1
    BY <2>1
  <2> HIDE DEF before
  <2> QED BY <1>2, <2>2
<1>4. \A j \in before : Cardinality({l \in before : l > j}) = t - 1 - j
  <2> SUFFICES ASSUME NEW j \in before PROVE Cardinality({l \in before : l > j}) = t - 1 - j
    OBVIOUS
  <2>1. j \in lo .. t - 1
    BY <1>2
  <2>2. Cardinality(j + 1 .. t - 1) = IF j + 1 > t - 1 THEN 0 ELSE (t - 1) - (j + 1) + 1
    BY <2>1, FS_Interval
  <2>3. Cardinality(j + 1 .. t - 1) = t - 1 - j
    BY <2>1, <2>2
  <2> QED BY <1>3, <2>3
<1>5. Cardinality(before) = IF lo > t - 1 THEN 0 ELSE t - lo
  <2>1. Cardinality(lo .. t - 1) = IF lo > t - 1 THEN 0 ELSE (t - 1) - lo + 1
    BY FS_Interval
  <2>2. Cardinality(lo .. t - 1) = IF lo > t - 1 THEN 0 ELSE t - lo
    BY <2>1
  <2> QED BY <1>2, <2>2
<1> HIDE DEF before
<1>6. lo < t
  <2> SUFFICES ASSUME ~(lo < t) PROVE FALSE
    OBVIOUS
  <2>1. Cardinality(before) = 0
    BY <1>5
  <2>2. item(0) = Bad
    BY <2>1
  <2> QED BY <1>1, <2>2 DEF Bad, Item
<1>7. \A m \in Nat : t - 1 - m >= lo => item(m) = im[L[t - 1 - m]]
  <2> SUFFICES ASSUME NEW m \in Nat, t - 1 - m >= lo PROVE item(m) = im[L[t - 1 - m]]
    OBVIOUS
  <2>1. t - 1 - m \in before /\ t - 1 - (t - 1 - m) = m
    BY <1>2, <1>6
  <2>2. Cardinality({l \in before : l > t - 1 - m}) = m
    BY <1>4, <2>1
  <2>3. pick(m) \in before /\ Cardinality({l \in before : l > pick(m)}) = m
    BY <2>1, <2>2
  <2> HIDE DEF pick
  <2>4. t - 1 - pick(m) = m /\ pick(m) \in Int
    BY <1>2, <1>4, <2>3
  <2>5. pick(m) = t - 1 - m
    BY <2>4
  <2>6. m < Cardinality(before)
    BY <1>5, <1>6
  <2> QED BY <2>5, <2>6
<1>8. item(0) = im[L[t - 1]]
  <2>1. t - 1 - 0 = t - 1 /\ t - 1 >= lo
    BY <1>6
  <2> QED BY <1>7, <2>1
<1> HIDE DEF item
<1>9. PICK m \in 1 .. item(0).n - 1 : item(m) # Item("arg", item(0).n - m)
  BY <1>1
<1>10. t - 1 - m < lo \/ im[L[t - 1 - m]] # Item("arg", im[L[t - 1]].n - m)
  <2>1. m \in Nat
    OBVIOUS
  <2>2. t - 1 - m < lo \/ t - 1 - m >= lo
    BY <2>1
  <2> QED BY <1>7, <1>8, <1>9, <2>1, <2>2
<1> QED BY <1>1, <1>6, <1>8, <1>9, <1>10 DEF ArgumentMissing

LEMMA ArgumentsInside ==
  ASSUME Sound, NEW p, NEW q, IsBlock(p, q), IsCallPair(image, Piece(p, q)[LastAt(p, q)])
  PROVE  ~BadArguments(image, Piece(p, q), LastAt(p, q))
<1> DEFINE L == Piece(p, q)
           t == LastAt(p, q)
           a == L[t]
           N == image[a - 1].n
<1> SUFFICES ASSUME BadArguments(image, L, t) PROVE FALSE
  OBVIOUS
<1>1. /\ p \in Nat \ {0} /\ q \in Nat \ {0} /\ p <= q /\ p \in 1 .. Len(List)
      /\ \A i \in 1 .. q - p + 1 : L[i] = List[p + i - 1] /\ p + i - 1 \in p .. q
  BY PieceFacts DEF IsBlock
<1>2. /\ t \in 1 .. q - p + 1 /\ a \in Steps
      /\ \A i \in 1 .. q - p + 1 : i < t => L[i] \in Steps /\ Falls(L[i])
  BY LastAtPlace
<1>3. t \in Nat /\ FirstAt(p) \in {1, 2}
  BY <1>1, <1>2 DEF FirstAt
<1>4. Kept(image, L) = FirstAt(p) .. t
  BY KeptInPiece
<1>5. \A i \in 1 .. q - p + 1 : L[i] = List[p] + (i - 1)
  <2> SUFFICES ASSUME NEW i \in 1 .. q - p + 1 PROVE L[i] = List[p] + (i - 1)
    OBVIOUS
  <2>1. p + i - 1 \in p .. q /\ (p + i - 1) - p = i - 1 /\ L[i] = List[p + i - 1]
    BY <1>1
  <2>2. List[p + i - 1] = List[p] + ((p + i - 1) - p)
    BY <2>1, BlockRuns
  <2> QED BY <2>1, <2>2
<1>6. List[p] \in Nat /\ a \in Nat
  BY <1>1, <1>2, ListFacts, StepFacts
<1> HIDE DEF L, t, a
<1>7. /\ FirstAt(p) < t /\ image[L[t - 1]].k = "arg"
      /\ \E m \in 1 .. image[L[t - 1]].n - 1 :
           t - 1 - m < FirstAt(p) \/ image[L[t - 1 - m]] # Item("arg", image[L[t - 1]].n - m)
  <2>1. FirstAt(p) \in Nat
    BY <1>3
  <2>2. BadArguments(image, L, t)
    OBVIOUS
  <2>3. t \in Nat
    BY <1>3
  <2>4. ArgumentMissing(image, L, FirstAt(p), t)
    BY <1>4, <2>1, <2>2, <2>3, ItemsBefore
  <2> QED BY <2>4 DEF ArgumentMissing
<1>8. \A i \in 1 .. t : L[i] = a - (t - i) /\ L[i] \in Nat
  <2> SUFFICES ASSUME NEW i \in 1 .. t PROVE L[i] = a - (t - i) /\ L[i] \in Nat
    OBVIOUS
  <2>1. i \in 1 .. q - p + 1
    BY <1>1, <1>2, <1>3
  <2>2. L[i] = List[p] + (i - 1) /\ L[t] = List[p] + (t - 1)
    BY <1>2, <1>5, <2>1
  <2> QED BY <1>3, <1>6, <2>2 DEF a
<1>9. L[t - 1] = a - 1 /\ L[t - 1] \in Steps
  <2>1. t - 1 \in 1 .. t /\ t - 1 \in 1 .. q - p + 1 /\ t - 1 < t /\ t - (t - 1) = 1
    BY <1>1, <1>2, <1>3, <1>7
  <2> QED BY <1>2, <1>8, <2>1
<1>10. ArgumentsWhole(image, Steps, a)
  <2>1. a \in Steps /\ a - 1 \in Steps /\ image[a - 1].k = "arg" /\ IsCallPair(image, a)
    BY <1>2, <1>7, <1>9 DEF a, L, t
  <2> QED BY <2>1 DEF Sound, CompiledFunction, Steps
<1>11. \A m \in 1 .. N - 1 :
         /\ a - 1 - m \in Steps /\ image[a - 1 - m] = Item("arg", N - m)
         /\ \A b \in Steps : image[b].k \in Jumps => image[b].n # a - m
  BY <1>10 DEF ArgumentsWhole
<1>12. PICK m \in 1 .. N - 1 : t - 1 - m < FirstAt(p) \/ image[L[t - 1 - m]] # Item("arg", N - m)
  BY <1>7, <1>9
<1>13. m \in Nat \ {0} /\ N \in Int
  <2>1. a - 1 \in Steps
    BY <1>9
  <2>2. N \in Int
    BY <2>1, StepFacts
  <2> QED BY <2>2
<1>14. t - 1 - m >= 1
  <2> SUFFICES ASSUME ~(t - 1 - m >= 1) PROVE FALSE
    OBVIOUS
  <2> DEFINE k == t - 1
  <2>1. k \in 1 .. N - 1 /\ k >= 1
    BY <1>3, <1>7, <1>13
  <2>2. a - k = List[p]
    <3>1. 1 \in 1 .. t /\ 1 \in 1 .. q - p + 1
      BY <1>1, <1>2, <1>3, <1>7
    <3>2. L[1] = a - (t - 1) /\ L[1] = List[p] + (1 - 1)
      BY <1>5, <1>8, <3>1
    <3> QED BY <1>6, <3>2
  <2>3. a - 1 - k = List[p] - 1
    BY <1>3, <1>6, <2>2
  <2>4. List[p] - 1 \in Steps /\ image[List[p] - 1] = Item("arg", N - k)
    BY <1>11, <2>1, <2>3
  <2>5. \A b \in Steps : image[b].k \in Jumps => image[b].n # List[p]
    BY <1>11, <2>1, <2>2
  <2>6. image[List[p] - 1].k = "arg"
    BY <2>4 DEF Item
  <2>7. ~PairIn(List[p])
    <3>1. 1 \in 1 .. q - p + 1 /\ 1 < t
      BY <1>1, <1>2, <1>3, <1>7
    <3>2. L[1] = List[p] + (1 - 1)
      BY <1>5, <3>1
    <3>3. L[1] = List[p]
      BY <1>6, <3>2
    <3> QED BY <1>2, <3>1, <3>3 DEF Falls
  <2>8. IsHead(p)
    BY DEF IsBlock
  <2> HIDE DEF k
  <2> QED BY <1>1, <2>4, <2>5, <2>6, <2>7, <2>8, NoHeadAmongArguments
<1>15. L[t - 1 - m] = a - 1 - m
  <2>1. t - 1 - m \in 1 .. t /\ t - (t - 1 - m) = 1 + m
    BY <1>3, <1>13, <1>14
  <2>2. L[t - 1 - m] = a - (1 + m)
    BY <1>8, <2>1
  <2> QED BY <1>6, <1>13, <2>2
<1>16. image[L[t - 1 - m]] = Item("arg", N - m)
  BY <1>11, <1>15
<1>17. t - 1 - m >= FirstAt(p)
  <2> SUFFICES ASSUME ~(t - 1 - m >= FirstAt(p)) PROVE FALSE
    OBVIOUS
  <2>1. t - 1 - m = 1 /\ p = 1
    BY <1>3, <1>13, <1>14 DEF FirstAt
  <2>2. L[1] = fun.start
    <3>1. 1 \in 1 .. q - p + 1
      BY <1>1
    <3>2. L[1] = List[p] + (1 - 1)
      BY <1>5, <3>1
    <3>3. L[1] = List[p]
      BY <1>6, <3>2
    <3> QED BY <2>1, <3>3, ListFacts
  <2>3. image[fun.start].k = "arg"
    BY <1>16, <2>1, <2>2 DEF Item
  <2> QED BY <2>3, StepFacts
<1> QED BY <1>3, <1>12, <1>13, <1>16, <1>17

LEMMA NoConversionPanic ==
  ASSUME Sound, NEW p, NEW q, IsBlock(p, q)
  PROVE  ~ConversionPanics(image, Piece(p, q))
<1> DEFINE L == Piece(p, q)
           t == LastAt(p, q)
<1> SUFFICES ASSUME NEW i \in Kept(image, L)
             PROVE  /\ ~(image[L[i]].k = "adjust" /\ ~ReturnPair(image, L, i))
                    /\ image[L[i]].k \notin Refused
                    /\ ~(CallPair(image, L, i) /\ BadArguments(image, L, i))
  BY DEF ConversionPanics
<1>1. /\ p \in Nat \ {0} /\ q \in Nat \ {0} /\ p <= q /\ DOMAIN L = 1 .. q - p + 1
  BY PieceFacts
<1>2. /\ t \in 1 .. q - p + 1 /\ L[t] \in Steps
      /\ \A j \in 1 .. q - p + 1 : j < t => L[j] \in Steps /\ Falls(L[j])
  BY LastAtPlace
<1>3. i \in FirstAt(p) .. t /\ i \in 1 .. q - p + 1
  <2>1. Kept(image, L) = FirstAt(p) .. t
    BY KeptInPiece
  <2>2. Kept(image, L) \subseteq DOMAIN L
    BY DEF Kept
  <2> HIDE DEF L, t
  <2> QED BY <1>1, <2>1, <2>2
<1>4. i = t \/ i < t
  <2>1. t \in Int /\ FirstAt(p) \in Int
    BY <1>1, <1>2 DEF FirstAt
  <2> HIDE DEF t
  <2> QED BY <1>3, <2>1
<1>5. L[i] \in Steps
  BY <1>2, <1>3, <1>4
<1>6. /\ ReturnPair(image, L, i) <=> IsReturn(image, L[i], fun.size)
      /\ CallPair(image, L, i) <=> IsCallPair(image, L[i])
  BY <1>3, <1>5, PairsInPiece
<1>7. ~(image[L[i]].k = "adjust" /\ image[L[i]].n > 0)
  BY DEF Kept
<1> HIDE DEF L, t
<1>8. image[L[i]].k = "adjust" => IsReturn(image, L[i], fun.size)
  <2>1. image[fun.start].n > 0 /\ (image[L[i]].k = "adjust" => L[i] = fun.start \/ IsReturn(image, L[i], fun.size))
    BY <1>5, StepFacts
  <2> QED BY <1>7, <2>1
<1>9. image[L[i]].k \notin Refused
  BY <1>5, StepFacts
<1>10. CallPair(image, L, i) => ~BadArguments(image, L, i)
  <2> SUFFICES ASSUME IsCallPair(image, L[i]) PROVE ~BadArguments(image, L, i)
    BY <1>6
  <2>1. i = t
    <3>1. i < t => ~PairIn(L[i])
      BY <1>2, <1>3 DEF Falls
    <3> QED BY <1>4, <3>1 DEF PairIn, IsPair
  <2> QED BY <2>1, ArgumentsInside DEF L, t
<1> QED BY <1>6, <1>8, <1>9, <1>10
-----------------------------------------------------------------------------
(* How a block goes on.                                                    *)

LEMMA LastOfKept ==
  ASSUME NEW im, NEW L, NEW lo \in Int, NEW t \in Int, lo <= t, Kept(im, L) = lo .. t
  PROVE  Max(Kept(im, L)) = t
<1>1. t \in lo .. t /\ \A y \in lo .. t : t >= y
  OBVIOUS
<1>2. \A x \in lo .. t : (\A y \in lo .. t : x >= y) => x = t
  OBVIOUS
<1> DEFINE top == CHOOSE x \in lo .. t : \A y \in lo .. t : x >= y
<1>3. top \in lo .. t /\ \A y \in lo .. t : top >= y
  BY <1>1
<1>4. Max(lo .. t) = top
  BY DEF Max
<1> HIDE DEF top
<1> QED BY <1>2, <1>3, <1>4

\* The last instruction of a block, by the piece.
LEMMA LowOfPiece ==
  ASSUME Sound, NEW p, NEW q, IsBlock(p, q), NEW L, L = Piece(p, q), Kept(image, L) # {},
         NEW a, a = List[LastIn(p, q)], NEW low, low = LastLow(image, L)
  PROVE  /\ IsReturn(image, a, fun.size) => low = [k |-> "return", to |-> <<>>]
         /\ IsCallPair(image, a) => low = [k |-> "call", to |-> <<a + 2>>]
         /\ image[a].k = "goto" => low = [k |-> "goto", to |-> <<image[a].n>>]
         /\ image[a].k = "if" => low = [k |-> "if", to |-> <<image[a].n, a + 1>>]
         /\ image[a].k = "halt" => low = [k |-> "halt", to |-> <<>>]
         /\ Falls(a) => low.k \in {"adjust", "link", "arg", "plain"}
<1> DEFINE t == LastAt(p, q)
<1>1. /\ t \in 1 .. q - p + 1 /\ L[t] = a /\ a \in Steps /\ DOMAIN L = 1 .. q - p + 1
      /\ p \in Nat \ {0} /\ q \in Nat \ {0}
  BY LastAtPlace, PieceFacts
<1>2. Kept(image, L) = FirstAt(p) .. t
  BY KeptInPiece
<1>3. FirstAt(p) <= t /\ FirstAt(p) \in Int /\ t \in Int
  <2>1. FirstAt(p) \in Int /\ t \in Int
    BY <1>1 DEF FirstAt
  <2> HIDE DEF t
  <2> QED BY <1>2, <2>1
<1>4. Max(Kept(image, L)) = t
  <2> HIDE DEF t
  <2> QED BY <1>2, <1>3, LastOfKept
<1>5. /\ ReturnPair(image, L, t) <=> IsReturn(image, a, fun.size)
      /\ CallPair(image, L, t) <=> IsCallPair(image, a)
  BY <1>1, PairsInPiece
<1> HIDE DEF t
<1>6. low = IF IsReturn(image, a, fun.size) THEN [k |-> "return", to |-> <<>>]
            ELSE IF IsCallPair(image, a) THEN [k |-> "call", to |-> <<image[a].n>>]
            ELSE IF image[a].k = "goto" THEN [k |-> "goto", to |-> <<image[a].n>>]
            ELSE IF image[a].k = "if" THEN [k |-> "if", to |-> <<image[a].n, End(a)>>]
            ELSE [k |-> image[a].k, to |-> <<>>]
  BY <1>1, <1>4, <1>5 DEF LastLow
<1>7. End(a) = a + 1
  BY DEF End
<1>8. /\ IsReturn(image, a, fun.size) => image[a].k = "adjust"
      /\ IsCallPair(image, a) => image[a].k = "link" /\ image[a].n = a + 2
  BY <1>1, StepKinds
<1>9. IsReturn(image, a, fun.size) => low = [k |-> "return", to |-> <<>>]
  BY <1>6
<1>10. IsCallPair(image, a) => low = [k |-> "call", to |-> <<a + 2>>]
  BY <1>6, <1>8
<1>11. image[a].k = "goto" => low = [k |-> "goto", to |-> <<image[a].n>>]
  BY <1>6, <1>8
<1>12. image[a].k = "if" => low = [k |-> "if", to |-> <<image[a].n, a + 1>>]
  BY <1>6, <1>7, <1>8
<1>13. image[a].k = "halt" => low = [k |-> "halt", to |-> <<>>]
  BY <1>6, <1>8
<1>14. Falls(a) => low.k \in {"adjust", "link", "arg", "plain"}
  <2>1. Falls(a) => low = [k |-> image[a].k, to |-> <<>>]
    BY <1>6 DEF Falls, PairIn, IsPair
  <2> QED BY <2>1 DEF Falls
<1> QED BY <1>9, <1>10, <1>11, <1>12, <1>13, <1>14

\* The block that holds the piece from p to q.
IsCut(p, q, bl) ==
  /\ IsBlock(p, q) /\ List[p] \in DOMAIN bl
  /\ bl[List[p]].instrs = Piece(p, q) /\ bl[List[p]].end = End(List[q])

HeadsIn(bl) == \A i \in 1 .. Len(List) : IsHead(i) => List[i] \in DOMAIN bl

LEMMA GoesOn ==
  ASSUME Sound, NEW p, NEW q, IsCut(p, q, blocks), HeadsIn(blocks), NEW b, b = List[p]
  PROVE  /\ Kept(image, blocks[b].instrs) = {} => b = fun.start
         /\ Range(NextKind(b).to) = Goes(List[LastIn(p, q)])
         /\ NextKind(b).k = "return" <=> IsReturn(image, List[LastIn(p, q)], fun.size)
         /\ \A t \in Range(NextKind(b).to) : t \in DOMAIN blocks
<1> DEFINE L == Piece(p, q)
           s == LastIn(p, q)
           a == List[s]
           k == NextKind(b)
           low == LastLow(image, L)
<1>1. IsBlock(p, q) /\ blocks[b].instrs = L /\ blocks[b].end = End(List[q])
  BY DEF IsCut
<1>2. /\ p \in Nat \ {0} /\ q \in Nat \ {0} /\ p <= q /\ p \in 1 .. Len(List) /\ q \in 1 .. Len(List)
      /\ Len(List) \in Nat
  <2>1. p \in 1 .. Len(List) /\ q \in p .. Len(List) /\ Len(List) \in Nat
    BY <1>1, ListFacts DEF IsBlock
  <2> QED BY <2>1
<1>3. /\ s \in p .. q /\ a \in Steps /\ (PairIn(a) <=> s = q - 1) /\ (s # q - 1 => s = q)
      /\ (~PairIn(a) => s = Len(List) \/ IsHead(s + 1))
  BY <1>1, BlockLast
<1>4. s \in 1 .. Len(List) /\ s \in Nat
  BY <1>2, <1>3
<1>5. Kept(image, L) = FirstAt(p) .. s - p + 1
  BY <1>1, KeptInPiece DEF LastAt
<1> HIDE DEF L, s, k, low
<1>6. ASSUME Kept(image, L) = {} PROVE p = 1 /\ s = 1
  <2>1. FirstAt(p) > s - p + 1
    <3>1. FirstAt(p) \in Int /\ s - p + 1 \in Int
      BY <1>2, <1>4 DEF FirstAt
    <3>2. FirstAt(p) <= s - p + 1 => FirstAt(p) \in FirstAt(p) .. s - p + 1
      BY <3>1
    <3> QED BY <1>5, <1>6, <3>1, <3>2
  <2> QED BY <1>2, <1>3, <1>4, <2>1 DEF FirstAt
<1>7. \A t \in Goes(a) : \E j \in 1 .. Len(List) : List[j] = t /\ IsHead(j)
  <2>1. Falls(a) => s = Len(List) \/ IsHead(s + 1)
    BY <1>3 DEF Falls
  <2> QED BY <1>3, <1>4, <2>1, TargetsAreHeads
<1>8. \A t \in Goes(a) : t \in DOMAIN blocks
  BY <1>7 DEF HeadsIn
<1>9. Falls(a) => s = q
  BY <1>3 DEF Falls
<1>10. List[1] = fun.start /\ image[fun.start].k = "adjust" /\ ~PairIn(fun.start)
  BY ListFacts, StepFacts
<1>11. CASE Kept(image, L) = {}
  <2>1. p = 1 /\ s = 1 /\ b = fun.start /\ a = fun.start
    BY <1>6, <1>10, <1>11
  <2>2. k = [k |-> "follows", to |-> <<End(fun.start)>>]
    BY <1>1, <1>11 DEF NextKind, k
  <2>3. Falls(a)
    BY <1>10, <2>1 DEF Falls
  <2>4. Goes(a) = {End(fun.start)}
    BY <1>3, <2>1, <2>3, StepKinds DEF End
  <2>5. ~IsReturn(image, a, fun.size)
    BY <2>3 DEF Falls, PairIn, IsPair
  <2>6. Range(k.to) = Goes(a) /\ k.k # "return"
    BY <2>2, <2>4, TupleElements
  <2> QED BY <1>8, <2>1, <2>5, <2>6 DEF k, s
<1>12. CASE Kept(image, L) # {}
  <2>1. /\ IsReturn(image, a, fun.size) => low = [k |-> "return", to |-> <<>>]
        /\ IsCallPair(image, a) => low = [k |-> "call", to |-> <<a + 2>>]
        /\ image[a].k = "goto" => low = [k |-> "goto", to |-> <<image[a].n>>]
        /\ image[a].k = "if" => low = [k |-> "if", to |-> <<image[a].n, a + 1>>]
        /\ image[a].k = "halt" => low = [k |-> "halt", to |-> <<>>]
        /\ Falls(a) => low.k \in {"adjust", "link", "arg", "plain"}
    BY <1>1, <1>12, LowOfPiece DEF L, s, low
  <2>2. k = IF low.k \in {"halt", "return", "call", "goto", "if"} THEN low
            ELSE IF blocks[b].end \in DOMAIN blocks THEN [k |-> "follows", to |-> <<blocks[b].end>>]
            ELSE [k |-> "halt", to |-> <<>>]
    BY <1>1, <1>12 DEF NextKind, k, low
  <2>3. /\ IsReturn(image, a, fun.size) => Goes(a) = {}
        /\ IsCallPair(image, a) => Goes(a) = {a + 2}
        /\ image[a].k = "goto" => ~PairIn(a) /\ Goes(a) = {image[a].n}
        /\ image[a].k = "if"   => ~PairIn(a) /\ Goes(a) = {image[a].n, a + 1}
        /\ image[a].k = "halt" => ~PairIn(a) /\ Goes(a) = {}
        /\ Falls(a) => Goes(a) = {a + 1}
        /\ Falls(a) \/ PairIn(a) \/ image[a].k \in {"goto", "if", "halt"}
        /\ IsReturn(image, a, fun.size) => image[a].k = "adjust"
        /\ IsCallPair(image, a) => image[a].k = "link"
    BY <1>3, StepKinds
  <2>4. Range(k.to) = Goes(a) /\ (k.k = "return" <=> IsReturn(image, a, fun.size))
    <3>1. CASE IsReturn(image, a, fun.size)
      <4>1. k = [k |-> "return", to |-> <<>>]
        BY <2>1, <2>2, <3>1
      <4> QED BY <2>3, <3>1, <4>1, TupleElements
    <3>2. CASE IsCallPair(image, a)
      <4>1. k = [k |-> "call", to |-> <<a + 2>>] /\ ~IsReturn(image, a, fun.size)
        BY <2>1, <2>2, <2>3, <3>2
      <4> QED BY <2>3, <3>2, <4>1, TupleElements
    <3>3. CASE image[a].k = "goto"
      <4>1. k = [k |-> "goto", to |-> <<image[a].n>>] /\ ~IsReturn(image, a, fun.size)
        BY <2>1, <2>2, <2>3, <3>3
      <4> QED BY <2>3, <3>3, <4>1, TupleElements
    <3>4. CASE image[a].k = "if"
      <4>1. k = [k |-> "if", to |-> <<image[a].n, a + 1>>] /\ ~IsReturn(image, a, fun.size)
        BY <2>1, <2>2, <2>3, <3>4
      <4> QED BY <2>3, <3>4, <4>1, TupleElements
    <3>5. CASE image[a].k = "halt"
      <4>1. k = [k |-> "halt", to |-> <<>>] /\ ~IsReturn(image, a, fun.size)
        BY <2>1, <2>2, <2>3, <3>5
      <4> QED BY <2>3, <3>5, <4>1, TupleElements
    <3>6. CASE Falls(a)
      <4>1. blocks[b].end = a + 1
        BY <1>1, <1>9, <3>6 DEF End
      <4>2. a + 1 \in DOMAIN blocks
        BY <1>8, <2>3, <3>6
      <4>3. k = [k |-> "follows", to |-> <<a + 1>>]
        BY <2>1, <2>2, <3>6, <4>1, <4>2
      <4>4. ~IsReturn(image, a, fun.size)
        BY <3>6 DEF Falls, PairIn, IsPair
      <4> QED BY <2>3, <3>6, <4>3, <4>4, TupleElements
    <3> QED BY <2>3, <3>1, <3>2, <3>3, <3>4, <3>5, <3>6 DEF PairIn, IsPair
  <2> QED BY <1>1, <1>8, <1>12, <2>4 DEF k, s
<1> QED BY <1>11, <1>12
-----------------------------------------------------------------------------
(* The invariant of the builder.                                           *)

HeadsBefore(m) == {List[p] : p \in {i \in 1 .. m - 1 : IsHead(i)}}
CutBefore(m, bl) == \A p \in 1 .. m - 1 : IsHead(p) => \E q \in 1 .. m - 1 : IsCut(p, q, bl)

\* While a function is cut: what stands before `next` is in blocks.
Cutting ==
  /\ fun \in functions /\ next \in Nat \ {0} /\ linked = 0 /\ preds = {}
  /\ next = 1 => start = fun.start
  /\ next # 1 => next <= Len(List) /\ IsHead(next) /\ start = End(List[next - 1])
  /\ Range(ids) = HeadsBefore(next)
  /\ CutBefore(next, blocks)

\* A block that the second loop has done.
GoesRight(b, bl) ==
  \A p \in 1 .. Len(List) : \A q \in 1 .. Len(List) : List[p] = b /\ IsCut(p, q, bl) =>
    /\ Range(bl[b].to) = Goes(List[LastIn(p, q)])
    /\ bl[b].kind = "return" <=> IsReturn(image, List[LastIn(p, q)], fun.size)

\* While its blocks are linked: all of it is in blocks, and those that are done
\* go on where their last instructions do.
Linking ==
  /\ fun \in functions
  /\ Range(ids) = HeadsBefore(Len(List) + 1)
  /\ CutBefore(Len(List) + 1, blocks)
  /\ \A i \in 1 .. linked : GoesRight(ids[i], blocks)
  /\ {<<e[1], e[3]>> : e \in preds} = UNION {{<<t, ids[i]>> : t \in Range(blocks[ids[i]].to)} : i \in 1 .. linked}

Shaped(bl) ==
  \A b \in DOMAIN bl :
    /\ b \in Nat
    /\ bl[b] = [instrs |-> bl[b].instrs, end |-> bl[b].end, kind |-> bl[b].kind, to |-> bl[b].to]

BuildTyped ==
  /\ build \in {"scan", "next", "cut", "link", "done"}
  /\ fun = NoFunction \/ fun \in functions
  /\ next \in Nat /\ start \in Nat /\ ids \in Seq(Nat) /\ linked \in 0 .. Len(ids)
  /\ Range(ids) \subseteq DOMAIN blocks /\ Shaped(blocks)
  /\ \A e \in preds : e[1] \in DOMAIN blocks /\ e[3] \in Range(ids)

\* The three parts of GraphsExact, of one function.
BlocksOf(im, g) ==
  /\ \A a \in Range(g.fn.instrs) :
       Cardinality({b \in DOMAIN g.blocks : a \in Range(g.blocks[b].instrs)}) = 1
  /\ \A b \in DOMAIN g.blocks :
       /\ g.blocks[b].instrs # <<>> /\ g.blocks[b].instrs[1] = b
       /\ Range(g.blocks[b].instrs) \subseteq Range(g.fn.instrs)
       /\ \A i \in 1 .. Len(g.blocks[b].instrs) - 1 :
            \/ Successors(im, g.blocks[b].instrs[i], g.fn.size) = {g.blocks[b].instrs[i + 1]}
            \/ /\ i = Len(g.blocks[b].instrs) - 1
               /\ Extent(im, g.blocks[b].instrs[i], g.fn.size)
                    = {g.blocks[b].instrs[i], g.blocks[b].instrs[i + 1]}
LastStepIn(im, L, size) ==
  IF Len(L) > 1 /\ Extent(im, L[Len(L) - 1], size) = {L[Len(L) - 1], Last(L)}
    THEN L[Len(L) - 1] ELSE Last(L)
EdgesOf(im, g) ==
  /\ \A b \in DOMAIN g.blocks :
       Range(g.blocks[b].to) = Successors(im, LastStepIn(im, g.blocks[b].instrs, g.fn.size), g.fn.size)
  /\ {<<e[1], e[3]>> : e \in g.preds}
       = UNION {{<<t, b>> : t \in Range(g.blocks[b].to)} : b \in DOMAIN g.blocks}
  /\ g.return = {b \in DOMAIN g.blocks : g.blocks[b].kind = "return"}
ReachableOf(g) ==
  \A S \in SUBSET DOMAIN g.blocks :
    (g.id \in S /\ \A b \in S : Range(g.blocks[b].to) \subseteq S) => S = DOMAIN g.blocks

Graphs == \A g \in graphs : /\ g.fn \in functions
                            /\ BlocksOf(image, g) /\ EdgesOf(image, g) /\ ReachableOf(g)

BuildInv ==
  /\ BuildTyped /\ Graphs
  /\ build = "cut" => Cutting
  /\ build = "link" => Linking

LEMMA GraphsAreExact == ScanInv /\ BuildInv => GraphsExact
<1> SUFFICES ASSUME ScanInv, BuildInv PROVE GraphsExact
  OBVIOUS
<1>1. TypeOK
  BY DEF ScanInv, BuildInv, BuildTyped, Graphs, TypeOK
<1>2. NoPanic
  BY DEF ScanInv, BuildInv, BuildTyped, NoPanic
<1>3. BlocksExact
  BY DEF BuildInv, Graphs, BlocksOf, BlocksExact
<1>4. EdgesExact
  BY DEF BuildInv, Graphs, EdgesOf, EdgesExact, LastStep, LastStepIn
<1>5. AllReachable
  BY DEF BuildInv, Graphs, ReachableOf, AllReachable
<1> QED BY <1>1, <1>2, <1>3, <1>4, <1>5 DEF GraphsExact

LEMMA FunIsSound ==
  ASSUME AllCompiled, ScanInv, fun \in functions
  PROVE  Sound
<1>1. Right(image, fun)
  BY DEF ScanInv
<1>2. CompiledFunction(image, fun.start)
  BY <1>1 DEF Right, AllCompiled, Compiled
<1> QED BY <1>1, <1>2 DEF Sound

\* What is said of a function stays while the function does.
LEMMA FunStays ==
  ASSUME UNCHANGED <<image, fun>>
  PROVE  /\ List' = List /\ Steps' = Steps /\ Boundaries' = Boundaries
         /\ \A i : IsHead(i)' <=> IsHead(i)
         /\ \A p, q : IsBlock(p, q)' <=> IsBlock(p, q)
         /\ \A p, q : Piece(p, q)' = Piece(p, q)
         /\ \A p, q : LastIn(p, q)' = LastIn(p, q)
         /\ \A a : Goes(a)' = Goes(a)
         /\ \A m : HeadsBefore(m)' = HeadsBefore(m)
<1>1. List' = List
  BY DEF List
<1>2. Steps' = Steps
  BY DEF Steps
<1>3. Boundaries' = Boundaries
  BY DEF Boundaries
<1>4. \A i : IsHead(i)' <=> IsHead(i)
  BY <1>1, <1>3 DEF IsHead
<1>5. \A p, q : IsBlock(p, q)' <=> IsBlock(p, q)
  BY <1>1, <1>4 DEF IsBlock
<1>6. \A p, q : Piece(p, q)' = Piece(p, q)
  BY <1>1 DEF Piece
<1>7. \A p, q : LastIn(p, q)' = LastIn(p, q)
  BY <1>1 DEF LastIn, PairIn
<1>8. \A a : Goes(a)' = Goes(a)
  BY DEF Goes
<1>9. \A m : HeadsBefore(m)' = HeadsBefore(m)
  BY <1>1, <1>4 DEF HeadsBefore
<1> QED BY <1>1, <1>2, <1>3, <1>4, <1>5, <1>6, <1>7, <1>8, <1>9

LEMMA CuttingStays ==
  ASSUME Cutting, UNCHANGED <<image, fun, next, start, ids, linked, blocks, preds>>,
         functions \subseteq functions'
  PROVE  Cutting'
<1>1. CutBefore(next, blocks)'
  BY FunStays DEF Cutting, CutBefore, IsCut
<1>2. Range(ids)' = HeadsBefore(next)'
  BY FunStays DEF Cutting, HeadsBefore
<1> QED BY <1>1, <1>2, FunStays DEF Cutting

LEMMA LinkingStays ==
  ASSUME Linking, UNCHANGED <<image, fun, ids, linked, blocks, preds>>,
         functions \subseteq functions'
  PROVE  Linking'
<1>1. CutBefore(Len(List) + 1, blocks)'
  BY FunStays DEF Linking, CutBefore, IsCut
<1>2. Range(ids)' = HeadsBefore(Len(List) + 1)'
  BY FunStays DEF Linking, HeadsBefore
<1>3. \A i \in 1 .. linked : GoesRight(ids[i], blocks)'
  BY FunStays DEF Linking, GoesRight, IsCut
<1> QED BY <1>1, <1>2, <1>3 DEF Linking

LEMMA TypedStays ==
  ASSUME BuildTyped, UNCHANGED <<fun, next, start, ids, linked, blocks, preds>>,
         build' \in {"scan", "next", "cut", "link", "done"},
         functions \subseteq functions'
  PROVE  BuildTyped'
BY DEF BuildTyped, Shaped

LEMMA GraphsStay ==
  ASSUME Graphs, UNCHANGED <<image, graphs>>, functions \subseteq functions'
  PROVE  Graphs'
BY DEF Graphs
-----------------------------------------------------------------------------
(* One block is cut.                                                       *)

LEMMA LeastIs ==
  ASSUME NEW S, S \subseteq Int, NEW x \in S, \A y \in S : x <= y
  PROVE  Min(S) = x
<1>1. \A z \in S : (\A y \in S : z <= y) => z = x
  BY SMT
<1> DEFINE low == CHOOSE z \in S : \A y \in S : z <= y
<1>2. low \in S /\ \A y \in S : low <= y
  OBVIOUS
<1>3. Min(S) = low
  BY DEF Min
<1> HIDE DEF low
<1> QED BY <1>1, <1>2, <1>3

LEMMA CutsAtNext ==
  ASSUME Sound, Cutting
  PROVE  next \in 1 .. Len(List) /\ IsHead(next) /\ BlockStart = List[next]
<1> DEFINE n == Len(List)
           S == {a \in Offsets \cup {fun.end} : a >= start} \cup {fun.end}
<1>1. /\ n \in Nat \ {0} /\ DOMAIN List = 1 .. n /\ List[1] = fun.start
      /\ \A i \in 1 .. n : List[i] \in Nat
      /\ \A i, j \in 1 .. n : i < j => List[i] < List[j]
      /\ fun.end = List[n] + 1
  BY ListFacts
<1>2. next \in 1 .. n /\ IsHead(next)
  BY <1>1 DEF Cutting, IsHead
<1>3. start \in Int /\ start <= List[next] /\ (\A i \in 1 .. n : i < next => List[i] < start)
  <2>1. CASE next = 1
    <3>1. start = List[1] /\ List[1] \in Nat
      BY <1>1, <1>2, <2>1 DEF Cutting
    <3> QED BY <2>1, <3>1
  <2>2. CASE next # 1
    <3>1. start = List[next - 1] + 1 /\ next - 1 \in 1 .. n /\ next - 1 < next
      BY <1>1, <1>2, <2>2 DEF Cutting, End
    <3>2. List[next - 1] \in Nat /\ List[next] \in Nat /\ List[next - 1] < List[next]
      BY <1>1, <1>2, <3>1
    <3>3. ASSUME NEW i \in 1 .. n, i < next PROVE List[i] < start
      <4>1. i = next - 1 \/ i < next - 1
        BY <1>2, <3>3
      <4>2. List[i] <= List[next - 1] /\ List[i] \in Nat
        <5>1. i = next - 1 \/ List[i] < List[next - 1]
          BY <1>1, <3>1, <4>1
        <5> QED BY <1>1, <3>2, <5>1
      <4> QED BY <3>1, <3>2, <4>2
    <3> QED BY <3>1, <3>2, <3>3
  <2> QED BY <2>1, <2>2
<1>4. fun.end \in Nat /\ List[next] < fun.end
  <2>1. n \in 1 .. n
    BY <1>1
  <2>2. List[n] \in Nat
    BY <1>1, <2>1
  <2> QED BY <1>1, <1>2, <2>2, BeforeEnd
<1>5. Offsets = {List[i] : i \in 1 .. n}
  BY <1>1 DEF Offsets, List
<1>6. List[next] \in Nat
  BY <1>1, <1>2
<1>7. S \subseteq Int /\ List[next] \in S
  BY <1>1, <1>2, <1>3, <1>4, <1>5, <1>6
<1>8. ASSUME NEW y \in S PROVE List[next] <= y
  <2>1. CASE y = fun.end
    BY <1>4, <1>6, <2>1
  <2>2. CASE y \in Offsets /\ y >= start
    <3>1. PICK i \in 1 .. n : y = List[i]
      BY <1>5, <2>2
    <3>2. ~(i < next)
      <4>1. y \in Nat
        BY <1>1, <3>1
      <4> QED BY <1>3, <2>2, <3>1, <4>1
    <3>3. i = next \/ next < i
      BY <1>2, <3>2
    <3>4. y = List[next] \/ List[next] < y
      BY <1>1, <1>2, <3>1, <3>3
    <3> QED BY <1>1, <1>6, <3>1, <3>4
  <2> QED BY <2>1, <2>2
<1>9. BlockStart = List[next]
  <2> HIDE DEF S
  <2>1. Min(S) = List[next]
    BY <1>7, <1>8, LeastIs
  <2> QED BY <2>1 DEF BlockStart, S
<1> QED BY <1>2, <1>9

LEMMA CutsBlock ==
  ASSUME Sound, Cutting
  PROVE  IsBlock(next, LastOfBlock)
<1> DEFINE n == Len(List)
           stopBefore(i) == List[i] # BlockStart /\ List[i] \in Boundaries
           Stops == {i \in next .. n : i = n \/ End(List[i]) \in Boundaries \/ stopBefore(i + 1)}
<1>1. /\ n \in Nat \ {0} /\ \A i \in 1 .. n : List[i] \in Nat
      /\ \A i, j \in 1 .. n : i < j => List[i] < List[j]
  BY ListFacts
<1>2. next \in 1 .. n /\ IsHead(next) /\ BlockStart = List[next]
  BY CutsAtNext
<1>3. LastOfBlock = Min(Stops)
  <2>1. ~stopBefore(next)
    BY <1>2
  <2>2. LastOfBlock = IF stopBefore(next) THEN next - 1 ELSE Min(Stops)
    BY DEF LastOfBlock, List
  <2> QED BY <2>1, <2>2
<1>4. ASSUME NEW i \in next .. n PROVE i \in Stops <=> i = n \/ IsHead(i + 1)
  <2>1. CASE i = n
    BY <2>1
  <2>2. CASE i # n
    <3>1. i + 1 \in 1 .. n /\ next < i + 1 /\ (i + 1) - 1 = i /\ i + 1 # 1
      BY <1>1, <1>2, <2>2
    <3>2. List[i + 1] # BlockStart
      BY <1>1, <1>2, <3>1
    <3>3. IsHead(i + 1) <=> End(List[i]) \in Boundaries \/ List[i + 1] \in Boundaries
      BY <3>1 DEF IsHead
    <3> QED BY <2>2, <3>2, <3>3
  <2> QED BY <2>1, <2>2
<1>5. Stops \subseteq Nat /\ Stops \subseteq next .. n /\ n \in Stops
  BY <1>1, <1>2
<1> HIDE DEF Stops
<1>6. PICK q \in Stops : \A x \in Stops : q <= x
  BY <1>5, LeastNumber
<1>7. LastOfBlock = q
  <2>1. Stops \subseteq Int
    BY <1>5
  <2>2. Min(Stops) = q
    BY <1>6, <2>1, LeastIs
  <2> QED BY <1>3, <2>2
<1>8. q \in next .. n /\ (q = n \/ IsHead(q + 1))
  BY <1>4, <1>5
<1>9. ASSUME NEW i \in next + 1 .. q, IsHead(i) PROVE FALSE
  <2>1. i - 1 \in next .. n /\ (i - 1) + 1 = i /\ ~(q <= i - 1)
    BY <1>1, <1>2, <1>8
  <2>2. i - 1 \in Stops
    BY <1>4, <1>9, <2>1
  <2> QED BY <1>6, <2>1, <2>2
<1> QED BY <1>2, <1>7, <1>8, <1>9 DEF IsBlock

LEMMA PieceEnds ==
  ASSUME Sound, NEW p, NEW q, IsBlock(p, q)
  PROVE  Piece(p, q) # <<>> /\ Piece(p, q)[1] = List[p] /\ Last(Piece(p, q)) = List[q]
<1>1. /\ Piece(p, q) \in Seq(Int) /\ Len(Piece(p, q)) = q - p + 1
      /\ p \in Nat \ {0} /\ q \in Nat \ {0} /\ p <= q
      /\ \A i \in 1 .. q - p + 1 : Piece(p, q)[i] = List[p + i - 1]
  BY PieceFacts
<1>2. q - p + 1 \in 1 .. q - p + 1 /\ 1 \in 1 .. q - p + 1
      /\ p + (q - p + 1) - 1 = q /\ p + 1 - 1 = p
  BY <1>1
<1>3. Piece(p, q) # <<>>
  BY <1>1, <1>2
<1>4. Last(Piece(p, q)) = Piece(p, q)[q - p + 1]
  BY <1>1 DEF Last
<1>5. Piece(p, q)[1] = List[p + 1 - 1] /\ Piece(p, q)[q - p + 1] = List[p + (q - p + 1) - 1]
  BY <1>1, <1>2
<1> QED BY <1>2, <1>3, <1>4, <1>5

\* What the step does.
LEMMA CutDoes ==
  ASSUME Sound, Cutting, CutBlock
  PROVE  \E q \in 1 .. Len(List) :
           /\ IsBlock(next, q)
           /\ blocks' = [b \in DOMAIN blocks \cup {List[next]} |->
                          IF b = List[next] THEN Block(Piece(next, q), End(List[q])) ELSE blocks[b]]
           /\ ids' = Append(ids, List[next]) /\ next' = q + 1 /\ start' = End(List[q])
           /\ build' = IF q = Len(List) THEN "link" ELSE "cut"
           /\ UNCHANGED <<image, functions, fun, linked, preds, graphs>>
<1> DEFINE n == Len(List)
           q == LastOfBlock
           end == End(List[q])
<1>1. IsBlock(next, q) /\ next \in 1 .. n /\ BlockStart = List[next]
  BY CutsAtNext, CutsBlock
<1>2. n \in Nat \ {0} /\ q \in next .. n /\ q \in 1 .. n
  <2>1. n \in Nat \ {0} /\ q \in next .. n
    BY <1>1, ListFacts DEF IsBlock
  <2> QED BY <1>1, <2>1
<1>3. SubSeq(fun.instrs, next, q) = Piece(next, q)
  BY DEF Piece, List
<1>4. Piece(next, q) # <<>> /\ Last(Piece(next, q)) = List[q]
  BY <1>1, PieceEnds
<1>5. ~ConversionPanics(image, Piece(next, q))
  BY <1>1, NoConversionPanic
<1>6. /\ blocks' = [b \in DOMAIN blocks \cup {List[next]} |->
                     IF b = List[next] THEN Block(Piece(next, q), end) ELSE blocks[b]]
      /\ ids' = Append(ids, List[next]) /\ next' = q + 1 /\ start' = end
      /\ build' = IF \/ q = n \/ Offsets \cap (end .. fun.end - 1) = {} THEN "link" ELSE "cut"
      /\ UNCHANGED <<scanVars, fun, linked, preds, graphs>>
  BY <1>1, <1>3, <1>4, <1>5 DEF CutBlock, List
<1>7. Offsets \cap (end .. fun.end - 1) = {} => q = n
  <2> SUFFICES ASSUME q # n PROVE Offsets \cap (end .. fun.end - 1) # {}
    OBVIOUS
  <2>1. q + 1 \in 1 .. n /\ q < q + 1
    BY <1>2
  <2>2. List[q] \in Nat /\ List[q + 1] \in Nat /\ List[q] < List[q + 1] /\ List[q + 1] < fun.end
    BY <1>2, <2>1, ListFacts, BeforeEnd
  <2>3. fun.end \in Int
    <3>1. n \in 1 .. n
      BY <1>2
    <3>2. List[n] \in Nat /\ fun.end = List[n] + 1
      BY <3>1, ListFacts
    <3> QED BY <3>2
  <2>4. List[q + 1] \in end .. fun.end - 1
    BY <2>2, <2>3 DEF End
  <2>5. List[q + 1] \in Offsets
    BY <2>1, ListFacts DEF Offsets, List
  <2> QED BY <2>4, <2>5
<1>8. build' = IF q = n THEN "link" ELSE "cut"
  BY <1>6, <1>7
<1>9. UNCHANGED <<image, functions, fun, linked, preds, graphs>>
  BY <1>6 DEF scanVars
<1> HIDE DEF q
<1> QED BY <1>1, <1>2, <1>6, <1>8, <1>9

LEMMA CutStep ==
  ASSUME Sound, BuildInv, CutBlock
  PROVE  BuildInv'
<1> DEFINE n == Len(List)
           h == List[next]
<1>1. Cutting /\ BuildTyped /\ Graphs
  BY DEF CutBlock, BuildInv
<1>2. PICK q \in 1 .. n :
        /\ IsBlock(next, q)
        /\ blocks' = [b \in DOMAIN blocks \cup {h} |->
                       IF b = h THEN Block(Piece(next, q), End(List[q])) ELSE blocks[b]]
        /\ ids' = Append(ids, h) /\ next' = q + 1 /\ start' = End(List[q])
        /\ build' = IF q = n THEN "link" ELSE "cut"
        /\ UNCHANGED <<image, functions, fun, linked, preds, graphs>>
  BY <1>1, CutDoes
<1>3. /\ n \in Nat \ {0} /\ next \in 1 .. n /\ q \in next .. n /\ IsHead(next)
      /\ (\A i \in next + 1 .. q : ~IsHead(i)) /\ (q = n \/ IsHead(q + 1))
      /\ h \in Nat /\ q \in Nat /\ next \in Nat
      /\ \A i, j \in 1 .. n : i < j => List[i] < List[j]
      /\ \A i \in 1 .. n : List[i] \in Nat
  <2>1. n \in Nat \ {0} /\ next \in 1 .. n /\ q \in next .. n
    BY <1>2, ListFacts DEF IsBlock
  <2>2. IsHead(next) /\ (\A i \in next + 1 .. q : ~IsHead(i)) /\ (q = n \/ IsHead(q + 1))
    BY <1>2 DEF IsBlock
  <2>3. /\ \A i, j \in 1 .. n : i < j => List[i] < List[j]
        /\ \A i \in 1 .. n : List[i] \in Nat
    BY ListFacts
  <2>4. q \in Nat /\ next \in Nat /\ h \in Nat
    BY <2>1, <2>3
  <2> QED BY <2>1, <2>2, <2>3, <2>4
<1>4. DOMAIN blocks' = DOMAIN blocks \cup {h} /\ h \in DOMAIN blocks'
      /\ blocks'[h] = Block(Piece(next, q), End(List[q]))
      /\ \A b \in DOMAIN blocks : b # h => blocks'[b] = blocks[b]
  BY <1>2
<1>5. ids' \in Seq(Nat) /\ Range(ids') = Range(ids) \cup {h}
  BY <1>1, <1>2, <1>3, AppendElements DEF BuildTyped
<1>6. HeadsBefore(q + 1) = HeadsBefore(next) \cup {h}
  <2>1. ASSUME NEW i \in 1 .. (q + 1) - 1, IsHead(i) PROVE List[i] \in HeadsBefore(next) \cup {h}
    <3>1. i \notin next + 1 .. q
      BY <1>3, <2>1
    <3>2. i \in 1 .. next - 1 \/ i = next
      BY <1>3, <3>1
    <3> QED BY <2>1, <3>2 DEF HeadsBefore
  <2>2. ASSUME NEW i \in 1 .. next - 1, IsHead(i) PROVE List[i] \in HeadsBefore(q + 1)
    <3>1. i \in 1 .. (q + 1) - 1
      BY <1>3
    <3> QED BY <2>2, <3>1 DEF HeadsBefore
  <2>3. h \in HeadsBefore(q + 1)
    <3>1. next \in 1 .. (q + 1) - 1
      BY <1>3
    <3> QED BY <1>3, <3>1 DEF HeadsBefore
  <2> QED BY <2>1, <2>2, <2>3 DEF HeadsBefore
<1>7. Range(ids') = HeadsBefore(q + 1)
  BY <1>1, <1>5, <1>6 DEF Cutting
<1>8. CutBefore(q + 1, blocks')
  <2> SUFFICES ASSUME NEW p \in 1 .. (q + 1) - 1, IsHead(p)
               PROVE  \E r \in 1 .. (q + 1) - 1 : IsCut(p, r, blocks')
    BY DEF CutBefore
  <2>1. CASE p < next
    <3>1. p \in 1 .. next - 1 /\ p \in 1 .. n
      BY <1>3, <2>1
    <3>2. PICK r \in 1 .. next - 1 : IsCut(p, r, blocks)
      BY <1>1, <3>1 DEF Cutting, CutBefore
    <3>3. List[p] # h
      BY <1>3, <2>1, <3>1
    <3>4. IsCut(p, r, blocks')
      BY <1>4, <3>2, <3>3 DEF IsCut
    <3>5. r \in 1 .. (q + 1) - 1
      BY <1>3
    <3> QED BY <3>4, <3>5
  <2>2. CASE ~(p < next)
    <3>1. p \notin next + 1 .. q
      BY <1>3
    <3>2. p = next
      BY <1>3, <2>2, <3>1
    <3>3. IsCut(next, q, blocks')
      BY <1>2, <1>4 DEF IsCut, Block
    <3>4. q \in 1 .. (q + 1) - 1
      BY <1>3
    <3> QED BY <3>2, <3>3, <3>4
  <2> QED BY <2>1, <2>2
<1>9. BuildTyped'
  <2>1. Shaped(blocks')
    <3>1. blocks'[h] = [instrs |-> Piece(next, q), end |-> End(List[q]), kind |-> "unknown", to |-> <<>>]
      BY <1>4 DEF Block
    <3> HIDE DEF h
    <3> QED BY <1>1, <1>3, <1>4, <3>1 DEF Shaped, BuildTyped
  <2>2. Range(ids') \subseteq DOMAIN blocks'
    BY <1>1, <1>4, <1>5 DEF BuildTyped
  <2>3. linked' \in 0 .. Len(ids')
    <3>1. Len(ids') = Len(ids) + 1 /\ Len(ids) \in Nat /\ linked' = linked
      BY <1>1, <1>2 DEF BuildTyped
    <3> QED BY <1>1, <3>1 DEF BuildTyped
  <2>4. \A e \in preds' : e[1] \in DOMAIN blocks' /\ e[3] \in Range(ids')
    BY <1>1, <1>2, <1>4, <1>5 DEF BuildTyped
  <2>5. next' \in Nat /\ start' \in Nat /\ build' \in {"scan", "next", "cut", "link", "done"}
    BY <1>2, <1>3 DEF End
  <2>6. fun' = NoFunction \/ fun' \in functions'
    BY <1>1, <1>2 DEF BuildTyped, NoFunction
  <2>7. Shaped(blocks)'
    BY <2>1 DEF Shaped
  <2> QED BY <1>5, <2>2, <2>3, <2>4, <2>5, <2>6, <2>7 DEF BuildTyped
<1>10. Graphs'
  BY <1>1, <1>2, GraphsStay
<1>11. UNCHANGED <<image, fun>>
  BY <1>2
<1>12. \A p, r : IsCut(p, r, blocks)' <=> IsCut(p, r, blocks')
  BY <1>11, FunStays DEF IsCut
<1>13. build' = "cut" => Cutting'
  <2> SUFFICES ASSUME q # n PROVE Cutting'
    BY <1>2
  <2>1. next' = q + 1 /\ q + 1 <= n /\ IsHead(q + 1) /\ q + 1 # 1 /\ (q + 1) - 1 = q
    BY <1>2, <1>3
  <2>2. IsHead(next)' /\ start' = End(List[next - 1])'
    BY <1>2, <1>11, <2>1, FunStays DEF IsHead
  <2>3. CutBefore(next, blocks)'
    BY <1>2, <1>8, <1>11, <1>12, FunStays DEF CutBefore
  <2>4. Range(ids)' = HeadsBefore(next)'
    BY <1>2, <1>7, <1>11, FunStays DEF HeadsBefore
  <2>5. Len(List)' = n /\ fun' \in functions' /\ linked' = 0 /\ preds' = {}
    BY <1>1, <1>2, <1>11, FunStays DEF Cutting
  <2>6. next' \in Nat \ {0} /\ next' # 1 /\ next' <= Len(List)'
    BY <1>3, <2>1, <2>5
  <2> QED BY <2>2, <2>3, <2>4, <2>5, <2>6 DEF Cutting
<1>14. build' = "link" => Linking'
  <2> SUFFICES ASSUME q = n PROVE Linking'
    BY <1>2
  <2>1. CutBefore(Len(List) + 1, blocks)'
    BY <1>8, <1>11, <1>12, FunStays DEF CutBefore
  <2>2. Range(ids)' = HeadsBefore(Len(List) + 1)'
    BY <1>7, <1>11, FunStays DEF HeadsBefore
  <2>3. fun' \in functions' /\ linked' = 0 /\ preds' = {}
    BY <1>1, <1>2 DEF Cutting
  <2>4. 1 .. linked' = {}
    BY <2>3
  <2> QED BY <2>1, <2>2, <2>3, <2>4 DEF Linking
<1> QED BY <1>9, <1>10, <1>13, <1>14 DEF BuildInv
-----------------------------------------------------------------------------
(* One block is linked.                                                    *)

LEMMA LinkedBlock ==
  ASSUME NEW bl, NEW b \in DOMAIN bl, NEW k, NEW to, NEW new,
         new = [bl EXCEPT ![b].kind = k, ![b].to = to],
         bl[b] = [instrs |-> bl[b].instrs, end |-> bl[b].end, kind |-> bl[b].kind, to |-> bl[b].to]
  PROVE  /\ DOMAIN new = DOMAIN bl
         /\ new[b] = [instrs |-> bl[b].instrs, end |-> bl[b].end, kind |-> k, to |-> to]
         /\ \A c \in DOMAIN bl : c # b => new[c] = bl[c]
<1>1. PICK B : B = bl[b]
  OBVIOUS
<1>2. PICK i, e, kd, t : B = [instrs |-> i, end |-> e, kind |-> kd, to |-> t]
  BY <1>1
<1>3. DOMAIN new = DOMAIN bl /\ \A c \in DOMAIN bl : c # b => new[c] = bl[c]
  OBVIOUS
<1>4. new[b] = [[B EXCEPT !.kind = k] EXCEPT !.to = to]
  BY <1>1
<1>5. [[B EXCEPT !.kind = k] EXCEPT !.to = to] = [instrs |-> i, end |-> e, kind |-> k, to |-> to]
  <2>1. [B EXCEPT !.kind = k] = [instrs |-> i, end |-> e, kind |-> k, to |-> t]
    BY <1>2
  <2> DEFINE C == [instrs |-> i, end |-> e, kind |-> k, to |-> t]
  <2>2. [C EXCEPT !.to = to] = [instrs |-> i, end |-> e, kind |-> k, to |-> to]
    OBVIOUS
  <2> QED BY <2>1, <2>2
<1>6. bl[b].instrs = i /\ bl[b].end = e
  BY <1>1, <1>2
<1> QED BY <1>3, <1>4, <1>5, <1>6

\* In the second loop every block has its piece.
LEMMA LinkingHas ==
  ASSUME Sound, BuildTyped, Linking
  PROVE  /\ HeadsIn(blocks)
         /\ \A b \in Range(ids) : \E p \in 1 .. Len(List) : \E q \in 1 .. Len(List) :
              List[p] = b /\ IsHead(p) /\ IsCut(p, q, blocks)
<1>1. Len(List) \in Nat /\ (Len(List) + 1) - 1 = Len(List)
  <2>1. Len(List) \in Nat
    BY ListFacts
  <2> QED BY <2>1
<1>2. \A p \in 1 .. Len(List) : IsHead(p) => \E q \in 1 .. Len(List) : IsCut(p, q, blocks)
  BY <1>1 DEF Linking, CutBefore
<1>3. Range(ids) = {List[p] : p \in {i \in 1 .. Len(List) : IsHead(i)}}
  BY <1>1 DEF Linking, HeadsBefore
<1>4. HeadsIn(blocks)
  BY <1>2 DEF HeadsIn, IsCut
<1> QED BY <1>2, <1>3, <1>4

LEMMA LinkDoes ==
  ASSUME Sound, BuildTyped, Linking, LinkBlock, NEW b, b = ids[linked + 1], NEW k, k = NextKind(b)
  PROVE  /\ b \in Range(ids) /\ b \in DOMAIN blocks
         /\ \A t \in Range(k.to) : t \in DOMAIN blocks
         /\ preds' = preds \cup {<<k.to[n], EntryKind(k.k, n), b>> : n \in DOMAIN k.to}
         /\ blocks' = [blocks EXCEPT ![b].kind = k.k, ![b].to = k.to]
         /\ linked' = linked + 1 /\ linked + 1 \in 0 .. Len(ids) /\ linked \in Nat
         /\ UNCHANGED <<image, functions, fun, next, start, ids, graphs, build>>
<1>1. linked + 1 \in DOMAIN ids /\ linked + 1 \in 0 .. Len(ids) /\ linked \in Nat
  <2>1. ids \in Seq(Nat) /\ linked \in 0 .. Len(ids) /\ linked < Len(ids)
    BY DEF BuildTyped, LinkBlock
  <2> QED BY <2>1
<1>2. b \in Range(ids) /\ b \in DOMAIN blocks
  BY <1>1 DEF Range, BuildTyped
<1>3. PICK p \in 1 .. Len(List) : \E q \in 1 .. Len(List) : List[p] = b /\ IsCut(p, q, blocks)
  BY <1>2, LinkingHas
<1>4. PICK q \in 1 .. Len(List) : List[p] = b /\ IsCut(p, q, blocks)
  BY <1>3
<1>5. /\ Kept(image, blocks[b].instrs) = {} => b = fun.start
      /\ \A t \in Range(k.to) : t \in DOMAIN blocks
  BY <1>4, LinkingHas, GoesOn
<1>6. \A n \in DOMAIN k.to : k.to[n] \in DOMAIN blocks
  BY <1>5 DEF Range
<1>7. /\ preds' = preds \cup {<<k.to[n], EntryKind(k.k, n), b>> : n \in DOMAIN k.to}
      /\ blocks' = [blocks EXCEPT ![b].kind = k.k, ![b].to = k.to]
      /\ linked' = linked + 1 /\ build' = build
  BY <1>5, <1>6 DEF LinkBlock
<1>8. UNCHANGED <<image, functions, fun, next, start, ids, graphs>>
  BY DEF LinkBlock, scanVars
<1> QED BY <1>1, <1>2, <1>5, <1>7, <1>8

LEMMA LinkStep ==
  ASSUME Sound, BuildInv, LinkBlock
  PROVE  BuildInv'
<1> DEFINE n == Len(List)
<1>1. Linking /\ BuildTyped /\ Graphs /\ build = "link"
  BY DEF LinkBlock, BuildInv
<1>2. PICK b : b = ids[linked + 1]
  OBVIOUS
<1>3. PICK k : k = NextKind(b)
  OBVIOUS
<1>4. /\ b \in Range(ids) /\ b \in DOMAIN blocks
      /\ \A t \in Range(k.to) : t \in DOMAIN blocks
      /\ preds' = preds \cup {<<k.to[m], EntryKind(k.k, m), b>> : m \in DOMAIN k.to}
      /\ blocks' = [blocks EXCEPT ![b].kind = k.k, ![b].to = k.to]
      /\ linked' = linked + 1 /\ linked + 1 \in 0 .. Len(ids) /\ linked \in Nat
      /\ UNCHANGED <<image, functions, fun, next, start, ids, graphs, build>>
  BY <1>1, <1>2, <1>3, LinkDoes
<1>5. /\ DOMAIN blocks' = DOMAIN blocks
      /\ blocks'[b] = [instrs |-> blocks[b].instrs, end |-> blocks[b].end, kind |-> k.k, to |-> k.to]
      /\ \A c \in DOMAIN blocks : c # b => blocks'[c] = blocks[c]
  <2>1. blocks[b] = [instrs |-> blocks[b].instrs, end |-> blocks[b].end,
                     kind |-> blocks[b].kind, to |-> blocks[b].to]
    BY <1>1, <1>4 DEF BuildTyped, Shaped
  <2> QED BY <1>4, <2>1, LinkedBlock
<1>6. \A c \in DOMAIN blocks : blocks'[c].instrs = blocks[c].instrs /\ blocks'[c].end = blocks[c].end
  BY <1>5
<1>7. \A p, q : IsCut(p, q, blocks') <=> IsCut(p, q, blocks)
  BY <1>5, <1>6 DEF IsCut
<1>8. UNCHANGED <<image, fun>>
  BY <1>4
<1>9. \A p, q : IsCut(p, q, blocks)' <=> IsCut(p, q, blocks')
  BY <1>8, FunStays DEF IsCut
<1>10. HeadsIn(blocks)
  BY <1>1, LinkingHas
<1>11. ASSUME NEW p \in 1 .. n, NEW q \in 1 .. n, List[p] = b, IsCut(p, q, blocks)
       PROVE  /\ Range(k.to) = Goes(List[LastIn(p, q)])
              /\ k.k = "return" <=> IsReturn(image, List[LastIn(p, q)], fun.size)
  BY <1>3, <1>10, <1>11, GoesOn
<1>12. GoesRight(b, blocks')
  BY <1>5, <1>7, <1>11 DEF GoesRight
<1>13. ASSUME NEW i \in 1 .. linked PROVE ids[i] \in DOMAIN blocks /\ ids[i] \in Range(ids)
  <2>1. i \in DOMAIN ids
    <3>1. ids \in Seq(Nat) /\ linked \in 0 .. Len(ids)
      BY <1>1 DEF BuildTyped
    <3> QED BY <3>1
  <2> QED BY <1>1, <2>1 DEF Range, BuildTyped
<1>14. \A i \in 1 .. linked + 1 : GoesRight(ids[i], blocks')
  <2> SUFFICES ASSUME NEW i \in 1 .. linked + 1 PROVE GoesRight(ids[i], blocks')
    OBVIOUS
  <2>1. CASE ids[i] = b
    BY <1>12, <2>1
  <2>2. CASE ids[i] # b
    <3>1. i \in 1 .. linked
      <4>1. i # linked + 1
        BY <1>2, <2>2
      <4> QED BY <1>4, <4>1
    <3>2. GoesRight(ids[i], blocks) /\ blocks'[ids[i]] = blocks[ids[i]]
      BY <1>1, <1>5, <1>13, <2>2, <3>1 DEF Linking
    <3> QED BY <1>7, <3>2 DEF GoesRight
  <2> QED BY <2>1, <2>2
<1>15. \A i \in 1 .. linked : Range(blocks'[ids[i]].to) = Range(blocks[ids[i]].to)
  <2> SUFFICES ASSUME NEW i \in 1 .. linked PROVE Range(blocks'[ids[i]].to) = Range(blocks[ids[i]].to)
    OBVIOUS
  <2>1. CASE ids[i] = b
    <3>1. PICK p \in 1 .. n : \E q \in 1 .. n : List[p] = b /\ IsHead(p) /\ IsCut(p, q, blocks)
      BY <1>1, <1>4, LinkingHas
    <3>2. PICK q \in 1 .. n : List[p] = b /\ IsCut(p, q, blocks)
      BY <3>1
    <3>3. Range(k.to) = Goes(List[LastIn(p, q)])
      BY <1>11, <3>2
    <3>4. GoesRight(b, blocks)
      BY <1>1, <2>1 DEF Linking
    <3>5. Range(blocks[b].to) = Goes(List[LastIn(p, q)])
      BY <3>2, <3>4 DEF GoesRight
    <3> QED BY <1>5, <2>1, <3>3, <3>5
  <2>2. CASE ids[i] # b
    BY <1>5, <1>13, <2>2
  <2> QED BY <2>1, <2>2
<1>16. {<<e[1], e[3]>> : e \in preds'}
         = UNION {{<<t, ids'[i]>> : t \in Range(blocks'[ids'[i]].to)} : i \in 1 .. linked'}
  <2> DEFINE Old == {<<e[1], e[3]>> : e \in preds}
             New == {<<t, b>> : t \in Range(k.to)}
             Of(i) == {<<t, ids'[i]>> : t \in Range(blocks'[ids'[i]].to)}
  <2>0. ids' = ids /\ linked' = linked + 1
    BY <1>4
  <2>1. {<<e[1], e[3]>> : e \in preds'} = Old \cup New
    <3>1. {<<e[1], e[3]>> : e \in {<<k.to[m], EntryKind(k.k, m), b>> : m \in DOMAIN k.to}} = New
      <4> DEFINE T(m) == <<k.to[m], EntryKind(k.k, m), b>>
      <4>1. \A m \in DOMAIN k.to : <<T(m)[1], T(m)[3]>> = <<k.to[m], b>>
        OBVIOUS
      <4>2. Range(k.to) = {k.to[m] : m \in DOMAIN k.to}
        BY DEF Range
      <4>3. New = {<<k.to[m], b>> : m \in DOMAIN k.to}
        BY <4>2
      <4>4. \A x : x \in {<<e[1], e[3]>> : e \in {T(m) : m \in DOMAIN k.to}}
                     <=> \E m \in DOMAIN k.to : x = <<T(m)[1], T(m)[3]>>
        <5> HIDE DEF T
        <5> QED OBVIOUS
      <4> HIDE DEF New
      <4>5. \A x : x \in {<<e[1], e[3]>> : e \in {T(m) : m \in DOMAIN k.to}} <=> x \in New
        <5> HIDE DEF T
        <5> QED BY <4>1, <4>3, <4>4
      <4> QED BY <4>5
    <3> QED BY <1>4, <3>1
  <2>2. Old = UNION {Of(i) : i \in 1 .. linked}
    <3>1. Old = UNION {{<<t, ids[i]>> : t \in Range(blocks[ids[i]].to)} : i \in 1 .. linked}
      BY <1>1 DEF Linking
    <3>2. \A i \in 1 .. linked : Of(i) = {<<t, ids[i]>> : t \in Range(blocks[ids[i]].to)}
      BY <1>15, <2>0
    <3> HIDE DEF Old, Of
    <3> QED BY <3>1, <3>2
  <2>3. New = Of(linked + 1)
    BY <1>2, <1>5, <2>0
  <2>4. 1 .. linked + 1 = (1 .. linked) \cup {linked + 1}
    BY <1>4
  <2> HIDE DEF Old, New, Of
  <2>5. Old \cup New = UNION {Of(i) : i \in 1 .. linked'}
    BY <2>0, <2>2, <2>3, <2>4
  <2> QED BY <2>1, <2>5 DEF Of
<1>17. Linking'
  <2>1. CutBefore(Len(List) + 1, blocks)'
    BY <1>1, <1>7, <1>8, <1>9, FunStays DEF CutBefore, Linking
  <2>2. Range(ids)' = HeadsBefore(Len(List) + 1)'
    BY <1>1, <1>4, <1>8, FunStays DEF HeadsBefore, Linking
  <2>3. \A i \in 1 .. linked' : GoesRight(ids[i], blocks)'
    <3>1. \A i \in 1 .. linked' : GoesRight(ids[i], blocks')
      BY <1>4, <1>14
    <3>2. \A c : GoesRight(c, blocks') => GoesRight(c, blocks)'
      BY <1>8, <1>9, FunStays DEF GoesRight
    <3>3. ids' = ids
      BY <1>4
    <3>4. ASSUME NEW i \in 1 .. linked', NEW c, c = ids[i] PROVE GoesRight(c, blocks)'
      BY <3>1, <3>2, <3>4
    <3> QED BY <3>3, <3>4 DEF GoesRight
  <2>4. fun' \in functions'
    BY <1>1, <1>4 DEF Linking
  <2>5. {<<e[1], e[3]>> : e \in preds'}
          = UNION {{<<t, ids'[i]>> : t \in Range(blocks'[ids'[i]].to)} : i \in 1 .. linked'}
    BY <1>16
  <2> QED BY <2>1, <2>2, <2>3, <2>4, <2>5 DEF Linking
<1>18. BuildTyped'
  <2>1. Shaped(blocks)'
    BY <1>1, <1>4, <1>5 DEF Shaped, BuildTyped
  <2>2. Range(ids') \subseteq DOMAIN blocks'
    BY <1>1, <1>4, <1>5 DEF BuildTyped
  <2>3. \A e \in preds' : e[1] \in DOMAIN blocks' /\ e[3] \in Range(ids')
    <3>1. \A m \in DOMAIN k.to : k.to[m] \in DOMAIN blocks
      BY <1>4 DEF Range
    <3> QED BY <1>1, <1>4, <1>5, <3>1 DEF BuildTyped
  <2>4. /\ next' \in Nat /\ start' \in Nat /\ build' \in {"scan", "next", "cut", "link", "done"}
        /\ ids' \in Seq(Nat) /\ linked' \in 0 .. Len(ids')
        /\ fun' = NoFunction \/ fun' \in functions'
    BY <1>1, <1>4 DEF BuildTyped, NoFunction
  <2> QED BY <2>1, <2>2, <2>3, <2>4 DEF BuildTyped
<1>19. Graphs'
  BY <1>1, <1>4, GraphsStay
<1>20. build' = "link"
  BY <1>1, <1>4
<1> QED BY <1>17, <1>18, <1>19, <1>20 DEF BuildInv
-----------------------------------------------------------------------------
(* The graph of a function.                                                *)

LEMMA PieceElements ==
  ASSUME Sound, NEW p, NEW q, IsBlock(p, q)
  PROVE  \A x : x \in Range(Piece(p, q)) <=> \E i \in p .. q : List[i] = x
BY PieceFacts

LEMMA OneBlock ==
  ASSUME Sound, NEW p, NEW q, NEW i, IsBlock(p, q), i \in p .. q,
         NEW r, NEW s, IsBlock(r, s), i \in r .. s
  PROVE  p = r
<1>1. /\ p \in Int /\ q \in Int /\ r \in Int /\ s \in Int /\ i \in Int
      /\ IsHead(p) /\ IsHead(r)
      /\ (\A j \in p + 1 .. q : ~IsHead(j)) /\ (\A j \in r + 1 .. s : ~IsHead(j))
  <2>1. Len(List) \in Nat /\ p \in 1 .. Len(List) /\ q \in p .. Len(List)
        /\ r \in 1 .. Len(List) /\ s \in r .. Len(List)
    BY ListFacts DEF IsBlock
  <2>2. p \in Int /\ q \in Int /\ r \in Int /\ s \in Int /\ i \in Int
    BY <2>1
  <2> QED BY <2>2 DEF IsBlock
<1>2. ~(p < r)
  <2> SUFFICES ASSUME p < r PROVE FALSE
    OBVIOUS
  <2>1. r \in p + 1 .. q
    BY <1>1
  <2> QED BY <1>1, <2>1
<1>3. ~(r < p)
  <2> SUFFICES ASSUME r < p PROVE FALSE
    OBVIOUS
  <2>1. p \in r + 1 .. s
    BY <1>1
  <2> QED BY <1>1, <2>1
<1> QED BY <1>1, <1>2, <1>3

LEMMA SomeBlock ==
  ASSUME Sound, BuildTyped, Linking, NEW i \in 1 .. Len(List)
  PROVE  \E p \in 1 .. Len(List) : \E q \in 1 .. Len(List) :
           IsCut(p, q, blocks) /\ i \in p .. q /\ List[p] \in Range(ids)
<1> DEFINE n == Len(List)
           Back == {i - p : p \in {j \in 1 .. n : j <= i /\ IsHead(j)}}
<1>1. n \in Nat \ {0} /\ i \in Nat /\ (n + 1) - 1 = n
  <2>1. n \in Nat \ {0}
    BY ListFacts
  <2> QED BY <2>1
<1>2. 1 \in 1 .. n /\ 1 <= i /\ IsHead(1)
  BY <1>1 DEF IsHead
<1>3. Back \subseteq Nat /\ Back # {}
  BY <1>1, <1>2
<1>4. PICK d \in Back : \A x \in Back : d <= x
  BY <1>3, LeastNumber
<1>5. PICK p \in 1 .. n : d = i - p /\ p <= i /\ IsHead(p)
  BY <1>4
<1>6. PICK q \in 1 .. n : IsCut(p, q, blocks)
  BY <1>1, <1>5 DEF Linking, CutBefore
<1>7. q \in p .. n /\ (q = n \/ IsHead(q + 1))
  BY <1>6 DEF IsCut, IsBlock
<1>8. p \in Nat /\ q \in Nat /\ p <= q /\ q <= n /\ i <= n
  <2>1. q \in p .. n /\ p \in 1 .. n /\ i \in 1 .. n /\ n \in Nat
    BY <1>1, <1>7
  <2> HIDE DEF n
  <2> QED BY <2>1
<1>9. i <= q
  <2> SUFFICES ASSUME q < i PROVE FALSE
    BY <1>1, <1>8
  <2>1. q + 1 \in 1 .. n /\ q + 1 <= i /\ IsHead(q + 1)
    <3>1. n \in Nat /\ i \in Nat /\ (q = n \/ IsHead(q + 1))
      BY <1>1, <1>7
    <3>2. q + 1 <= i /\ q + 1 \in 1 .. n /\ q # n
      <4> HIDE DEF n
      <4> QED BY <1>8, <3>1
    <3> QED BY <3>1, <3>2
  <2>2. i - (q + 1) \in Back
    BY <2>1
  <2>3. i - p <= i - (q + 1)
    BY <1>4, <1>5, <2>2
  <2> QED BY <1>1, <1>8, <2>3
<1>10. i \in p .. q
  BY <1>1, <1>5, <1>8, <1>9
<1>11. List[p] \in Range(ids)
  BY <1>1, <1>5 DEF Linking, HeadsBefore
<1> QED BY <1>6, <1>10, <1>11

\* The block of an identifier.
LEMMA BlockOfId ==
  ASSUME Sound, BuildTyped, Linking, NEW b \in Range(ids)
  PROVE  \E p \in 1 .. Len(List) : \E q \in 1 .. Len(List) :
           /\ List[p] = b /\ IsCut(p, q, blocks) /\ IsBlock(p, q)
           /\ blocks[b].instrs = Piece(p, q)
           /\ \A x : x \in Range(blocks[b].instrs) <=> \E i \in p .. q : List[i] = x
<1>1. PICK p \in 1 .. Len(List) : \E q \in 1 .. Len(List) : List[p] = b /\ IsCut(p, q, blocks)
  BY LinkingHas
<1>2. PICK q \in 1 .. Len(List) : List[p] = b /\ IsCut(p, q, blocks)
  BY <1>1
<1>3. IsBlock(p, q) /\ blocks[b].instrs = Piece(p, q)
  BY <1>2 DEF IsCut
<1>4. \A x : x \in Range(blocks[b].instrs) <=> \E i \in p .. q : List[i] = x
  <2>1. \A x : x \in Range(Piece(p, q)) <=> \E i \in p .. q : List[i] = x
    BY <1>3, PieceFacts
  <2> QED BY <1>3, <2>1
<1> QED BY <1>2, <1>3, <1>4

\* The graph that FinishFunction makes.
IsGraph(g) ==
  /\ g.id = fun.start /\ g.fn = fun /\ g.preds = preds
  /\ g.return = {r.start : r \in fun.returns}
  /\ DOMAIN g.blocks = Range(ids)
  /\ \A b \in Range(ids) : g.blocks[b] = blocks[b]

\* Each instruction is in the one block that SomeBlock names.
LEMMA OneBlockOf ==
  ASSUME Sound, BuildTyped, Linking, NEW a \in Range(List)
  PROVE  \E b \in Range(ids) : {c \in Range(ids) : a \in Range(blocks[c].instrs)} = {b}
<1>1. /\ DOMAIN List = 1 .. Len(List)
      /\ \A i, j \in 1 .. Len(List) : i < j => List[i] < List[j]
      /\ \A i \in 1 .. Len(List) : List[i] \in Nat
  BY ListFacts
<1>2. PICK i \in 1 .. Len(List) : a = List[i]
  BY <1>1 DEF Range
<1>3. \A j \in 1 .. Len(List) : List[j] = a => j = i
  <2> SUFFICES ASSUME NEW j \in 1 .. Len(List), List[j] = List[i] PROVE j = i
    BY <1>2
  <2>1. ~(i < j) /\ ~(j < i)
    BY <1>1
  <2> QED BY <2>1
<1>4. PICK p \in 1 .. Len(List) : \E q \in 1 .. Len(List) :
        IsCut(p, q, blocks) /\ i \in p .. q /\ List[p] \in Range(ids)
  BY SomeBlock
<1>5. PICK q \in 1 .. Len(List) : IsCut(p, q, blocks) /\ i \in p .. q /\ List[p] \in Range(ids)
  BY <1>4
<1>6. a \in Range(blocks[List[p]].instrs)
  <2>1. IsBlock(p, q) /\ blocks[List[p]].instrs = Piece(p, q)
    BY <1>5 DEF IsCut
  <2> QED BY <1>2, <1>5, <2>1, PieceFacts
<1>7. ASSUME NEW c \in Range(ids), a \in Range(blocks[c].instrs) PROVE c = List[p]
  <2>1. PICK r \in 1 .. Len(List) : \E s \in 1 .. Len(List) :
          /\ List[r] = c /\ IsCut(r, s, blocks) /\ IsBlock(r, s)
          /\ blocks[c].instrs = Piece(r, s)
          /\ \A x : x \in Range(blocks[c].instrs) <=> \E j \in r .. s : List[j] = x
    BY BlockOfId
  <2>2. PICK s \in 1 .. Len(List) :
          /\ List[r] = c /\ IsBlock(r, s)
          /\ \A x : x \in Range(blocks[c].instrs) <=> \E j \in r .. s : List[j] = x
    BY <2>1
  <2>3. PICK j \in r .. s : List[j] = a
    BY <1>7, <2>2
  <2>4. j \in 1 .. Len(List)
    BY <2>2
  <2>5. i \in r .. s
    BY <1>3, <2>3, <2>4
  <2>6. p = r
    BY <1>5, <2>2, <2>5, OneBlock DEF IsCut
  <2> QED BY <2>2, <2>6
<1> QED BY <1>5, <1>6, <1>7

LEMMA GraphBlocks ==
  ASSUME Sound, BuildTyped, Linking, NEW g, IsGraph(g)
  PROVE  BlocksOf(image, g)
<1>1. g.fn.instrs = List /\ g.fn.size = fun.size
  BY DEF IsGraph, List
<1>2. ASSUME NEW a \in Range(List)
      PROVE  Cardinality({b \in DOMAIN g.blocks : a \in Range(g.blocks[b].instrs)}) = 1
  <2>1. PICK b \in Range(ids) : {c \in Range(ids) : a \in Range(blocks[c].instrs)} = {b}
    BY OneBlockOf
  <2>2. {c \in DOMAIN g.blocks : a \in Range(g.blocks[c].instrs)} = {b}
    BY <2>1 DEF IsGraph
  <2>3. Cardinality({b}) = 1
    BY FS_Singleton
  <2> QED BY <2>2, <2>3
<1>3. ASSUME NEW b \in Range(ids), NEW L, L = blocks[b].instrs
      PROVE  /\ L # <<>> /\ L[1] = b /\ Range(L) \subseteq Range(List)
             /\ \A i \in 1 .. Len(L) - 1 :
                  \/ Successors(image, L[i], fun.size) = {L[i + 1]}
                  \/ i = Len(L) - 1 /\ Extent(image, L[i], fun.size) = {L[i], L[i + 1]}
  <2>1. PICK p \in 1 .. Len(List) : \E q \in 1 .. Len(List) :
          List[p] = b /\ IsBlock(p, q) /\ L = Piece(p, q)
    BY <1>3, BlockOfId
  <2>2. PICK q \in 1 .. Len(List) : List[p] = b /\ IsBlock(p, q) /\ L = Piece(p, q)
    BY <2>1
  <2>3. L # <<>> /\ L[1] = b
    BY <2>2, PieceEnds
  <2>4. /\ Len(L) = q - p + 1 /\ p \in Nat \ {0} /\ q \in Nat \ {0} /\ p <= q
        /\ \A i \in 1 .. q - p + 1 :
             L[i] = List[p + i - 1] /\ p + i - 1 \in p .. q /\ p + i - 1 \in 1 .. Len(List)
        /\ \A x : x \in Range(L) <=> \E i \in p .. q : List[i] = x
    <3>1. /\ Len(Piece(p, q)) = q - p + 1 /\ p \in Nat \ {0} /\ q \in Nat \ {0} /\ p <= q
          /\ \A i \in 1 .. q - p + 1 :
               Piece(p, q)[i] = List[p + i - 1] /\ p + i - 1 \in p .. q /\ p + i - 1 \in 1 .. Len(List)
          /\ \A x : x \in Range(Piece(p, q)) <=> \E i \in p .. q : List[i] = x
      <4>1. IsBlock(p, q)
        BY <2>2
      <4>2. \A x : x \in Range(Piece(p, q)) <=> \E i \in p .. q : List[i] = x
        BY <4>1, PieceElements
      <4>3. \A i \in 1 .. q - p + 1 :
              Piece(p, q)[i] = List[p + i - 1] /\ p + i - 1 \in p .. q /\ p + i - 1 \in 1 .. Len(List)
        BY <4>1, PieceFacts
      <4>4. Len(Piece(p, q)) = q - p + 1 /\ p \in Nat \ {0} /\ q \in Nat \ {0} /\ p <= q
        BY <4>1, PieceFacts
      <4> QED BY <4>2, <4>3, <4>4
    <3> QED BY <2>2, <3>1
  <2>5. Range(L) \subseteq Range(List)
    <3>1. DOMAIN List = 1 .. Len(List) /\ Len(List) \in Nat
      BY ListFacts
    <3>2. \A i \in p .. q : i \in 1 .. Len(List)
      BY <2>4, <3>1
    <3>3. \A i \in p .. q : List[i] \in Range(List)
      BY <3>1, <3>2 DEF Range
    <3> QED BY <2>4, <3>3
  <2>6. ASSUME NEW i \in 1 .. Len(L) - 1
        PROVE  \/ Successors(image, L[i], fun.size) = {L[i + 1]}
               \/ i = Len(L) - 1 /\ Extent(image, L[i], fun.size) = {L[i], L[i + 1]}
    <3> DEFINE j == p + i - 1
    <3>1. i \in 1 .. q - p + 1 /\ i + 1 \in 1 .. q - p + 1 /\ j < q /\ p + (i + 1) - 1 = j + 1
      BY <2>4
    <3>2. L[i] = List[j] /\ j \in p .. q
      BY <2>4, <3>1
    <3>3. L[i + 1] = List[p + (i + 1) - 1]
      BY <2>4, <3>1
    <3>4. L[i + 1] = List[j + 1]
      BY <3>1, <3>3
    <3> HIDE DEF j
    <3>5. List[j] \in Steps /\ List[j + 1] = List[j] + 1 /\ (Falls(List[j]) \/ PairIn(List[j]))
      BY <2>2, <3>1, <3>2, BlockInside
    <3>6. CASE Falls(List[j])
      <4>1. Goes(List[j]) = {List[j] + 1}
        BY <3>5, <3>6, StepKinds
      <4> QED BY <3>2, <3>4, <3>5, <4>1 DEF Goes
    <3>7. CASE PairIn(List[j])
      <4>1. j = q - 1
        <5>1. /\ LastIn(p, q) \in p .. q
              /\ LastIn(p, q) # q - 1 => LastIn(p, q) = q
              /\ j < LastIn(p, q) => Falls(List[j])
          BY <2>2, <3>2, BlockLast
        <5>2. ~(j < LastIn(p, q))
          BY <3>7, <5>1 DEF Falls
        <5>3. p \in Int /\ q \in Int /\ j \in Int /\ LastIn(p, q) \in Int
          <6>1. p \in Int /\ q \in Int
            BY <2>4
          <6> QED BY <3>2, <5>1, <6>1
        <5>4. j < q
          BY <3>1
        <5> QED BY <5>1, <5>2, <5>3, <5>4
      <4>2. i = Len(L) - 1
        BY <2>4, <4>1 DEF j
      <4>3. Extent(image, List[j], fun.size) = {List[j], List[j] + 1}
        BY <3>7 DEF PairIn, IsPair, Extent, End
      <4> QED BY <3>2, <3>4, <3>5, <4>2, <4>3
    <3> QED BY <3>5, <3>6, <3>7
  <2> QED BY <2>3, <2>5, <2>6
<1> QED BY <1>1, <1>2, <1>3 DEF BlocksOf, IsGraph

\* The returns stand at the start of their blocks.
LEMMA ReturnIsHead ==
  ASSUME Sound, NEW i \in 1 .. Len(List), List[i] \in Steps, IsReturn(image, List[i], fun.size)
  PROVE  IsHead(i)
<1>1. Marks(List[i], List[i])
  BY DEF Marks
<1>2. fun.start <= List[i] /\ List[i] < fun.end
  BY BeforeEnd
<1>3. List[i] \in Boundaries
  BY <1>1, <1>2, BoundaryOf
<1> QED BY <1>3 DEF IsHead

LEMMA GraphEdges ==
  ASSUME Sound, BuildTyped, Linking, linked = Len(ids), NEW g, IsGraph(g)
  PROVE  EdgesOf(image, g)
<1> DEFINE n == Len(List)
<1>0. n \in Nat /\ ids \in Seq(Nat) /\ DOMAIN ids = 1 .. linked /\ (n + 1) - 1 = n
  <2>1. n \in Nat /\ ids \in Seq(Nat)
    BY ListFacts DEF BuildTyped
  <2>2. DOMAIN ids = 1 .. Len(ids)
    BY <2>1
  <2> QED BY <2>1, <2>2
<1>1. \A b \in Range(ids) : GoesRight(b, blocks)
  BY <1>0 DEF Linking, Range
<1>2. ASSUME NEW b \in Range(ids)
      PROVE  Range(blocks[b].to) = Successors(image, LastStepIn(image, blocks[b].instrs, fun.size), fun.size)
  <2>1. PICK p \in 1 .. n : \E q \in 1 .. n :
          List[p] = b /\ IsCut(p, q, blocks) /\ IsBlock(p, q) /\ blocks[b].instrs = Piece(p, q)
    BY BlockOfId
  <2>2. PICK q \in 1 .. n :
          List[p] = b /\ IsCut(p, q, blocks) /\ IsBlock(p, q) /\ blocks[b].instrs = Piece(p, q)
    BY <2>1
  <2>3. Range(blocks[b].to) = Goes(List[LastIn(p, q)])
    BY <1>1, <2>2 DEF GoesRight
  <2>4. LastStepIn(image, Piece(p, q), fun.size) = List[LastIn(p, q)]
    <3> DEFINE L == Piece(p, q)
    <3>1. /\ Len(L) = q - p + 1 /\ p \in Nat \ {0} /\ q \in Nat \ {0} /\ p <= q
          /\ \A i \in 1 .. q - p + 1 : L[i] = List[p + i - 1]
      BY <2>2, PieceFacts
    <3>2. Last(L) = List[q]
      BY <2>2, PieceEnds
    <3> HIDE DEF L
    <3>3. CASE p = q
      <4>1. ~(Len(L) > 1) /\ LastIn(p, q) = q
        BY <3>1, <3>3 DEF LastIn
      <4> QED BY <3>2, <4>1 DEF LastStepIn, L
    <3>4. CASE p # q
      <4>1. p < q /\ Len(L) > 1 /\ q - 1 \in p .. q /\ q - 1 < q /\ (q - 1) + 1 = q
            /\ Len(L) - 1 \in 1 .. q - p + 1 /\ p + (Len(L) - 1) - 1 = q - 1
        BY <3>1, <3>4
      <4>2. L[Len(L) - 1] = List[p + (Len(L) - 1) - 1]
        BY <3>1, <4>1
      <4>3. L[Len(L) - 1] = List[q - 1]
        BY <4>1, <4>2
      <4>4. List[q] = List[q - 1] + 1 /\ List[q - 1] \in Steps
        BY <2>2, <4>1, BlockInside
      <4>5. List[q - 1] \in Nat
        BY <4>4, StepFacts
      <4>6. Extent(image, List[q - 1], fun.size)
              = IF PairIn(List[q - 1]) THEN {List[q - 1], List[q - 1] + 1} ELSE {List[q - 1]}
        BY DEF Extent, PairIn, IsPair, End
      <4>7. Extent(image, List[q - 1], fun.size) = {List[q - 1], List[q]} <=> PairIn(List[q - 1])
        <5>1. List[q - 1] # List[q - 1] + 1
          BY <4>5
        <5> QED BY <4>4, <4>6, <5>1
      <4>8. LastStepIn(image, L, fun.size) = IF PairIn(List[q - 1]) THEN List[q - 1] ELSE List[q]
        BY <3>2, <4>1, <4>3, <4>7 DEF LastStepIn
      <4> QED BY <4>1, <4>8 DEF LastIn, L
    <3> QED BY <3>3, <3>4
  <2> QED BY <2>2, <2>3, <2>4 DEF Goes
<1>3. {<<e[1], e[3]>> : e \in g.preds}
        = UNION {{<<t, b>> : t \in Range(g.blocks[b].to)} : b \in DOMAIN g.blocks}
  <2> DEFINE Of(b) == {<<t, b>> : t \in Range(blocks[b].to)}
  <2>1. {<<e[1], e[3]>> : e \in g.preds} = UNION {Of(ids[i]) : i \in 1 .. linked}
    BY DEF Linking, IsGraph
  <2>2. Range(ids) = {ids[i] : i \in 1 .. linked}
    BY <1>0 DEF Range
  <2>3. UNION {Of(ids[i]) : i \in 1 .. linked} = UNION {Of(b) : b \in Range(ids)}
    <3> HIDE DEF Of
    <3> QED BY <2>2
  <2>4. \A b \in Range(ids) : Of(b) = {<<t, b>> : t \in Range(g.blocks[b].to)}
    BY DEF IsGraph
  <2>5. DOMAIN g.blocks = Range(ids)
    BY DEF IsGraph
  <2> HIDE DEF Of
  <2>6. UNION {Of(b) : b \in Range(ids)}
          = UNION {{<<t, b>> : t \in Range(g.blocks[b].to)} : b \in Range(ids)}
    BY <2>4
  <2> QED BY <2>1, <2>3, <2>5, <2>6
<1>4. {r.start : r \in fun.returns} = {a \in Steps : IsReturn(image, a, fun.size)}
  <2>1. fun.returns = {PairAt(a) : a \in {b \in Steps : IsReturn(image, b, fun.size)}}
    BY DEF Sound, Right, Notes, Steps
  <2>2. \A a : PairAt(a).start = a
    BY DEF PairAt
  <2> QED BY <2>1, <2>2
<1>5. \A b : b \in Steps /\ IsReturn(image, b, fun.size) <=> b \in Range(ids) /\ blocks[b].kind = "return"
  <2>1. ASSUME NEW b \in Steps, IsReturn(image, b, fun.size)
        PROVE  b \in Range(ids) /\ blocks[b].kind = "return"
    <3>1. PICK i \in 1 .. n : List[i] = b
      BY ListFacts
    <3>2. IsHead(i) /\ PairIn(b)
      BY <2>1, <3>1, ReturnIsHead DEF PairIn, IsPair
    <3>3. b \in Range(ids)
      BY <1>0, <3>1, <3>2 DEF Linking, HeadsBefore
    <3>4. PICK q \in 1 .. n : IsCut(i, q, blocks)
      BY <1>0, <3>2 DEF Linking, CutBefore
    <3>5. LastIn(i, q) = i
      <4>1. /\ LastIn(i, q) \in i .. q
            /\ i \in i .. q /\ i < LastIn(i, q) => Falls(List[i])
        BY <3>4, BlockLast DEF IsCut
      <4>2. ~Falls(List[i])
        BY <3>1, <3>2 DEF Falls
      <4> QED BY <4>1, <4>2
    <3>6. GoesRight(b, blocks)
      BY <1>1, <3>3
    <3> QED BY <2>1, <3>1, <3>3, <3>4, <3>5, <3>6 DEF GoesRight
  <2>2. ASSUME NEW b \in Range(ids), blocks[b].kind = "return"
        PROVE  b \in Steps /\ IsReturn(image, b, fun.size)
    <3>1. PICK p \in 1 .. n : \E q \in 1 .. n : List[p] = b /\ IsCut(p, q, blocks) /\ IsBlock(p, q)
      BY BlockOfId
    <3>2. PICK q \in 1 .. n : List[p] = b /\ IsCut(p, q, blocks) /\ IsBlock(p, q)
      BY <3>1
    <3> DEFINE s == LastIn(p, q)
    <3>3. IsReturn(image, List[s], fun.size)
      BY <1>1, <2>2, <3>2 DEF GoesRight
    <3>4. s \in p .. q /\ List[s] \in Steps
      BY <3>2, BlockLast
    <3>5. s \in 1 .. n
      BY <3>4
    <3> HIDE DEF s
    <3>6. IsHead(s)
      BY <3>3, <3>4, <3>5, ReturnIsHead
    <3>7. s \notin p + 1 .. q
      BY <3>2, <3>6 DEF IsBlock
    <3>8. s = p
      BY <3>4, <3>7
    <3> QED BY <3>2, <3>3, <3>4, <3>8
  <2> QED BY <2>1, <2>2
<1>6. g.return = {b \in DOMAIN g.blocks : g.blocks[b].kind = "return"}
  BY <1>4, <1>5 DEF IsGraph
<1>7. \A b \in DOMAIN g.blocks :
        Range(g.blocks[b].to) = Successors(image, LastStepIn(image, g.blocks[b].instrs, g.fn.size), g.fn.size)
  BY <1>2 DEF IsGraph
<1> QED BY <1>3, <1>6, <1>7 DEF EdgesOf
-----------------------------------------------------------------------------
\* The instructions of a set of blocks that is closed are closed.
LEMMA ClosedBlocks ==
  ASSUME Sound, BuildTyped, Linking, linked = Len(ids), NEW S, S \subseteq Range(ids),
         fun.start \in S, \A b \in S : Range(blocks[b].to) \subseteq S
  PROVE  \A a \in Steps : \E b \in S : a \in Range(blocks[b].instrs)
<1> DEFINE n == Len(List)
           T == {a \in Steps : \E b \in S : a \in Range(blocks[b].instrs)}
           edges == [a \in DOMAIN image |-> Successors(image, a, image[fun.start].n)]
<1>0. n \in Nat /\ DOMAIN ids = 1 .. linked
  <2>1. n \in Nat /\ ids \in Seq(Nat)
    BY ListFacts DEF BuildTyped
  <2> QED BY <2>1
<1>1. \A b \in Range(ids) : GoesRight(b, blocks)
  BY <1>0 DEF Linking, Range
<1>2. ASSUME NEW b \in Range(ids) PROVE b \in Range(blocks[b].instrs)
  <2>1. PICK p \in 1 .. n : \E q \in 1 .. n :
          /\ List[p] = b /\ IsCut(p, q, blocks) /\ IsBlock(p, q)
          /\ blocks[b].instrs = Piece(p, q)
          /\ \A x : x \in Range(blocks[b].instrs) <=> \E i \in p .. q : List[i] = x
    BY BlockOfId
  <2>2. PICK q \in 1 .. n :
          /\ List[p] = b /\ IsBlock(p, q)
          /\ \A x : x \in Range(blocks[b].instrs) <=> \E i \in p .. q : List[i] = x
    BY <2>1
  <2>3. p \in p .. q
    BY <1>0, <2>2 DEF IsBlock
  <2> QED BY <2>2, <2>3
<1>3. fun.start \in T
  <2>1. fun.start \in Steps
    BY StepFacts
  <2> QED BY <1>2, <2>1
<1>4. ASSUME NEW a \in T PROVE Goes(a) \subseteq T
  <2>1. PICK b \in S : a \in Range(blocks[b].instrs)
    BY <1>4
  <2>2. PICK p \in 1 .. n : \E q \in 1 .. n :
          /\ List[p] = b /\ IsCut(p, q, blocks) /\ IsBlock(p, q)
          /\ blocks[b].instrs = Piece(p, q)
          /\ \A x : x \in Range(blocks[b].instrs) <=> \E i \in p .. q : List[i] = x
    BY BlockOfId
  <2>3. PICK q \in 1 .. n :
          /\ List[p] = b /\ IsCut(p, q, blocks) /\ IsBlock(p, q)
          /\ \A x : x \in Range(blocks[b].instrs) <=> \E i \in p .. q : List[i] = x
    BY <2>2
  <2>4. PICK i \in p .. q : List[i] = a
    BY <2>1, <2>3
  <2> DEFINE s == LastIn(p, q)
  <2>5. /\ s \in p .. q /\ (PairIn(List[s]) <=> s = q - 1) /\ (s # q - 1 => s = q)
        /\ \A j \in p .. q : j < s => Falls(List[j])
    BY <2>3, BlockLast
  <2>6. a \in Steps /\ Goes(a) \subseteq Steps
    BY <1>4, StepFacts
  <2> HIDE DEF s
  <2>7. CASE i < s
    <3>1. i < q /\ i + 1 \in p .. q
      <4>1. p \in Int /\ q \in Int /\ i \in Int /\ s \in Int /\ s <= q /\ p <= i
        BY <1>0, <2>4, <2>5
      <4> QED BY <2>7, <4>1
    <3>2. List[i + 1] = a + 1
      BY <2>3, <2>4, <3>1, BlockInside
    <3>3. Falls(a)
      BY <2>4, <2>5, <2>7
    <3>4. Goes(a) = {a + 1}
      BY <2>6, <3>3, StepKinds
    <3>5. a + 1 \in Range(blocks[b].instrs)
      BY <2>3, <3>1, <3>2
    <3> QED BY <2>6, <3>4, <3>5
  <2>8. CASE i = s
    <3>1. Range(blocks[b].to) = Goes(a)
      BY <1>1, <2>3, <2>4, <2>8 DEF GoesRight, s
    <3>2. Goes(a) \subseteq S
      BY <3>1
    <3> QED BY <1>2, <2>6, <3>2
  <2>9. CASE i > s
    <3>1. i = s + 1 /\ s = q - 1 /\ s < q
      <4>1. p \in Int /\ q \in Int /\ i \in Int /\ s \in Int /\ s <= q /\ i <= q
        BY <1>0, <2>4, <2>5
      <4> QED BY <2>5, <2>9, <4>1
    <3>2. List[s] \in Steps /\ List[s + 1] = List[s] + 1
      BY <2>3, <2>5, <3>1, BlockInside
    <3>3. PairIn(List[s])
      BY <2>5, <3>1
    <3>4. a \notin Steps
      BY <2>4, <3>1, <3>2, <3>3, StepFacts
    <3> QED BY <2>6, <3>4
  <2>10. i < s \/ i = s \/ i > s
    BY <1>0, <2>4, <2>5
  <2> QED BY <2>7, <2>8, <2>9, <2>10
<1>5. Steps \subseteq T
  <2>1. fun.size = image[fun.start].n /\ image \in Images
    BY StepFacts DEF Sound, Right
  <2>2. IsFiniteSet(DOMAIN edges)
    <3>1. DOMAIN image = 1 .. Len(image) /\ Len(image) \in Nat
      BY <2>1, ImageFacts
    <3> QED BY <3>1, FS_Interval
  <2>3. IsClosed(edges, T)
    <3> SUFFICES ASSUME NEW a \in T, a \in DOMAIN image PROVE edges[a] \subseteq T
      BY DEF IsClosed
    <3>1. edges[a] = Goes(a)
      BY <2>1 DEF Goes
    <3> QED BY <1>4, <3>1
  <2>4. Steps = Reach(edges, {fun.start})
    BY DEF Steps, Code
  <2>5. {fun.start} \subseteq T
    BY <1>3
  <2> HIDE DEF T, edges
  <2> QED BY <2>2, <2>3, <2>4, <2>5, ReachLeast
<1> QED BY <1>5

LEMMA GraphReachable ==
  ASSUME Sound, BuildTyped, Linking, linked = Len(ids), NEW g, IsGraph(g)
  PROVE  ReachableOf(g)
<1> SUFFICES ASSUME NEW S \in SUBSET Range(ids), fun.start \in S,
                    \A b \in S : Range(blocks[b].to) \subseteq S,
                    NEW b \in Range(ids)
             PROVE  b \in S
  BY DEF ReachableOf, IsGraph
<1> DEFINE n == Len(List)
<1>1. PICK p \in 1 .. n : \E q \in 1 .. n : List[p] = b /\ IsHead(p) /\ IsCut(p, q, blocks)
  BY LinkingHas
<1>2. PICK q \in 1 .. n : List[p] = b /\ IsHead(p) /\ IsCut(p, q, blocks)
  BY <1>1
<1>3. b \in Steps
  BY <1>2, HeadIsStep
<1>4. PICK c \in S : b \in Range(blocks[c].instrs)
  BY <1>3, ClosedBlocks
<1>5. b \in Range(blocks[b].instrs)
  <2>1. IsBlock(p, q) /\ blocks[b].instrs = Piece(p, q)
    BY <1>2 DEF IsCut
  <2>2. p \in p .. q
    <3>1. Len(List) \in Nat
      BY ListFacts
    <3> QED BY <2>1, <3>1 DEF IsBlock
  <2> QED BY <1>2, <2>1, <2>2, PieceElements
<1>6. b \in Range(List)
  BY <1>2, ListFacts DEF Range
<1>7. PICK d \in Range(ids) : {x \in Range(ids) : b \in Range(blocks[x].instrs)} = {d}
  BY <1>6, OneBlockOf
<1> QED BY <1>4, <1>5, <1>7
-----------------------------------------------------------------------------
(* The rest of the builder.                                                *)

LEMMA FinishStep ==
  ASSUME Sound, BuildInv, FinishFunction
  PROVE  BuildInv'
<1> DEFINE g == [id     |-> fun.start,
                 fn     |-> fun,
                 return |-> {r.start : r \in fun.returns},
                 blocks |-> [b \in Range(ids) |-> blocks[b]],
                 preds  |-> preds]
<1>1. Linking /\ BuildTyped /\ Graphs /\ linked = Len(ids)
  BY DEF FinishFunction, BuildInv
<1>2. IsGraph(g)
  BY DEF IsGraph
<1>3. BlocksOf(image, g) /\ EdgesOf(image, g) /\ ReachableOf(g)
  BY <1>1, <1>2, GraphBlocks, GraphEdges, GraphReachable
<1>4. \A r \in fun.returns : r.start \in DOMAIN blocks
  <2>1. g.return \subseteq DOMAIN g.blocks
    <3> HIDE DEF g
    <3> QED BY <1>3 DEF EdgesOf
  <2> QED BY <1>1, <2>1 DEF BuildTyped
<1>5. /\ graphs' = graphs \cup {g} /\ build' = "next"
      /\ UNCHANGED <<image, functions, fun, next, start, ids, linked, blocks, preds>>
  BY <1>4 DEF FinishFunction, scanVars
<1>6. g.fn = fun /\ fun \in functions
  BY <1>1 DEF Linking
<1> HIDE DEF g
<1>7. Graphs'
  BY <1>1, <1>3, <1>5, <1>6 DEF Graphs
<1>8. BuildTyped'
  BY <1>1, <1>5, TypedStays
<1> QED BY <1>5, <1>7, <1>8 DEF BuildInv

LEMMA NextFunctionStep ==
  ASSUME ScanInv, BuildInv, NextFunction
  PROVE  BuildInv'
<1> DEFINE Starts == {f.start : f \in Unbuilt}
<1>1. BuildTyped /\ Graphs
  BY DEF BuildInv
<1>2. \A f \in functions : f.start \in Nat
  <2> SUFFICES ASSUME NEW f \in functions PROVE f.start \in Nat
    OBVIOUS
  <2>1. image \in Images /\ f.start \in DOMAIN image
    BY DEF ScanInv, Right
  <2> QED BY <2>1, ImageFacts
<1>3. Starts \subseteq Nat /\ Starts # {}
  BY <1>2 DEF Unbuilt, NextFunction
<1>4. PICK m \in Starts : \A x \in Starts : m <= x
  BY <1>3, LeastNumber
<1>5. \E f \in Unbuilt : \A h \in Unbuilt : f.start <= h.start
  BY <1>4
<1>6. fun' \in Unbuilt
  BY <1>5 DEF NextFunction
<1>7. fun' \in functions
  BY <1>6 DEF Unbuilt
<1>8. /\ build' = "cut" /\ next' = 1 /\ start' = fun'.start /\ ids' = <<>> /\ linked' = 0 /\ preds' = {}
      /\ UNCHANGED <<image, functions, blocks, graphs>>
  BY DEF NextFunction, scanVars
<1>9. Range(ids') = {}
  BY <1>8, TupleElements
<1>10. 1 .. next' - 1 = {}
  BY <1>8
<1>11. Cutting'
  <2>1. HeadsBefore(next)' = {}
    BY <1>10 DEF HeadsBefore
  <2>2. CutBefore(next, blocks)'
    BY <1>10 DEF CutBefore
  <2> QED BY <1>7, <1>8, <1>9, <2>1, <2>2 DEF Cutting
<1>12. BuildTyped'
  <2>1. start' \in Nat
    BY <1>2, <1>7, <1>8
  <2>2. Shaped(blocks)'
    BY <1>1, <1>8 DEF BuildTyped, Shaped
  <2>3. linked' \in 0 .. Len(ids') /\ ids' \in Seq(Nat)
    BY <1>8
  <2> QED BY <1>7, <1>8, <1>9, <2>1, <2>2, <2>3 DEF BuildTyped
<1>13. Graphs'
  BY <1>1, <1>8, GraphsStay
<1> QED BY <1>8, <1>11, <1>12, <1>13 DEF BuildInv

\* The steps that leave the function at work alone.
LEMMA BuildStays ==
  ASSUME BuildInv, UNCHANGED <<image, fun, next, start, ids, linked, blocks, preds, graphs>>,
         functions \subseteq functions',
         \/ build' = build
         \/ build' \in {"next", "done"}
  PROVE  BuildInv'
<1>1. BuildTyped /\ Graphs /\ (build = "cut" => Cutting) /\ (build = "link" => Linking)
  BY DEF BuildInv
<1>2. BuildTyped'
  <2>1. build' \in {"scan", "next", "cut", "link", "done"}
    BY <1>1 DEF BuildTyped
  <2> QED BY <1>1, <2>1, TypedStays
<1>3. Graphs'
  BY <1>1, GraphsStay
<1>4. build' = "cut" => Cutting'
  BY <1>1, CuttingStays
<1>5. build' = "link" => Linking'
  BY <1>1, LinkingStays
<1> QED BY <1>2, <1>3, <1>4, <1>5 DEF BuildInv

LEMMA ScanKeepsFunctions ==
  ASSUME ScanNext
  PROVE  image' = image /\ functions \subseteq functions'
BY DEF ScanNext, SkipData, BeginFunction, TakeSeen, TakeAddress, RejectFunction, AcceptFunction, EndOfImage

LEMMA BuildStep ==
  ASSUME AllCompiled, ScanInv, BuildInv, [Next]_vars
  PROVE  BuildInv'
<1>1. CASE ScanNext /\ UNCHANGED cfgVars
  BY <1>1, ScanKeepsFunctions, BuildStays DEF cfgVars
<1>2. CASE BeginBuild \/ BuildDone \/ UNCHANGED vars
  <2>1. /\ UNCHANGED <<image, fun, next, start, ids, linked, blocks, preds, graphs, functions>>
        /\ build' = build \/ build' \in {"next", "done"}
    BY <1>2 DEF BeginBuild, BuildDone, vars, scanVars, cfgVars
  <2> QED BY <2>1, BuildStays
<1>3. CASE NextFunction
  BY <1>3, NextFunctionStep
<1>4. CASE CutBlock
  <2>1. Sound
    BY <1>4, FunIsSound DEF CutBlock, BuildInv, Cutting
  <2> QED BY <1>4, <2>1, CutStep
<1>5. CASE LinkBlock
  <2>1. Sound
    BY <1>5, FunIsSound DEF LinkBlock, BuildInv, Linking
  <2> QED BY <1>5, <2>1, LinkStep
<1>6. CASE FinishFunction
  <2>1. Sound
    BY <1>6, FunIsSound DEF FinishFunction, BuildInv, Linking
  <2> QED BY <1>6, <2>1, FinishStep
<1> QED BY <1>1, <1>2, <1>3, <1>4, <1>5, <1>6 DEF Next, Build, Finished

\* For every set of images as a compiler leaves them, each graph is the code of its
\* function, block by block and edge by edge, and neither pass fails.
THEOREM GraphsAlwaysExact ==
  ASSUME AllCompiled
  PROVE  Spec => []GraphsExact
<1>1. Init => BuildInv
  <2> SUFFICES ASSUME Init PROVE BuildInv
    OBVIOUS
  <2>1. build = "scan" /\ fun = NoFunction /\ next = 1 /\ start = 1 /\ ids = <<>> /\ linked = 0
        /\ blocks = <<>> /\ preds = {} /\ graphs = {}
    BY DEF Init
  <2>2. Range(ids) = {} /\ DOMAIN blocks = {} /\ ids \in Seq(Nat) /\ linked \in 0 .. Len(ids)
    <3>1. <<>> \in Seq(Nat) /\ Len(<<>>) = 0 /\ DOMAIN <<>> = {}
      OBVIOUS
    <3>2. Range(ids) = {}
      BY <2>1, TupleElements
    <3>3. ids \in Seq(Nat) /\ DOMAIN blocks = {} /\ Len(ids) = 0
      BY <2>1, <3>1
    <3> QED BY <2>1, <3>2, <3>3
  <2>3. BuildTyped
    BY <2>1, <2>2 DEF BuildTyped, Shaped
  <2> QED BY <2>1, <2>3 DEF BuildInv, Graphs
<1>2. ScanInv /\ BuildInv /\ [Next]_vars => BuildInv'
  BY BuildStep
<1> QED BY <1>1, <1>2, ScanHandsOver, ScansFirst, GraphsAreExact, PTL DEF Spec
=============================================================================
