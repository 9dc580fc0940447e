----------------------------- MODULE ControlFlow -----------------------------
(***************************************************************************)
(* Control-flow structuring (control_flow_analyzer.rs): the blocks of a    *)
(* function become nested statements.  Loops and merge points are found    *)
(* first; analyze_block then walks the graph, and calls itself on loop     *)
(* bodies and branches.  A call is a frame [cur, end, out, wait]: it works *)
(* on block cur, has put out the statements out and waits for the calls    *)
(* `wait` names.                                                           *)
(*                                                                         *)
(* Statements: <<"block", b>> are the statements of block b and its call,  *)
(* <<"if", b, answer, S, T>> runs S when the condition of b answers `answer` *)
(* and else T, <<"loop", S>>, <<"dowhile", S, b>> repeats while b answers yes, *)
(* <<"continue">>, <<"break">>, <<"return", values>> and <<"halt">>.       *)
(*                                                                         *)
(* When the function is structured its statements are run.  Expressions and *)
(* whether a write prints as a definition are left out.                    *)
(***************************************************************************)
EXTENDS Integers, Sequences, FiniteSets

CONSTANTS Functions, MaxDepth   \* MaxDepth: calls of analyze_block at a time

VARIABLES
  fun, at, took,       \* as in BlockPaths
  loops, ifs,          \* FunctionAnalysisContext
  inLoop, inIf,
  frames,              \* the calls of analyze_block, innermost last
  ret,                 \* <<statements>> returned to the last frame, or <<>>
  phase,               \* analyze, run; panic
  todo                 \* what is left to run: a stack of sequences of statements

vars == <<fun, at, took, loops, ifs, inLoop, inIf, frames, ret, phase, todo>>

None == 0
Start  == 0
End    == -1
Halted == -2
Lost   == -3   \* a statement that has no meaning where it is
Blocks(f)  == 1 .. Len(f.next)
Kind(f, b) == f.next[b][1]
Successors(f, b) ==
  CASE Kind(f, b) = "if" -> {f.next[b][2], f.next[b][3]}
    [] Kind(f, b) \in {"follows", "goto", "call"} -> {f.next[b][2]}
    [] OTHER -> {}
Returns(f) == {b \in Blocks(f) : Kind(f, b) = "return"}
ReturnBlock(f) == IF Returns(f) = {} THEN None ELSE CHOOSE b \in Returns(f) : TRUE

\* The blocks on the paths from b that avoid block d.
Reach(f, b, d) ==
  LET R[n \in Nat] ==
        IF n = 0 THEN {b} \ {d}
        ELSE LET S == R[n - 1] IN S \cup (UNION {Successors(f, c) : c \in S} \ {d})
  IN  R[Len(f.next)]
Dominates(f, d, b)     == b \notin Reach(f, 1, d)
PostDominates(f, d, b) == ReturnBlock(f) \notin Reach(f, b, d)
\* The closest one; there is none unless b goes on to the return block.
ImmediatePostDominator(f, b) ==
  LET P == {d \in Reach(f, b, None) \ {b} : PostDominates(f, d, b)}
  IN  IF ReturnBlock(f) \notin P THEN None
      ELSE CHOOSE d \in P : \A c \in P : PostDominates(f, c, d)
-----------------------------------------------------------------------------
(* find_loops and find_ifs.                                                *)

HeadersOf(f, b) == {h \in Successors(f, b) : Dominates(f, h, b)}
BackEdges(f) == UNION {{b} \X HeadersOf(f, b) : b \in Blocks(f)}
Headers(f)   == {e[2] : e \in BackEdges(f)}
Largest(S)   == CHOOSE b \in S : \A c \in S : c <= b
JumpBack(f, h) == Largest({e[1] : e \in {e \in BackEdges(f) : e[2] = h}})

\* Blocks after the loop that are gone to from a block after its header.
JumpOuts(f, h) ==
  {b \in UNION {Successors(f, c) : c \in Reach(f, h, None)} : b > JumpBack(f, h)}
Exit(f, h) ==
  LET out == JumpOuts(f, h)
      one == IF Cardinality(out) = 2 THEN out \ {ReturnBlock(f)} ELSE out
  IN  IF Cardinality(one) = 1 THEN Largest(one) ELSE None
Loop(f, h) == [header |-> h, jumpBack |-> JumpBack(f, h), exit |-> Exit(f, h)]

\* The assertions on the blocks jumped out to, and on the ifs.
LoopsFound(f) ==
  \A h \in Headers(f) :
    /\ Cardinality(JumpOuts(f, h)) <= 2
    /\ Cardinality(JumpOuts(f, h)) = 2 => ReturnBlock(f) \in JumpOuts(f, h)
IfBlocks(f) ==
  {b \in Blocks(f) : Kind(f, b) = "if" /\ HeadersOf(f, b) = {}}
IfsFound(f) == \A b \in IfBlocks(f) : ImmediatePostDominator(f, b) # None

NoLoop == [header |-> None, jumpBack |-> None, exit |-> None]
Frame(b, end) == [cur |-> b, end |-> end, out |-> <<>>, wait |-> <<"nothing">>]

Init ==
  /\ fun \in Functions /\ at = Start /\ took = "none"
  /\ loops = [h \in Headers(fun) |-> Loop(fun, h)]
  /\ ifs = [b \in IfBlocks(fun) |-> ImmediatePostDominator(fun, b)]
  /\ inLoop = NoLoop /\ inIf = <<>> /\ ret = <<>> /\ todo = <<>>
  /\ frames = <<Frame(1, None)>>
  /\ phase = IF LoopsFound(fun) /\ IfsFound(fun) THEN "analyze" ELSE "panic"
-----------------------------------------------------------------------------
(* analyze_block.                                                          *)

Top == frames[Len(frames)]
Cur == Top.cur
Context == <<fun, at, took, loops, ifs, todo>>

\* A turn of the loop of analyze_block: the loop that starts here is the one at
\* work already, or there is none.
Turn == phase = "analyze" /\ ret = <<>> /\ Len(frames) > 0 /\ Cur # Top.end
InLoop(b) == inLoop.header = b
Starting  == Cur \in DOMAIN loops /\ inLoop = NoLoop
Nested    == Cur \in DOMAIN loops /\ inLoop # NoLoop /\ inLoop # loops[Cur]

\* translate_statements, and then s; cur is b from then on.
Emitted(s) == Top.out \o (IF Cur \in fun.silent THEN <<>> ELSE << <<"block", Cur>> >>) \o s
Continue(b, s) ==
  frames' = [frames EXCEPT ![Len(frames)] = [@ EXCEPT !.cur = b, !.out = Emitted(s)]]
Leave(s) == ret' = <<s>>
Call(frame, wait) ==
  IF Len(frames) = MaxDepth THEN phase' = "panic" /\ UNCHANGED frames
  ELSE /\ frames' = Append([frames EXCEPT ![Len(frames)] = wait], frame)
       /\ UNCHANGED phase

StartLoop ==
  /\ Turn /\ Starting
  /\ inLoop' = loops[Cur]
  /\ Call(Frame(Cur, None), [Top EXCEPT !.wait = <<"loop">>])
  /\ UNCHANGED <<Context, inIf, ret>>

Body == Turn /\ ~Starting /\ ~Nested
AtJumpBack == Cur = inLoop.jumpBack

EndLoopBody ==
  /\ Body /\ AtJumpBack
  /\ Leave(Emitted(<<>>))
  /\ UNCHANGED <<Context, inLoop, inIf, frames, phase>>

Follow ==
  /\ Body /\ ~AtJumpBack /\ Kind(fun, Cur) \in {"follows", "call"}
  /\ Continue(fun.next[Cur][2], <<>>)
  /\ UNCHANGED <<Context, inLoop, inIf, ret, phase>>

\* maybe_return_statement, before the end.
ReturnStatement == <<"return", fun.values>>

\* What a jump to block b becomes, when it is one of those that are known.
GotoStatement(b) ==
  CASE InLoop(b) -> << <<"continue">> >>
    [] b = inLoop.exit -> << <<"break">> >>
    [] b = ReturnBlock(fun) -> <<ReturnStatement>>
    [] OTHER -> <<>>
KnownGoto(b) ==
  \/ GotoStatement(b) # <<>>
  \/ inIf # <<>> /\ b = inIf[Len(inIf)]

Goto ==
  /\ Body /\ ~AtJumpBack /\ Kind(fun, Cur) = "goto" /\ KnownGoto(fun.next[Cur][2])
  /\ Leave(Emitted(GotoStatement(fun.next[Cur][2])))
  /\ UNCHANGED <<Context, inLoop, inIf, frames, phase>>

\* A condition whose jump leaves: an if without an else.
Jump(b) ==
  CASE InLoop(b) -> << <<"continue">> >>
    [] b = inLoop.exit -> << <<"break">> >>
    [] b = ReturnBlock(fun) -> << <<"return", FALSE>> >>
    [] OTHER -> <<>>
JumpIf ==
  /\ Body /\ ~AtJumpBack /\ Kind(fun, Cur) = "if"
  /\ LET then == fun.next[Cur][2]
     IN  /\ Jump(then) # <<>>
         /\ Continue(fun.next[Cur][3], << <<"if", Cur, "yes", Jump(then), <<>> >> >>)
  /\ UNCHANGED <<Context, inLoop, inIf, ret, phase>>

Branches ==
  Body /\ ~AtJumpBack /\ Kind(fun, Cur) = "if" /\ Jump(fun.next[Cur][2]) = <<>>
StartIf ==
  /\ Branches /\ Cur \in DOMAIN ifs
  /\ inIf' = Append(inIf, ifs[Cur])
  /\ Call(Frame(fun.next[Cur][2], ifs[Cur]), [Top EXCEPT !.wait = <<"then">>, !.out = Emitted(<<>>)])
  /\ UNCHANGED <<Context, inLoop, ret>>

Finish ==
  /\ Body /\ ~AtJumpBack /\ Kind(fun, Cur) \in {"return", "halt"}
  /\ Leave(Emitted(IF Kind(fun, Cur) = "halt" THEN << <<"halt">> >> ELSE <<>>))
  /\ UNCHANGED <<Context, inLoop, inIf, frames, phase>>

\* The panics: "Nested loops not supported", "Goto unknown", "Unknown next kind".
\* A condition without a merge point is the jump back of the loop at work, so
\* that the last one of the code is not reached.
Panic ==
  /\ \/ Turn /\ Nested
     \/ Body /\ ~AtJumpBack /\ Kind(fun, Cur) = "goto" /\ ~KnownGoto(fun.next[Cur][2])
     \/ Body /\ ~AtJumpBack /\ Kind(fun, Cur) = "unknown"
  /\ phase' = "panic"
  /\ UNCHANGED <<Context, inLoop, inIf, frames, ret>>

EndReached ==
  /\ phase = "analyze" /\ ret = <<>> /\ Len(frames) > 0 /\ Cur = Top.end
  /\ Leave(Top.out)
  /\ UNCHANGED <<Context, inLoop, inIf, frames, phase>>
-----------------------------------------------------------------------------
(* A call of analyze_block returns.                                        *)

Caller == frames[Len(frames) - 1]
Returned(wait) ==
  /\ phase = "analyze" /\ ret # <<>> /\ Len(frames) > 1 /\ Caller.wait[1] = wait
Resume(caller) == frames' = Append(SubSeq(frames, 1, Len(frames) - 2), caller)
Idle == <<"nothing">>

\* The loop is the last statement of the call that found it.
EndLoop ==
  /\ Returned("loop")
  /\ LET lp == loops[Caller.cur]
         condition == Kind(fun, lp.jumpBack) = "if"
         loop == IF condition THEN <<"dowhile", ret[1], lp.jumpBack>> ELSE <<"loop", ret[1]>>
     IN  IF condition /\ fun.next[lp.jumpBack][2] # lp.header
           THEN phase' = "panic" /\ UNCHANGED <<frames, ret>>
           ELSE /\ Leave(Append(Caller.out, loop))
                /\ Resume([Caller EXCEPT !.wait = Idle])
                /\ UNCHANGED phase
  /\ UNCHANGED <<Context, inLoop, inIf>>

\* Mutant of EndThen: the call for the other branch is taken for the first one.
EndThenAgain ==
  /\ Returned("then")
  /\ frames' = Append(SubSeq(frames, 1, Len(frames) - 1), Frame(fun.next[Caller.cur][2], ifs[Caller.cur]))
  /\ ret' = <<>>
  /\ UNCHANGED <<Context, inLoop, inIf, phase>>
EndThen ==
  /\ Returned("then")
  /\ frames' = Append(Append(SubSeq(frames, 1, Len(frames) - 2),
                             [Caller EXCEPT !.wait = <<"else", ret[1]>>]),
                      Frame(fun.next[Caller.cur][3], ifs[Caller.cur]))
  /\ ret' = <<>>
  /\ UNCHANGED <<Context, inLoop, inIf, phase>>

\* Mutant of IfStatement: the condition is negated without swapping the branches.
IfStatementUnswapped(b, yes, no) ==
  IF yes # <<>> THEN <<"if", b, "yes", yes, no>> ELSE <<"if", b, "no", yes, no>>
\* An empty first branch goes second, under the opposite condition.
IfStatement(b, yes, no) ==
  IF yes # <<>> THEN <<"if", b, "yes", yes, no>> ELSE <<"if", b, "no", no, yes>>
EndElse ==
  /\ Returned("else")
  /\ LET s == IfStatement(Caller.cur, Caller.wait[2], ret[1])
     IN  Resume([Caller EXCEPT !.out = Append(@, s), !.cur = ifs[Caller.cur], !.wait = Idle])
  /\ ret' = <<>> /\ inIf' = SubSeq(inIf, 1, Len(inIf) - 1)
  /\ UNCHANGED <<Context, inLoop, phase>>

\* analyze_function: a return at the end when there are values.
EndFunction ==
  /\ phase = "analyze" /\ ret # <<>> /\ Len(frames) = 1
  /\ todo' = << ret[1] \o (IF fun.values THEN << <<"return", TRUE>> >> ELSE <<>>) >>
  /\ phase' = "run" /\ frames' = <<>> /\ ret' = <<>>
  /\ UNCHANGED <<fun, at, took, loops, ifs, inLoop, inIf>>
-----------------------------------------------------------------------------
(* The statements are run.  A loop waits below its body as a sequence that *)
(* begins with <<"repeat", loop>>.                                         *)

Stmt    == Head(todo[Len(todo)])
Running == phase = "run" /\ at \notin {End, Halted, Lost}
Ready(kind) == Running /\ todo # <<>> /\ todo[Len(todo)] # <<>> /\ Stmt[1] = kind
Rest    == [todo EXCEPT ![Len(todo)] = Tail(@)]
Analysis == <<fun, loops, ifs, inLoop, inIf, frames, ret, phase>>

RunBlock ==
  /\ Ready("block") /\ at' = Stmt[2] /\ took' = "none" /\ todo' = Rest
  /\ UNCHANGED Analysis

RunIf ==
  /\ Ready("if")
  /\ took' \in {"yes", "no"}
  /\ todo' = Append(Rest, IF took' = Stmt[3] THEN Stmt[4] ELSE Stmt[5])
  /\ UNCHANGED <<Analysis, at>>

RunLoop ==
  /\ \/ Ready("loop") \/ Ready("dowhile")
  /\ todo' = Append(Append(Rest, << <<"repeat", Stmt>> >>), Stmt[2])
  /\ UNCHANGED <<Analysis, at, took>>

RunRepeat ==
  /\ Ready("repeat")
  /\ took' \in IF Stmt[2][1] = "loop" THEN {took} ELSE {"yes", "no"}
  /\ todo' = IF Stmt[2][1] = "dowhile" /\ took' = "no" THEN Rest ELSE Append(todo, Stmt[2][2])
  /\ UNCHANGED <<Analysis, at>>

\* The innermost loop of the sequences that wait; 0 outside loops.
Innermost ==
  LET L == {i \in 1 .. Len(todo) : todo[i] # <<>> /\ todo[i][1][1] = "repeat"}
  IN  IF L = {} THEN 0 ELSE Largest(L)
RunJump ==
  /\ \/ Ready("continue") \/ Ready("break")
  /\ IF Innermost = 0 THEN at' = Lost /\ todo' = <<>>
     ELSE /\ todo' = IF Stmt[1] = "break" THEN SubSeq(todo, 1, Innermost - 1)
                     ELSE Append(SubSeq(todo, 1, Innermost), todo[Innermost][1][2][2])
          /\ UNCHANGED at
  /\ UNCHANGED <<Analysis, took>>

RunReturn ==
  /\ Ready("return")
  /\ at' = IF Stmt[2] = fun.values THEN End ELSE Lost
  /\ took' = "none" /\ todo' = <<>>
  /\ UNCHANGED Analysis
RunHalt ==
  /\ Ready("halt") /\ at' = Halted /\ took' = "none" /\ todo' = <<>>
  /\ UNCHANGED Analysis

RunEnd ==
  /\ Running /\ todo # <<>> /\ todo[Len(todo)] = <<>>
  /\ todo' = SubSeq(todo, 1, Len(todo) - 1)
  /\ UNCHANGED <<Analysis, at, took>>
Fall ==
  /\ Running /\ todo = <<>>
  /\ at' = End /\ took' = "none"
  /\ UNCHANGED <<Analysis, todo>>
-----------------------------------------------------------------------------
Stopped == (phase = "panic" \/ at \in {End, Halted, Lost}) /\ UNCHANGED vars

Analyze ==
  \/ StartLoop \/ EndLoopBody \/ Follow \/ Goto \/ JumpIf \/ StartIf \/ Finish \/ Panic
  \/ EndReached \/ EndLoop \/ EndThen \/ EndElse \/ EndFunction
Run ==
  \/ RunBlock \/ RunIf \/ RunLoop \/ RunRepeat \/ RunJump \/ RunReturn \/ RunHalt \/ RunEnd \/ Fall
Next == Analyze \/ Run \/ Stopped

Spec == Init /\ [][Next]_vars
\* analyze_block is called, and nothing waits.
FairSpec == Spec /\ WF_vars(Analyze)
-----------------------------------------------------------------------------
\* The structured function runs the blocks the graph runs, in its order, and
\* ends the way the graph ends: the control flow that analyze_block puts into
\* statements is the one it took from the blocks.
Paths == INSTANCE BlockPaths
ImplementsPaths == Paths!Spec

\* analyze_block comes to an end on every graph: a loop body and a branch are
\* each walked once, and every walk comes to its jump back, merge point or return.
EventuallyStructured == <>(phase \in {"run", "panic"})

\* An early return gives back the values of the function, as the comment on
\* maybe_return_statement says, and every statement has a meaning in its place.
NothingLost == at # Lost
=============================================================================
