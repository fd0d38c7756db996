------------------------ MODULE ResidentAgentProofs ------------------------
(***************************************************************************)
(* The safety of ResidentAgent for every nesting depth, every set of       *)
(* opcodes, every width of the tick counter and any number of sessions.    *)
(*                                                                         *)
(* The properties hold each other up.  That the worker leaves to the code  *)
(* it interrupted needs that it is the only worker; that its frame stays   *)
(* in the buffer needs that the packet driver copies at most one frame and *)
(* only into a free buffer; that DOS is idle when a request is carried out *)
(* needs both, since the decision was made when the buffer was polled; and *)
(* a clean unload needs that a disabled worker does nothing.               *)
(***************************************************************************)
EXTENDS ResidentAgent, SequenceTheorems, TLAPS

Contexts == {"int08", "int1c", "int28", "rx"}
WorkerPcs == {"run", "poll", "handle", "release", "leave"}
Frames == [ctx : Contexts, pc : WorkerPcs \cup {"chain", "check", "copy"},
           held : Datagram \cup {NoFrame}]

\* The request may be carried out without DOS, or DOS is idle.
Dispatchable(f) ==
  \/ f.held.op \notin FileOpcode
  \/ f.held.op = "abort" /\ transfer.kind = "graphics"
  \/ f.ctx = "int28" /\ ~ critical

\* What holds of the handler at depth i.
FrameInv(i) ==
  LET f == stack[i] IN
  /\ f.pc \in {"chain", "check", "copy"} => i <= MaxNest
  /\ InWorker(f) => active /\ saved = i - 1
  /\ InWorker(f) /\ ~ enabled => f.pc \in {"run", "leave"}
  /\ f.pc = "copy" =>
       /\ ~ ready /\ f.held \in Datagram
       /\ \A j \in 1 .. Len(stack) : stack[j].pc = "copy" => j = i
  /\ f.pc = "handle" => ready /\ buffer = f.held /\ Dispatchable(f)

StackInv ==
  /\ stack \in Seq(Frames)
  /\ Len(stack) <= MaxNest + 1
  /\ \A i \in 1 .. Len(stack) : FrameInv(i)
  /\ active => saved + 1 \in 1 .. Len(stack) /\ InWorker(stack[saved + 1])
  /\ ready => buffer \in Datagram

\* From the moment the worker is disabled on, no transfer is open; nothing is
\* delivered once the handles are released, nothing is hooked at the end.
UnloadInv ==
  /\ ~ enabled => transfer.kind = "none"
  /\ loader \in {"prepared", "released", "restored", "freed", "leaked"} => ~ enabled
  /\ loader \in {"released", "restored", "freed", "leaked"} => ~ handles
  /\ loader \in {"restored", "freed", "leaked"} => vectors = {}
  /\ loader = "freed" => stack = << >>

\* What TypeOK says besides the stack.
TypeRest ==
  /\ active \in BOOLEAN
  /\ saved \in 0 .. MaxNest
  /\ entries \in {0, 1} /\ before \in {0, 1}
  /\ ready \in BOOLEAN
  /\ buffer \in Datagram \cup {NoFrame}
  /\ handles \in BOOLEAN
  /\ enabled \in BOOLEAN
  /\ ticks \in 0 .. TickModulus - 1
  /\ session \in [active : BOOLEAN, id : 0 .. MaxSessions, last : 0 .. TickModulus - 1]
  /\ toSend \in 0 .. MaxFrags
  /\ helloPending \in BOOLEAN
  /\ transfer \in [kind : {"none", "read", "write", "graphics"}]
  /\ critical \in BOOLEAN
  /\ vectors \subseteq {"08", "1c", "28", "2f"}
  /\ above \in BOOLEAN
  /\ loader \in {"installing", "resident", "refused", "checked", "prepared", "released",
                 "restored", "stuck", "freed", "leaked"}
  /\ unsafeDos \in BOOLEAN

AgentInv == TypeRest /\ StackInv /\ UnloadInv

----------------------------------------------------------------------------
(* What the handlers do to the stack, by depth.                            *)

Depth == Len(stack)
SameBelow(n) == \A i \in 1 .. n : stack'[i] = stack[i]

\* The same handler at another place.
FrameAt(f, pc) == [ctx |-> f.ctx, pc |-> pc, held |-> f.held]

Pushed(f) ==
  /\ stack' \in Seq(Frames) /\ Len(stack') = Depth + 1
  /\ SameBelow(Depth) /\ stack'[Depth + 1] = f
Popped ==
  /\ stack' \in Seq(Frames) /\ Len(stack') = Depth - 1 /\ SameBelow(Depth - 1)
Moved(f) ==
  /\ stack' \in Seq(Frames) /\ Len(stack') = Depth
  /\ SameBelow(Depth - 1) /\ stack'[Depth] = f
Called(f, g) ==
  /\ stack' \in Seq(Frames) /\ Len(stack') = Depth + 1
  /\ SameBelow(Depth - 1) /\ stack'[Depth] = f /\ stack'[Depth + 1] = g

\* t is s with x behind it.
IsLonger(s, x, t) ==
  /\ Len(t) = Len(s) + 1 /\ t[Len(s) + 1] = x
  /\ \A i \in 1 .. Len(s) : t[i] = s[i]

(* A sequence with one element more (Append).                              *)
LEMMA PushIsPushed ==
  ASSUME NEW T, NEW s \in Seq(T), NEW x \in T
  PROVE  Append(s, x) \in Seq(T) /\ IsLonger(s, x, Append(s, x))
BY DEF IsLonger

(* With one element less (Front, SubSeq).                                  *)
LEMMA PopIsPopped ==
  ASSUME NEW T, NEW s \in Seq(T), Len(s) > 0
  PROVE  /\ SubSeq(s, 1, Len(s) - 1) \in Seq(T)
         /\ Len(SubSeq(s, 1, Len(s) - 1)) = Len(s) - 1
         /\ \A i \in 1 .. Len(s) - 1 : SubSeq(s, 1, Len(s) - 1)[i] = s[i]
<1>1. \A i \in 1 .. Len(s) - 1 : s[i] \in T OBVIOUS
<1>2. 1 \in Int /\ Len(s) - 1 \in Int /\ Len(s) - 1 - 1 + 1 = Len(s) - 1 OBVIOUS
<1> DEFINE t == SubSeq(s, 1, Len(s) - 1)
<1>3. /\ t \in Seq(T)
      /\ Len(t) = IF 1 <= Len(s) - 1 THEN Len(s) - 1 - 1 + 1 ELSE 0
      /\ \A i \in 1 .. Len(s) - 1 - 1 + 1 : t[i] = s[1 + i - 1]
  BY <1>1, <1>2, SubSeqProperties
<1> HIDE DEF t
<1>4. Len(t) = Len(s) - 1
  <2>1. CASE 1 <= Len(s) - 1
    <3>1. Len(t) = Len(s) - 1 - 1 + 1 BY <1>3, <2>1, Zenon
    <3>2. QED BY <1>2, <3>1, Zenon
  <2>2. CASE ~(1 <= Len(s) - 1)
    <3>1. Len(t) = 0 BY <1>3, <2>2, Zenon
    <3>2. Len(s) \in Nat OBVIOUS
    <3>3. \A k \in Nat : k > 0 /\ ~(1 <= k - 1) => k - 1 = 0 OBVIOUS
    <3>4. QED BY <2>2, <3>1, <3>2, <3>3, Zenon
  <2>3. QED BY <2>1, <2>2
<1>5. ASSUME NEW i \in 1 .. Len(s) - 1 PROVE t[i] = s[i]
  <2>1. i \in 1 .. Len(s) - 1 - 1 + 1 /\ 1 + i - 1 = i BY <1>2
  <2>2. QED BY <1>3, <2>1, Zenon
<1>6. QED BY <1>3, <1>4, <1>5, Zenon DEF t

(* With another last element (Goto).                                       *)
LEMMA MoveIsMoved ==
  ASSUME NEW T, NEW s \in Seq(T), NEW x \in T, Len(s) > 0
  PROVE  /\ [s EXCEPT ![Len(s)] = x] \in Seq(T)
         /\ Len([s EXCEPT ![Len(s)] = x]) = Len(s)
         /\ [s EXCEPT ![Len(s)] = x][Len(s)] = x
         /\ \A i \in 1 .. Len(s) - 1 : [s EXCEPT ![Len(s)] = x][i] = s[i]
OBVIOUS

(* The innermost handler exists when it is somewhere.                      *)
LEMMA TopIsFrame ==
  ASSUME stack \in Seq(Frames), NEW pc, At(pc)
  PROVE  /\ Depth \in Nat /\ Depth > 0 /\ stack # << >> /\ Top = stack[Depth]
         /\ Top \in Frames /\ Top.pc = pc
<1>1. stack # << >> /\ Top.pc = pc BY DEF At
<1>2. Depth \in Nat /\ Depth > 0 BY <1>1 DEF Depth
<1>3. QED BY <1>1, <1>2 DEF Depth, Top

(* Place and datagram of a handler are set together.                       *)
LEMMA FrameFields ==
  ASSUME NEW f \in Frames, NEW pc, NEW d
  PROVE  [[f EXCEPT !.pc = pc] EXCEPT !.held = d] = [ctx |-> f.ctx, pc |-> pc, held |-> d]
<1>1. [f EXCEPT !.pc = pc] = FrameAt(f, pc) BY DEF Frames, FrameAt
<1>2. [FrameAt(f, pc) EXCEPT !.held = d] = [ctx |-> f.ctx, pc |-> pc, held |-> d]
  BY DEF FrameAt
<1>3. QED BY <1>1, <1>2, Zenon

(* A handler that goes on at another place stays the same otherwise.       *)
LEMMA GotoMoves ==
  ASSUME stack \in Seq(Frames), stack # << >>, NEW pc,
         pc \in WorkerPcs \cup {"chain", "check", "copy"}
  PROVE  /\ Goto(pc) => Moved(FrameAt(Top, pc))
         /\ FrameAt(Top, pc) \in Frames
<1>1. Depth \in Nat /\ Depth > 0 /\ Top \in Frames BY DEF Depth, Top
<1>2. FrameAt(Top, pc) \in Frames BY <1>1 DEF Frames, FrameAt
<1>3. [Top EXCEPT !.pc = pc] = FrameAt(Top, pc) BY <1>1 DEF Frames, FrameAt
<1>4. Goto(pc) => stack' = [stack EXCEPT ![Len(stack)] = FrameAt(Top, pc)]
  BY <1>3 DEF Goto, Top
<1>5. QED BY <1>1, <1>2, <1>4, MoveIsMoved DEF Moved, SameBelow, Depth

(* Entering the worker above the handlers in progress: a worker at work is *)
(* not disturbed, and otherwise the new frame is the one saved SS:SP is    *)
(* for.                                                                    *)
LEMMA EnterOnTop ==
  ASSUME stack \in Seq(Frames), NEW ctx \in Contexts, EnterWorker(stack, ctx)
  PROVE  \/ active /\ stack' = stack /\ UNCHANGED <<active, saved>>
         \/ /\ ~ active /\ active' = TRUE /\ saved' = Depth
            /\ Pushed(Frame(ctx, "run"))
<1>1. Frame(ctx, "run") \in Frames BY DEF Frame, Frames, WorkerPcs
<1>2. Append(stack, Frame(ctx, "run")) \in Seq(Frames)
      /\ IsLonger(stack, Frame(ctx, "run"), Append(stack, Frame(ctx, "run")))
  BY <1>1, PushIsPushed, Zenon
<1>3. QED BY <1>2 DEF EnterWorker, Pushed, SameBelow, Depth, IsLonger

(* The timer handler that takes its own frame for the worker.              *)
LEMMA EnterInPlace ==
  ASSUME stack \in Seq(Frames), Depth > 0, NEW ctx \in Contexts,
         EnterWorker(Front(stack), ctx)
  PROVE  \/ active /\ Popped /\ UNCHANGED <<active, saved>>
         \/ /\ ~ active /\ active' = TRUE /\ saved' = Depth - 1
            /\ Moved(Frame(ctx, "run"))
<1> DEFINE rest == SubSeq(stack, 1, Len(stack) - 1)
<1>1. Frame(ctx, "run") \in Frames BY DEF Frame, Frames, WorkerPcs
<1>2. /\ rest \in Seq(Frames) /\ Len(rest) = Depth - 1
      /\ \A i \in 1 .. Depth - 1 : rest[i] = stack[i]
  BY PopIsPopped DEF Depth
<1>3. \/ active /\ stack' = rest /\ UNCHANGED <<active, saved>>
      \/ /\ ~ active /\ active' = TRUE /\ saved' = Len(rest)
         /\ stack' = Append(rest, Frame(ctx, "run"))
  BY Zenon DEF EnterWorker, Front
<1> HIDE DEF rest
<1>4. Depth \in Nat BY DEF Depth
<1>5. CASE stack' = rest
  BY <1>2, <1>3, <1>4, <1>5 DEF Popped, SameBelow, Moved, Depth
<1>6. CASE ~ active
  <2>1. stack' \in Seq(Frames) /\ IsLonger(rest, Frame(ctx, "run"), stack')
    <3>1. stack' = Append(rest, Frame(ctx, "run")) BY <1>3, <1>6
    <3>2. QED BY <1>1, <1>2, <3>1, PushIsPushed, Zenon
  <2>2. Len(rest) + 1 = Depth BY <1>2, <1>4
  <2>3. Moved(Frame(ctx, "run")) BY <1>2, <2>1, <2>2 DEF Moved, SameBelow, IsLonger
  <2>4. QED BY <1>2, <1>3, <1>6, <2>3
<1>7. QED BY <1>3, <1>5, <1>6

(* INT 1Ch inside INT 08h.                                                 *)
LEMMA EnterFromTimer ==
  ASSUME stack \in Seq(Frames), Depth > 0, NEW ctx \in Contexts,
         EnterWorker([stack EXCEPT ![Len(stack)].pc = "check"], ctx)
  PROVE  \/ active /\ Moved(FrameAt(Top, "check")) /\ UNCHANGED <<active, saved>>
         \/ /\ ~ active /\ active' = TRUE /\ saved' = Depth
            /\ Called(FrameAt(Top, "check"), Frame(ctx, "run"))
<1> DEFINE rest == [stack EXCEPT ![Len(stack)] = FrameAt(Top, "check")]
<1>1. Frame(ctx, "run") \in Frames BY DEF Frame, Frames, WorkerPcs
<1>2. Depth \in Nat /\ Top \in Frames BY DEF Depth, Top
<1>3. FrameAt(Top, "check") \in Frames BY <1>2 DEF Frames, FrameAt
<1>4. [Top EXCEPT !.pc = "check"] = FrameAt(Top, "check") BY <1>2 DEF Frames, FrameAt
<1>5. [stack EXCEPT ![Len(stack)].pc = "check"] = rest BY <1>4 DEF Top
<1>6. /\ rest \in Seq(Frames) /\ Len(rest) = Depth
      /\ rest[Depth] = FrameAt(Top, "check")
      /\ \A i \in 1 .. Depth - 1 : rest[i] = stack[i]
  BY <1>3, MoveIsMoved DEF Depth
<1>7. \/ active /\ stack' = rest /\ UNCHANGED <<active, saved>>
      \/ /\ ~ active /\ active' = TRUE /\ saved' = Len(rest)
         /\ stack' = Append(rest, Frame(ctx, "run"))
  BY <1>5, Zenon DEF EnterWorker
<1> HIDE DEF rest
<1>8. CASE active
  BY <1>6, <1>7, <1>8 DEF SameBelow, Moved
<1>9. CASE ~ active
  <2>1. stack' \in Seq(Frames) /\ IsLonger(rest, Frame(ctx, "run"), stack')
    <3>1. stack' = Append(rest, Frame(ctx, "run")) BY <1>7, <1>9
    <3>2. QED BY <1>1, <1>6, <3>1, PushIsPushed, Zenon
  <2>2. SameBelow(Depth - 1) /\ stack'[Depth] = FrameAt(Top, "check")
    BY <1>2, <1>6, <2>1 DEF SameBelow, IsLonger
  <2>3. QED BY <1>6, <1>7, <1>9, <2>1, <2>2 DEF Called, IsLonger
<1>10. QED BY <1>8, <1>9

----------------------------------------------------------------------------
(* StackInv, one lemma per action that touches the stack or the buffer.    *)

\* What the handler at depth i relies on is not changed.
Steady(i) ==
  /\ InWorker(stack[i]) => UNCHANGED <<active, saved, enabled>>
  /\ stack[i].pc = "copy" => ~ ready'
  /\ stack[i].pc = "handle" => UNCHANGED <<ready, buffer, transfer, critical>>

\* What StackInv says besides its frames.
Rest ==
  /\ active => saved + 1 \in 1 .. Len(stack) /\ InWorker(stack[saved + 1])
  /\ ready => buffer \in Datagram

(* A handler below the change keeps what holds of it.                      *)
LEMMA BelowKeeps ==
  ASSUME NEW i \in 1 .. Len(stack), FrameInv(i), stack'[i] = stack[i], Steady(i),
         stack[i].pc = "copy" =>
           \A j \in 1 .. Len(stack') : stack'[j].pc = "copy" => j = i
  PROVE  FrameInv(i)'
BY DEF FrameInv, InWorker, Dispatchable, Steady

(* The depth of the stack.                                                 *)
LEMMA DepthBound ==
  ASSUME StackInv
  PROVE  Depth \in Nat /\ Depth <= MaxNest + 1 /\ MaxNest \in Nat
BY ResidentAssumption DEF StackInv, Depth

(* A new handler on top.                                                   *)
LEMMA PushKeeps ==
  ASSUME StackInv, NEW f, Pushed(f), Depth <= MaxNest,
         \A i \in 1 .. Depth : Steady(i) /\ (f.pc = "copy" => stack[i].pc # "copy"),
         FrameInv(Depth)', Rest'
  PROVE  StackInv'
<1>1. Depth \in Nat /\ Depth + 1 <= MaxNest + 1 /\ Depth' = Depth + 1
  BY DepthBound DEF Pushed, Depth
<1>2. ASSUME NEW i \in 1 .. Len(stack') PROVE FrameInv(i)'
  <2>1. CASE i = Depth + 1
    BY <1>1, <2>1 DEF FrameInv
  <2>2. CASE i # Depth + 1
    <3>1. i \in 1 .. Len(stack) /\ stack'[i] = stack[i] /\ FrameInv(i) /\ Steady(i)
      BY <1>1, <2>2 DEF Pushed, SameBelow, Depth, StackInv
    <3>2. stack[i].pc = "copy" =>
            \A j \in 1 .. Len(stack') : stack'[j].pc = "copy" => j = i
      BY <1>1, <3>1 DEF Pushed, SameBelow, Depth, FrameInv
    <3>3. QED BY <3>1, <3>2, BelowKeeps
  <2>3. QED BY <2>1, <2>2
<1>3. stack' \in Seq(Frames) /\ Len(stack') <= MaxNest + 1 BY <1>1 DEF Pushed
<1>4. QED BY <1>2, <1>3 DEF StackInv, Rest

(* The innermost handler gone.                                             *)
LEMMA PopKeeps ==
  ASSUME StackInv, Popped, Depth > 0, \A i \in 1 .. Depth - 1 : Steady(i), Rest'
  PROVE  StackInv'
<1>1. Depth \in Nat /\ Depth - 1 <= MaxNest + 1 BY DepthBound
<1>2. ASSUME NEW i \in 1 .. Len(stack') PROVE FrameInv(i)'
  <2>1. i \in 1 .. Len(stack) /\ stack'[i] = stack[i] /\ FrameInv(i) /\ Steady(i)
    BY <1>1 DEF Popped, SameBelow, Depth, StackInv
  <2>2. stack[i].pc = "copy" =>
          \A j \in 1 .. Len(stack') : stack'[j].pc = "copy" => j = i
    BY <1>1, <2>1 DEF Popped, SameBelow, Depth, FrameInv
  <2>3. QED BY <2>1, <2>2, BelowKeeps
<1>3. stack' \in Seq(Frames) /\ Len(stack') <= MaxNest + 1 BY <1>1 DEF Popped
<1>4. QED BY <1>2, <1>3 DEF StackInv, Rest

(* The innermost handler goes on.                                          *)
LEMMA MoveKeeps ==
  ASSUME StackInv, NEW f, Moved(f), Depth > 0, f.pc # "copy",
         \A i \in 1 .. Depth - 1 : Steady(i), FrameInv(Depth)', Rest'
  PROVE  StackInv'
<1>1. Depth \in Nat /\ Depth <= MaxNest + 1 /\ Depth' = Depth
  BY DepthBound DEF Moved, Depth
<1>2. ASSUME NEW i \in 1 .. Len(stack') PROVE FrameInv(i)'
  <2>1. CASE i = Depth
    BY <1>1, <2>1 DEF FrameInv
  <2>2. CASE i # Depth
    <3>1. i \in 1 .. Len(stack) /\ stack'[i] = stack[i] /\ FrameInv(i) /\ Steady(i)
      BY <1>1, <2>2 DEF Moved, SameBelow, Depth, StackInv
    <3>2. stack[i].pc = "copy" =>
            \A j \in 1 .. Len(stack') : stack'[j].pc = "copy" => j = i
      BY <1>1, <3>1 DEF Moved, SameBelow, Depth, FrameInv
    <3>3. QED BY <3>1, <3>2, BelowKeeps
  <2>3. QED BY <2>1, <2>2
<1>3. stack' \in Seq(Frames) /\ Len(stack') <= MaxNest + 1 BY <1>1 DEF Moved
<1>4. QED BY <1>2, <1>3 DEF StackInv, Rest

(* The innermost handler goes on below a new one.                          *)
LEMMA CallKeeps ==
  ASSUME StackInv, NEW f, NEW g, Called(f, g), Depth > 0, Depth <= MaxNest,
         f.pc # "copy", g.pc # "copy",
         \A i \in 1 .. Depth - 1 : Steady(i), FrameInv(Depth - 1)', FrameInv(Depth)', Rest'
  PROVE  StackInv'
<1>1. Depth \in Nat /\ Depth + 1 <= MaxNest + 1 /\ Depth' = Depth + 1
  BY DepthBound DEF Called, Depth
<1>2. ASSUME NEW i \in 1 .. Len(stack') PROVE FrameInv(i)'
  <2>1. CASE i \in {Depth, Depth + 1}
    BY <1>1, <2>1 DEF FrameInv
  <2>2. CASE i \notin {Depth, Depth + 1}
    <3>1. i \in 1 .. Len(stack) /\ stack'[i] = stack[i] /\ FrameInv(i) /\ Steady(i)
      BY <1>1, <2>2 DEF Called, SameBelow, Depth, StackInv
    <3>2. stack[i].pc = "copy" =>
            \A j \in 1 .. Len(stack') : stack'[j].pc = "copy" => j = i
      BY <1>1, <3>1 DEF Called, SameBelow, Depth, FrameInv
    <3>3. QED BY <3>1, <3>2, BelowKeeps
  <2>3. QED BY <2>1, <2>2
<1>3. stack' \in Seq(Frames) /\ Len(stack') <= MaxNest + 1 BY <1>1 DEF Called
<1>4. QED BY <1>2, <1>3 DEF StackInv, Rest

(* The handler at work is the innermost one, and the only worker.          *)
LEMMA TopWorker ==
  ASSUME StackInv, NEW pc \in WorkerPcs, At(pc)
  PROVE  /\ Depth \in Nat /\ Depth > 0 /\ stack # << >> /\ Top \in Frames /\ Top.pc = pc
         /\ Top = stack[Depth] /\ FrameInv(Depth)
         /\ active /\ saved = Depth - 1
         /\ \A i \in 1 .. Depth - 1 : ~ InWorker(stack[i]) /\ FrameInv(i)
<1>1. /\ Depth \in Nat /\ Depth > 0 /\ stack # << >> /\ Top \in Frames /\ Top.pc = pc
      /\ Top = stack[Depth]
  BY TopIsFrame DEF StackInv
<1>2. \A i \in 1 .. Depth : FrameInv(i) BY DEF StackInv, Depth
<1>3. InWorker(Top) BY <1>1 DEF InWorker, WorkerPcs
<1>4. active /\ saved = Depth - 1 BY <1>1, <1>2, <1>3 DEF FrameInv
<1>5. ASSUME NEW i \in 1 .. Depth - 1 PROVE ~ InWorker(stack[i])
  BY <1>1, <1>2, <1>4 DEF FrameInv
<1>6. QED BY <1>1, <1>2, <1>4, <1>5

(* Interrupt handlers and upcalls at their first and last step.            *)
LEMMA TopHandler ==
  ASSUME StackInv, NEW pc \in {"chain", "check", "copy"}, At(pc)
  PROVE  /\ Depth \in Nat /\ Depth > 0 /\ stack # << >> /\ Top \in Frames /\ Top.pc = pc
         /\ Top = stack[Depth] /\ FrameInv(Depth) /\ ~ InWorker(stack[Depth])
         /\ Depth <= MaxNest
         /\ active => saved + 1 \in 1 .. Depth - 1 /\ InWorker(stack[saved + 1])
         /\ \A i \in 1 .. Depth : FrameInv(i)
<1>1. /\ Depth \in Nat /\ Depth > 0 /\ stack # << >> /\ Top \in Frames /\ Top.pc = pc
      /\ Top = stack[Depth]
  BY TopIsFrame DEF StackInv
<1>2. \A i \in 1 .. Depth : FrameInv(i) BY DEF StackInv, Depth
<1>3. ~ InWorker(stack[Depth]) BY <1>1 DEF InWorker
<1>4. Depth <= MaxNest BY <1>1, <1>2 DEF FrameInv
<1>5. active => saved + 1 \in 1 .. Depth /\ InWorker(stack[saved + 1])
  BY DEF StackInv, Depth
<1>6. active => saved + 1 # Depth BY <1>3, <1>5
<1>7. active => saved + 1 \in 1 .. Depth - 1 BY <1>1, <1>5, <1>6
<1>8. QED BY <1>1, <1>2, <1>3, <1>4, <1>5, <1>7

\* What handlers that only chain leave alone.
Around == <<ready, buffer, enabled, transfer, critical>>

(* Without a change around it, a handler is steady if the worker is.       *)
LEMMA SteadyAround ==
  ASSUME StackInv, UNCHANGED Around, UNCHANGED <<active, saved>> \/ ~ active
  PROVE  \A i \in 1 .. Depth : Steady(i)
BY DEF StackInv, FrameInv, Steady, Around, Depth

(* INT 08h on top of what was interrupted (ratsr_timer_handler).           *)
LEMMA Int08Keeps ==
  ASSUME StackInv, Int08
  PROVE  StackInv'
<1> DEFINE f == Frame("int08", "chain")
<1>1. f \in Frames /\ f.pc = "chain" BY DEF Frame, Frames, Contexts
<1>2. Depth \in Nat /\ Depth < MaxNest /\ MaxNest \in Nat
  BY DepthBound DEF Int08, RoomToNest, Depth
<1>3. stack' = Append(stack, f) BY DEF Int08
<1> HIDE DEF f
<1>4. Pushed(f)
  <2>1. IsLonger(stack, f, stack') /\ stack' \in Seq(Frames)
    BY <1>1, <1>3, PushIsPushed, Zenon DEF StackInv
  <2>2. QED BY <2>1 DEF Pushed, SameBelow, IsLonger, Depth
<1>5. UNCHANGED Around /\ UNCHANGED <<active, saved>>
  BY DEF Int08, Around, driverVars, workVars, dosVars
<1>6. FrameInv(Depth)' BY <1>1, <1>2, <1>4 DEF FrameInv, InWorker, Pushed, Depth
<1>7. Rest' BY <1>2, <1>4, <1>5 DEF StackInv, Rest, Pushed, SameBelow, Depth, Around, InWorker
<1>8. QED BY <1>1, <1>2, <1>4, <1>5, <1>6, <1>7, SteadyAround, PushKeeps

(* A worker entered on top, from INT 1Ch or INT 28h.                       *)
LEMMA EnterKeeps ==
  ASSUME StackInv, NEW ctx \in Contexts, RoomToNest, EnterWorker(stack, ctx),
         UNCHANGED Around
  PROVE  StackInv'
<1> DEFINE f == Frame(ctx, "run")
<1>1. f.pc = "run" BY DEF Frame
<1>2. Depth \in Nat /\ Depth < MaxNest /\ MaxNest \in Nat
  BY DepthBound DEF RoomToNest, Depth
<1> HIDE DEF f
<1>3. CASE active /\ stack' = stack /\ UNCHANGED <<active, saved>>
  BY <1>3 DEF StackInv, FrameInv, InWorker, Dispatchable, Around
<1>4. CASE ~ active /\ active' = TRUE /\ saved' = Depth /\ Pushed(f)
  <2>1. FrameInv(Depth)' BY <1>1, <1>2, <1>4 DEF FrameInv, InWorker, Pushed, Depth
  <2>2. Rest' BY <1>1, <1>2, <1>4 DEF StackInv, Rest, Pushed, Depth, Around, InWorker
  <2>3. QED BY <1>1, <1>2, <1>4, <2>1, <2>2, SteadyAround, PushKeeps
<1>5. QED BY <1>3, <1>4, EnterOnTop DEF f, StackInv

(* INT 1Ch inside the chained INT 08h, taken or bypassed.                  *)
LEMMA ChainKeeps ==
  ASSUME StackInv, Int1cFromInt08 \/ Int1cBypassed
  PROVE  StackInv'
<1>1. /\ Depth \in Nat /\ Depth > 0 /\ stack # << >> /\ Depth <= MaxNest
      /\ active => saved + 1 \in 1 .. Depth - 1 /\ InWorker(stack[saved + 1])
  BY TopHandler DEF Int1cFromInt08, Int1cBypassed
<1>2. UNCHANGED Around
  BY DEF Int1cFromInt08, Int1cBypassed, Around, driverVars, workVars, dosVars
<1> DEFINE f == FrameAt(Top, "check")
           g == Frame("int1c", "run")
<1>3. f.pc = "check" /\ g.pc = "run" BY DEF FrameAt, Frame
<1> HIDE DEF f, g
<1>4. CASE Moved(f) /\ UNCHANGED <<active, saved>>
  <2>1. FrameInv(Depth)' BY <1>1, <1>3, <1>4 DEF FrameInv, InWorker, Moved, Depth
  <2>2. Rest'
    BY <1>1, <1>2, <1>4 DEF StackInv, Rest, Moved, SameBelow, Depth, Around, InWorker
  <2>3. \A i \in 1 .. Depth - 1 : Steady(i) BY <1>1, <1>2, <1>4, SteadyAround
  <2>4. QED BY <1>1, <1>3, <1>4, <2>1, <2>2, <2>3, MoveKeeps
<1>5. CASE ~ active /\ active' = TRUE /\ saved' = Depth /\ Called(f, g)
  <2>1. Depth' = Depth + 1 BY <1>5 DEF Called, Depth
  <2>2. FrameInv(Depth)'
    BY <1>1, <1>3, <1>5, <2>1 DEF FrameInv, InWorker, Called, Depth
  <2>3. FrameInv(Depth - 1)'
    BY <1>1, <1>3, <1>5, <2>1 DEF FrameInv, InWorker, Called, Depth
  <2>4. Rest'
    BY <1>1, <1>2, <1>3, <1>5 DEF StackInv, Rest, Called, Depth, Around, InWorker
  <2>5. \A i \in 1 .. Depth - 1 : Steady(i) BY <1>1, <1>2, <1>5, SteadyAround
  <2>6. QED BY <1>1, <1>3, <1>5, <2>2, <2>3, <2>4, <2>5, CallKeeps
<1>6. CASE Int1cFromInt08
  <2>1. EnterWorker([stack EXCEPT ![Len(stack)].pc = "check"], "int1c")
    BY <1>6 DEF Int1cFromInt08
  <2>2. "int1c" \in Contexts BY DEF Contexts
  <2>3. QED BY <1>1, <1>4, <1>5, <2>1, <2>2, EnterFromTimer DEF f, g, StackInv
<1>7. CASE Int1cBypassed
  <2>1. Goto("check") /\ UNCHANGED <<active, saved>> BY <1>7 DEF Int1cBypassed
  <2>2. QED BY <1>1, <1>4, <2>1, GotoMoves DEF f, StackInv
<1>8. QED BY <1>6, <1>7

(* The end of INT 08h: the fallback worker, or back to what was            *)
(* interrupted.                                                            *)
LEMMA ReturnKeeps ==
  ASSUME StackInv, Int08Return
  PROVE  StackInv'
<1>1. /\ Depth \in Nat /\ Depth > 0 /\ stack # << >> /\ Depth <= MaxNest
      /\ active => saved + 1 \in 1 .. Depth - 1 /\ InWorker(stack[saved + 1])
  BY TopHandler DEF Int08Return
<1>2. UNCHANGED Around
  BY DEF Int08Return, Around, driverVars, workVars, dosVars
<1> DEFINE f == Frame("int08", "run")
<1>3. f.pc = "run" BY DEF Frame
<1> HIDE DEF f
<1>4. CASE Popped /\ UNCHANGED <<active, saved>>
  <2>1. Rest'
    BY <1>1, <1>2, <1>4 DEF StackInv, Rest, Popped, SameBelow, Depth, Around, InWorker
  <2>2. \A i \in 1 .. Depth - 1 : Steady(i) BY <1>1, <1>2, <1>4, SteadyAround
  <2>3. QED BY <1>1, <1>4, <2>1, <2>2, PopKeeps
<1>5. CASE ~ active /\ active' = TRUE /\ saved' = Depth - 1 /\ Moved(f)
  <2>1. FrameInv(Depth)' BY <1>1, <1>3, <1>5 DEF FrameInv, InWorker, Moved, Depth
  <2>2. Rest'
    BY <1>1, <1>2, <1>3, <1>5 DEF StackInv, Rest, Moved, Depth, Around, InWorker
  <2>3. \A i \in 1 .. Depth - 1 : Steady(i) BY <1>1, <1>2, <1>5, SteadyAround
  <2>4. QED BY <1>1, <1>3, <1>5, <2>1, <2>2, <2>3, MoveKeeps
<1>6. CASE entries # before
  <2>1. stack' = SubSeq(stack, 1, Len(stack) - 1) /\ UNCHANGED <<active, saved>>
    BY <1>6, Zenon DEF Int08Return, Front
  <2>2. Popped BY <1>1, <2>1, PopIsPopped DEF StackInv, Popped, SameBelow, Depth
  <2>3. QED BY <1>4, <2>1, <2>2
<1>7. CASE ~ (entries # before)
  <2>1. EnterWorker(Front(stack), "int08") BY <1>7 DEF Int08Return
  <2>2. "int08" \in Contexts BY DEF Contexts
  <2>3. QED BY <1>1, <1>4, <1>5, <2>1, <2>2, EnterInPlace DEF f, StackInv
<1>8. QED BY <1>6, <1>7

(* The worker leaves to the code it interrupted.                           *)
LEMMA LeaveKeeps ==
  ASSUME StackInv, LeaveWorker
  PROVE  StackInv'
<1>1. "leave" \in WorkerPcs BY DEF WorkerPcs
<1>2. /\ Depth \in Nat /\ Depth > 0 /\ saved = Depth - 1
      /\ \A i \in 1 .. Depth - 1 : ~ InWorker(stack[i]) /\ FrameInv(i)
  BY <1>1, TopWorker DEF LeaveWorker
<1>3. stack' = SubSeq(stack, 1, Len(stack) - 1)
  BY <1>2, Zenon DEF LeaveWorker, Depth
<1>4. Popped BY <1>2, <1>3, PopIsPopped DEF StackInv, Popped, SameBelow, Depth
<1>5. UNCHANGED Around /\ ~ active'
  BY DEF LeaveWorker, Around, driverVars, workVars, dosVars
<1>6. Rest' BY <1>5 DEF StackInv, Rest, Around
<1>7. \A i \in 1 .. Depth - 1 : Steady(i)
  BY <1>2, <1>5 DEF Steady, FrameInv, Around, InWorker
<1>8. QED BY <1>2, <1>4, <1>6, <1>7, PopKeeps

(* The packet driver asks for the buffer (AX=0).                           *)
LEMMA AllocateKeeps ==
  ASSUME StackInv, NEW d \in Datagram, RxAllocate(d)
  PROVE  StackInv'
<1> DEFINE f == [ctx |-> "rx", pc |-> "copy", held |-> d]
<1>1. f \in Frames /\ f.pc = "copy" /\ f.held = d BY DEF Frames, Contexts
<1>2. Depth \in Nat /\ Depth < MaxNest /\ MaxNest \in Nat
  BY DepthBound DEF RxAllocate, RoomToNest, Depth
<1>3. stack' = Append(stack, f) BY DEF RxAllocate
<1> HIDE DEF f
<1>4. Pushed(f)
  <2>1. IsLonger(stack, f, stack') /\ stack' \in Seq(Frames)
    BY <1>1, <1>3, PushIsPushed, Zenon DEF StackInv
  <2>2. QED BY <2>1 DEF Pushed, SameBelow, IsLonger, Depth
<1>5. /\ ~ ready /\ ~ ready' /\ UNCHANGED <<active, saved, enabled, transfer, critical>>
      /\ \A i \in 1 .. Depth : stack[i].pc # "copy"
  BY DEF RxAllocate, Copying, StackInv, Depth, workVars, dosVars
<1>6. \A i \in 1 .. Depth : Steady(i)
  BY <1>5 DEF StackInv, FrameInv, Steady, Depth
<1>7. FrameInv(Depth)'
  BY <1>1, <1>2, <1>4, <1>5 DEF FrameInv, InWorker, Pushed, SameBelow, Depth
<1>8. Rest' BY <1>2, <1>4, <1>5 DEF StackInv, Rest, Pushed, SameBelow, Depth, InWorker
<1>9. QED BY <1>1, <1>2, <1>4, <1>5, <1>6, <1>7, <1>8, PushKeeps

(* The frame is complete (AX=1).                                           *)
LEMMA CompleteKeeps ==
  ASSUME StackInv, RxComplete
  PROVE  StackInv'
<1>1. /\ Depth \in Nat /\ Depth > 0 /\ Top = stack[Depth] /\ Top.pc = "copy"
      /\ active => saved + 1 \in 1 .. Depth - 1 /\ InWorker(stack[saved + 1])
      /\ \A i \in 1 .. Depth : FrameInv(i)
  BY TopHandler DEF RxComplete
<1>2. FrameInv(Depth) BY <1>1
<1>3. /\ ~ ready /\ Top.held \in Datagram
      /\ \A i \in 1 .. Depth - 1 : stack[i].pc # "copy" /\ stack[i].pc # "handle"
  BY <1>1, <1>2 DEF FrameInv, Depth
<1>4. stack' = SubSeq(stack, 1, Len(stack) - 1) /\ buffer' = Top.held
      /\ UNCHANGED <<active, saved, enabled, transfer, critical>>
  BY Zenon DEF RxComplete, Front, workVars, dosVars
<1>5. Popped BY <1>1, <1>4, PopIsPopped DEF StackInv, Popped, SameBelow, Depth
<1>6. \A i \in 1 .. Depth - 1 : Steady(i) BY <1>3, <1>4 DEF Steady
<1>7. Rest'
  BY <1>1, <1>3, <1>4, <1>5 DEF StackInv, Rest, Popped, SameBelow, Depth, InWorker
<1>8. QED BY <1>1, <1>5, <1>6, <1>7, PopKeeps

(* A step of the worker changes only its own frame.                        *)
LEMMA WorkerKeeps ==
  ASSUME StackInv, NEW pc \in WorkerPcs, At(pc), NEW f, Moved(f), f.pc \in WorkerPcs,
         UNCHANGED <<active, saved, enabled>>,
         ready' => ready /\ buffer' = buffer,
         ~ enabled => f.pc \in {"run", "leave"},
         f.pc = "handle" =>
           ready /\ buffer = f.held /\ Dispatchable(f)
           /\ UNCHANGED <<ready, buffer, transfer, critical>>
  PROVE  StackInv'
<1>1. /\ Depth \in Nat /\ Depth > 0 /\ active /\ saved = Depth - 1
      /\ \A i \in 1 .. Depth - 1 : ~ InWorker(stack[i]) /\ FrameInv(i)
  BY TopWorker
<1>2. \A i \in 1 .. Depth - 1 : Steady(i)
  BY <1>1 DEF Steady, FrameInv, InWorker
<1>3. InWorker(f) /\ f.pc \notin {"chain", "check", "copy"} BY DEF InWorker, WorkerPcs
<1>4. FrameInv(Depth)'
  BY <1>1, <1>3 DEF FrameInv, Dispatchable, InWorker, Moved, Depth
<1>5. Rest' BY <1>1, <1>3 DEF StackInv, Rest, Moved, Depth, InWorker
<1>6. QED BY <1>1, <1>2, <1>3, <1>4, <1>5, MoveKeeps

(* The four steps of ratsr_idle_worker.                                    *)
LEMMA RunKeeps ==
  ASSUME StackInv, WorkerRun
  PROVE  StackInv'
<1>1. "run" \in WorkerPcs /\ "leave" \in WorkerPcs /\ "poll" \in WorkerPcs
  BY DEF WorkerPcs
<1>2. At("run") /\ UNCHANGED <<active, saved, enabled, ready, buffer>>
  BY DEF WorkerRun, driverVars, workVars
<1>3. \E pc \in {"leave", "poll"} : Goto(pc) /\ (~ enabled => pc = "leave")
  BY DEF WorkerRun
<1>4. PICK pc \in {"leave", "poll"} : Goto(pc) /\ (~ enabled => pc = "leave")
  BY <1>3
<1>5. stack # << >> BY <1>1, <1>2, TopWorker
<1>6. Moved(FrameAt(Top, pc)) BY <1>1, <1>4, <1>5, GotoMoves DEF StackInv
<1>7. FrameAt(Top, pc).pc = pc BY DEF FrameAt
<1>8. QED BY <1>1, <1>2, <1>4, <1>6, <1>7, WorkerKeeps

(* A frame is taken from the buffer only if it need not wait for DOS.      *)
LEMMA PollKeeps ==
  ASSUME StackInv, WorkerPoll
  PROVE  StackInv'
<1>1. "poll" \in WorkerPcs /\ "leave" \in WorkerPcs /\ "release" \in WorkerPcs
      /\ "handle" \in WorkerPcs
  BY DEF WorkerPcs
<1>2. At("poll") /\ UNCHANGED <<active, saved, enabled, ready, buffer, transfer, critical>>
  BY DEF WorkerPoll, driverVars, workVars, dosVars
<1>3. /\ Depth \in Nat /\ Depth > 0 /\ stack # << >> /\ Top \in Frames /\ Top = stack[Depth]
      /\ Top.pc = "poll" /\ FrameInv(Depth)
  BY <1>1, <1>2, TopWorker
<1>4. enabled BY <1>3 DEF FrameInv, InWorker
<1>5. ASSUME NEW pc \in {"leave", "release"}, Goto(pc) PROVE StackInv'
  <2>1. Moved(FrameAt(Top, pc)) BY <1>1, <1>3, <1>5, GotoMoves DEF StackInv
  <2>2. FrameAt(Top, pc).pc = pc BY DEF FrameAt
  <2>3. QED BY <1>1, <1>2, <1>4, <2>1, <2>2, WorkerKeeps
<1>6. ASSUME ready, ~ Deferred(buffer),
             stack' = [stack EXCEPT ![Len(stack)].pc = "handle", ![Len(stack)].held = buffer]
      PROVE  StackInv'
  <2> DEFINE f == [ctx |-> Top.ctx, pc |-> "handle", held |-> buffer]
  <2>1. f \in Frames BY <1>1, <1>3, <1>6 DEF StackInv, Frames
  <2>2. [[Top EXCEPT !.pc = "handle"] EXCEPT !.held = buffer] = f BY <1>3, FrameFields
  <2>3. stack' = [stack EXCEPT ![Len(stack)] = f] BY <1>3, <1>6, <2>2 DEF StackInv, Depth
  <2>4. Dispatchable(f)
    BY <1>6 DEF Dispatchable, Deferred, MayUseDos, DosIdle
  <2>5. f.pc = "handle" /\ f.held = buffer OBVIOUS
  <2> HIDE DEF f
  <2>6. Moved(f) BY <1>3, <2>1, <2>3, MoveIsMoved DEF StackInv, Moved, SameBelow, Depth
  <2>7. QED BY <1>1, <1>2, <1>4, <1>6, <2>4, <2>5, <2>6, WorkerKeeps
<1>7. QED BY <1>5, <1>6 DEF WorkerPoll

(* process_datagram; then dm_net_release.                                  *)
LEMMA HandleKeeps ==
  ASSUME StackInv, WorkerHandle \/ WorkerRelease
  PROVE  StackInv'
<1>1. "handle" \in WorkerPcs /\ "release" \in WorkerPcs /\ "leave" \in WorkerPcs
  BY DEF WorkerPcs
<1>2. CASE WorkerHandle
  <2>1. At("handle") /\ Goto("release") /\ UNCHANGED <<active, saved, enabled, ready, buffer>>
    BY <1>2 DEF WorkerHandle, driverVars, workVars
  <2>2. stack # << >> /\ FrameInv(Depth) /\ Top = stack[Depth] /\ Top.pc = "handle"
    BY <1>1, <2>1, TopWorker
  <2>3. enabled BY <2>2 DEF FrameInv, InWorker
  <2>4. Moved(FrameAt(Top, "release")) BY <1>1, <2>1, <2>2, GotoMoves DEF StackInv
  <2>5. FrameAt(Top, "release").pc = "release" BY DEF FrameAt
  <2>6. QED BY <1>1, <2>1, <2>3, <2>4, <2>5, WorkerKeeps
<1>3. CASE WorkerRelease
  <2>1. At("release") /\ ~ ready' /\ UNCHANGED <<active, saved, enabled>>
    BY <1>3 DEF WorkerRelease, workVars
  <2>2. /\ Depth \in Nat /\ Depth > 0 /\ Top \in Frames /\ Top = stack[Depth]
    BY <1>1, <2>1, TopWorker
  <2> DEFINE f == [ctx |-> Top.ctx, pc |-> "leave", held |-> NoFrame]
  <2>3. f \in Frames BY <1>1, <2>2 DEF Frames
  <2>4. [[Top EXCEPT !.pc = "leave"] EXCEPT !.held = NoFrame] = f BY <2>2, FrameFields
  <2>5. stack' = [stack EXCEPT ![Len(stack)] = f]
    BY <1>3, <2>2, <2>4 DEF WorkerRelease, StackInv, Depth
  <2>6. f.pc = "leave" OBVIOUS
  <2> HIDE DEF f
  <2>7. Moved(f) BY <2>2, <2>3, <2>5, MoveIsMoved DEF StackInv, Moved, SameBelow, Depth
  <2>8. QED BY <1>1, <2>1, <2>6, <2>7, WorkerKeeps
<1>4. QED BY <1>2, <1>3

\* What the program below does while no handler is in progress.
Below == CriticalError \/ SetVector \/ OtherTsr \/ Unloader

(* Nothing is in progress while the program below acts.                    *)
LEMMA BelowIsForeground ==
  ASSUME Below
  PROVE  /\ stack = << >> /\ UNCHANGED <<stack, active, saved, entries, before>>
         /\ UNCHANGED <<ready, buffer, ticks, session, toSend, helloPending, transfer, unsafeDos>>
BY DEF Below, Unloader, CriticalError, SetVector, OtherTsr, UnloadCheck, UnloadPrepare,
       UnloadHandles, UnloadVector, UnloadFree, Foreground, hookVars, driverVars, workVars

(* Every step keeps StackInv.                                              *)
LEMMA StackStep ==
  ASSUME StackInv, [Next]_vars
  PROVE  StackInv'
<1>1. "int1c" \in Contexts /\ "int28" \in Contexts BY DEF Contexts
<1>2. CASE Int1c
  <2>1. UNCHANGED Around /\ RoomToNest /\ EnterWorker(stack, "int1c")
    BY <1>2 DEF Int1c, Around, driverVars, workVars, dosVars
  <2>2. QED BY <1>1, <2>1, EnterKeeps
<1>3. CASE Int28
  <2>1. UNCHANGED Around /\ RoomToNest /\ EnterWorker(stack, "int28")
    BY <1>3 DEF Int28, Around, driverVars, workVars, dosVars
  <2>2. QED BY <1>1, <2>1, EnterKeeps
<1>4. CASE Below
  <2>1. stack = << >> /\ UNCHANGED <<stack, active, saved, ready, buffer>>
    BY <1>4, BelowIsForeground
  <2>2. Len(stack) = 0 BY <2>1
  <2>3. QED BY <2>1, <2>2, ResidentAssumption DEF StackInv
<1>5. CASE UNCHANGED vars
  BY <1>5 DEF vars, StackInv, FrameInv, InWorker, Dispatchable
<1>6. CASE Handler
  BY <1>6, ChainKeeps, ReturnKeeps, RunKeeps, PollKeeps, HandleKeeps, LeaveKeeps,
     CompleteKeeps DEF Handler
<1>7. QED
  BY <1>2, <1>3, <1>4, <1>5, <1>6, Int08Keeps, AllocateKeeps DEF Next, Below

----------------------------------------------------------------------------
(* Unloading.                                                              *)

(* A worker that handles a datagram is enabled, and nothing is unloaded    *)
(* while a handler is in progress.                                         *)
LEMMA HandlingIsEnabled ==
  ASSUME StackInv, At("handle")
  PROVE  enabled
<1>1. "handle" \in WorkerPcs BY DEF WorkerPcs
<1>2. FrameInv(Depth) /\ Top = stack[Depth] /\ Top.pc = "handle" BY <1>1, TopWorker
<1>3. QED BY <1>2 DEF FrameInv, InWorker

(* Every step keeps UnloadInv.                                             *)
LEMMA UnloadStep ==
  ASSUME StackInv, UnloadInv, [Next]_vars
  PROVE  UnloadInv'
<1> USE DEF UnloadInv
<1>1. CASE Int08 BY <1>1 DEF Int08, driverVars, workVars, dosVars
<1>2. CASE Int1c BY <1>2 DEF Int1c, driverVars, workVars, dosVars
<1>3. CASE Int28 BY <1>3 DEF Int28, driverVars, workVars, dosVars
<1>4. ASSUME NEW d \in Datagram, RxAllocate(d) PROVE UnloadInv'
  BY <1>4 DEF RxAllocate, workVars, dosVars
<1>5. CASE Handler
  <2>1. stack # << >>
    BY <1>5 DEF Handler, Int1cFromInt08, Int1cBypassed, Int08Return, WorkerRun, WorkerPoll,
       WorkerHandle, WorkerRelease, LeaveWorker, RxComplete, At
  <2>2. loader # "freed" /\ UNCHANGED <<vectors, loader, handles, enabled>>
    BY <1>5, <2>1 DEF Handler, Int1cFromInt08, Int1cBypassed, Int08Return, WorkerRun, WorkerPoll,
       WorkerHandle, WorkerRelease, LeaveWorker, RxComplete, driverVars, workVars, dosVars
  <2>3. ~ enabled => transfer' = transfer \/ transfer' = NoTransfer
    <3>1. CASE WorkerRun
      BY <3>1 DEF WorkerRun, workVars
    <3>2. CASE WorkerHandle
      <4>1. enabled BY <3>2, HandlingIsEnabled DEF WorkerHandle
      <4>2. QED BY <4>1
    <3>3. CASE ~ WorkerRun /\ ~ WorkerHandle
      BY <1>5, <3>3 DEF Handler, Int1cFromInt08, Int1cBypassed, Int08Return, WorkerPoll,
         WorkerRelease, LeaveWorker, RxComplete, workVars
    <3>4. QED BY <3>1, <3>2, <3>3
  <2>4. QED BY <2>2, <2>3 DEF NoTransfer
<1>6. CASE CriticalError \/ OtherTsr
  BY <1>6 DEF CriticalError, OtherTsr, hookVars, driverVars, workVars
<1>7. CASE SetVector BY <1>7 DEF SetVector, hookVars, driverVars, workVars
<1>8. CASE UnloadCheck BY <1>8 DEF UnloadCheck, hookVars, driverVars, workVars
<1>9. CASE UnloadPrepare BY <1>9 DEF UnloadPrepare, hookVars, driverVars
<1>10. CASE UnloadHandles BY <1>10 DEF UnloadHandles, hookVars, workVars
<1>11. CASE UnloadVector
  <2>1. PICK n \in 1 .. 4 :
          /\ vectors = {RestoreOrder[k] : k \in n .. 4}
          /\ vectors' = vectors \ {RestoreOrder[n]}
          /\ loader' = IF n = 4 THEN "restored" ELSE loader
    BY <1>11 DEF UnloadVector
  <2>2. n = 4 => vectors' = {} BY <2>1
  <2>3. loader = "released" /\ UNCHANGED <<enabled, transfer, handles, stack>>
    BY <1>11 DEF UnloadVector, hookVars, driverVars, workVars
  <2>4. QED BY <2>1, <2>2, <2>3
<1>12. CASE UnloadFree
  BY <1>12 DEF UnloadFree, Foreground, hookVars, driverVars, workVars
<1>13. CASE UNCHANGED vars BY <1>13 DEF vars
<1>14. QED
  BY <1>1, <1>2, <1>3, <1>4, <1>5, <1>6, <1>7, <1>8, <1>9, <1>10, <1>11, <1>12, <1>13
  DEF Next, Unloader

----------------------------------------------------------------------------
(* DOS.                                                                    *)

(* A request that is carried out calls DOS only if DOS is idle: the        *)
(* decision of the poll still holds, since neither the buffer nor the      *)
(* transfer nor the critical-error flag can have changed since.            *)
LEMMA HandleIsSafe ==
  ASSUME StackInv, ~ CrossEnds, At("handle"), Sensible(buffer), CallsDos(buffer)
  PROVE  MayUseDos
<1>1. "handle" \in WorkerPcs BY DEF WorkerPcs
<1>2. FrameInv(Depth) /\ Top = stack[Depth] /\ Top.pc = "handle" BY <1>1, TopWorker
<1>3. buffer = Top.held /\ Dispatchable(Top) BY <1>2 DEF FrameInv
<1>4. buffer.op \in FileOpcode /\ ~ (buffer.op = "abort" /\ transfer.kind = "graphics")
  BY DEF CallsDos, Sensible, FileOpcode, HoldsFile
<1>5. QED BY <1>3, <1>4 DEF Dispatchable, MayUseDos, DosIdle

(* No step calls DOS at a wrong moment.                                    *)
LEMMA DosStep ==
  ASSUME StackInv, ~ CrossEnds, DosOnlyWhenIdle, [Next]_vars
  PROVE  DosOnlyWhenIdle'
<1>1. CASE WorkerHandle
  <2>1. At("handle") BY <1>1 DEF WorkerHandle
  <2>2. CASE UNCHANGED unsafeDos
    BY <2>2 DEF DosOnlyWhenIdle
  <2>3. CASE Sensible(buffer) /\ unsafeDos' = (unsafeDos \/ (CallsDos(buffer) /\ ~ MayUseDos))
    BY <2>1, <2>3, HandleIsSafe DEF DosOnlyWhenIdle
  <2>4. QED BY <1>1, <2>2, <2>3 DEF WorkerHandle, workVars
<1>2. CASE ~ WorkerHandle
  <2>1. (\E d \in Datagram : RxAllocate(d)) => UNCHANGED unsafeDos
    BY DEF RxAllocate, workVars
  <2>2. Below \/ UNCHANGED vars => UNCHANGED unsafeDos BY BelowIsForeground DEF vars
  <2>3. Int08 \/ Int1c \/ Int28 \/ Handler => UNCHANGED unsafeDos
    BY <1>2 DEF Int08, Int1c, Int28, Handler, Int1cFromInt08, Int1cBypassed, Int08Return,
       WorkerRun, WorkerPoll, WorkerRelease, LeaveWorker, RxComplete, workVars
  <2>4. QED BY <2>1, <2>2, <2>3 DEF Next, Below, DosOnlyWhenIdle
<1>3. QED BY <1>1, <1>2

----------------------------------------------------------------------------
(* Types.                                                                  *)

Kinds == [kind : {"none", "read", "write", "graphics"}]

(* What a request leaves of the transfer is a transfer.                    *)
LEMMA CarriedType ==
  ASSUME NEW d, transfer \in Kinds
  PROVE  Carried(d) \in Kinds
<1>1. NoTransfer \in Kinds /\ [kind |-> "read"] \in Kinds /\ [kind |-> "write"] \in Kinds
      /\ [kind |-> "graphics"] \in Kinds
  BY DEF NoTransfer, Kinds
<1>2. CASE d.op \in {"readBegin", "writeBegin", "graphicsBegin"}
  BY <1>1, <1>2 DEF Carried
<1>3. CASE d.op \in {"readEnd", "graphicsEnd", "commit", "abort"}
  BY <1>1, <1>3 DEF Carried
<1>4. CASE d.op \notin {"readBegin", "writeBegin", "graphicsBegin", "readEnd", "graphicsEnd",
                        "commit", "abort"}
  BY <1>4 DEF Carried
<1>5. QED BY <1>2, <1>3, <1>4

(* Entering a worker saves a depth within the bound.                       *)
LEMMA EnterType ==
  ASSUME TypeRest, StackInv, NEW below, NEW ctx, EnterWorker(below, ctx),
         Len(below) \in 0 .. MaxNest
  PROVE  active' \in BOOLEAN /\ saved' \in 0 .. MaxNest
BY DEF EnterWorker, TypeRest

(* The interrupt handlers.                                                 *)
LEMMA HookType ==
  ASSUME TypeRest, StackInv,
         Int08 \/ Int1c \/ Int28 \/ Int1cFromInt08 \/ Int1cBypassed \/ Int08Return \/ LeaveWorker
  PROVE  TypeRest'
<1>1. Depth \in Nat /\ MaxNest \in Nat BY DepthBound
<1>2. /\ active' \in BOOLEAN /\ saved' \in 0 .. MaxNest
      /\ UNCHANGED <<ready, buffer, handles, enabled, ticks, session, toSend, helloPending,
                     transfer, unsafeDos, critical, vectors, above, loader>>
  <2>1. CASE Int08 \/ Int1cBypassed \/ LeaveWorker
    BY <2>1 DEF Int08, Int1cBypassed, LeaveWorker, TypeRest, driverVars, workVars, dosVars
  <2>2. CASE Int1c \/ Int28
    <3>1. Len(stack) \in 0 .. MaxNest
      BY <1>1, <2>2 DEF Int1c, Int28, RoomToNest, Depth
    <3>2. QED BY <2>2, <3>1, EnterType DEF Int1c, Int28, driverVars, workVars, dosVars
  <2>3. CASE Int1cFromInt08
    <3>1. Depth > 0 /\ Depth <= MaxNest BY <2>3, TopHandler DEF Int1cFromInt08
    <3>2. "int1c" \in Contexts BY DEF Contexts
    <3>3. active' \in BOOLEAN /\ saved' \in 0 .. MaxNest
      <4>1. stack \in Seq(Frames) BY DEF StackInv
      <4>2. EnterWorker([stack EXCEPT ![Len(stack)].pc = "check"], "int1c")
        BY <2>3 DEF Int1cFromInt08
      <4>3. UNCHANGED <<active, saved>> \/ (active' = TRUE /\ saved' = Depth)
        BY <3>1, <3>2, <4>1, <4>2, EnterFromTimer, Zenon
      <4>4. active \in BOOLEAN /\ saved \in 0 .. MaxNest BY DEF TypeRest
      <4>5. Depth \in 0 .. MaxNest BY <1>1, <3>1
      <4>6. QED BY <4>3, <4>4, <4>5, Zenon
    <3>4. QED BY <2>3, <3>3 DEF Int1cFromInt08, driverVars, workVars, dosVars
  <2>4. CASE Int08Return
    <3>1. Depth > 0 /\ Depth <= MaxNest BY <2>4, TopHandler DEF Int08Return
    <3>2. "int08" \in Contexts BY DEF Contexts
    <3>3. active' \in BOOLEAN /\ saved' \in 0 .. MaxNest
      <4>1. CASE EnterWorker(Front(stack), "int08")
        <5>1. stack \in Seq(Frames) BY DEF StackInv
        <5>2. UNCHANGED <<active, saved>> \/ (active' = TRUE /\ saved' = Depth - 1)
          BY <3>1, <3>2, <4>1, <5>1, EnterInPlace, Zenon
        <5>3. active \in BOOLEAN /\ saved \in 0 .. MaxNest BY DEF TypeRest
        <5>4. Depth - 1 \in 0 .. MaxNest BY <1>1, <3>1
        <5>5. QED BY <5>2, <5>3, <5>4, Zenon
      <4>2. CASE UNCHANGED <<active, saved>> BY <4>2 DEF TypeRest
      <4>3. QED BY <2>4, <4>1, <4>2 DEF Int08Return
    <3>4. QED BY <2>4, <3>3 DEF Int08Return, driverVars, workVars, dosVars
  <2>5. QED BY <2>1, <2>2, <2>3, <2>4
<1>3. entries' \in {0, 1} /\ before' \in {0, 1}
  <2>1. (entries + 1) % 2 \in {0, 1} BY DEF TypeRest
  <2>2. QED
    BY <2>1 DEF Int08, Int1c, Int28, Int1cFromInt08, Int1cBypassed, Int08Return, LeaveWorker,
       TypeRest
<1>4. QED BY <1>2, <1>3 DEF TypeRest

(* Ticks, session and answers after a step of the worker.                  *)
LEMMA WorkerType ==
  ASSUME TypeRest, StackInv, WorkerRun \/ WorkerHandle
  PROVE  TypeRest'
<1> DEFINE Sessions == [active : BOOLEAN, id : 0 .. MaxSessions, last : 0 .. TickModulus - 1]
<1>1. UNCHANGED <<active, saved, entries, before, ready, buffer, handles, enabled, critical,
                  vectors, above, loader>>
  BY DEF WorkerRun, WorkerHandle, driverVars, workVars, dosVars
<1>2. ASSUME ticks' \in 0 .. TickModulus - 1, session' \in Sessions,
             toSend' \in 0 .. MaxFrags, helloPending' \in BOOLEAN, transfer' \in Kinds,
             unsafeDos' \in BOOLEAN
      PROVE  TypeRest'
  BY <1>1, <1>2 DEF TypeRest, Kinds
<1>3. /\ ticks \in 0 .. TickModulus - 1 /\ session \in Sessions /\ toSend \in 0 .. MaxFrags
      /\ helloPending \in BOOLEAN /\ transfer \in Kinds /\ unsafeDos \in BOOLEAN
  BY DEF TypeRest, Kinds
<1>4. TickModulus \in Nat /\ TickModulus > 0 /\ MaxFrags \in Nat /\ MaxSessions \in Nat
  BY ResidentAssumption
<1> HIDE DEF Sessions
<1>5. CASE UNCHANGED workVars
  BY <1>2, <1>3, <1>5 DEF workVars
<1>6. CASE WorkerRun /\ ~ UNCHANGED workVars
  <2> DEFINE now == IF DosIdle THEN ticks ELSE (ticks + 1) % TickModulus
  <2>1. now \in 0 .. TickModulus - 1 BY <1>3, <1>4
  <2>2. ticks' = now /\ UNCHANGED unsafeDos BY <1>6 DEF WorkerRun
  <2>3. session' \in Sessions
    <3>1. session' = [session EXCEPT !.active = session.active /\ ~ Expired(now)]
      BY <1>6 DEF WorkerRun
    <3>2. (session.active /\ ~ Expired(now)) \in BOOLEAN OBVIOUS
    <3>3. QED BY <1>3, <3>1, <3>2 DEF Sessions
  <2>4. toSend' \in 0 .. MaxFrags
    <3>1. toSend' = IF Expired(now) \/ toSend = 0 THEN 0 ELSE toSend - 1
      BY <1>6 DEF WorkerRun
    <3>2. QED BY <1>3, <1>4, <3>1
  <2>5. helloPending' \in BOOLEAN BY <1>6 DEF WorkerRun
  <2>6. transfer' \in Kinds
    <3>1. transfer' = transfer \/ transfer' = NoTransfer BY <1>6 DEF WorkerRun
    <3>2. QED BY <1>3, <3>1 DEF NoTransfer, Kinds
  <2>7. QED BY <1>2, <1>3, <2>1, <2>2, <2>3, <2>4, <2>5, <2>6
<1>7. CASE WorkerHandle /\ ~ UNCHANGED workVars
  <2>1. session' \in Sessions
    <3>1. \/ /\ session.id < MaxSessions
             /\ session' = [active |-> TRUE, id |-> session.id + 1, last |-> ticks]
          \/ session' = [session EXCEPT !.last = ticks]
      BY <1>7 DEF WorkerHandle
    <3>2. session.id \in 0 .. MaxSessions BY <1>3 DEF Sessions
    <3>3. session.id < MaxSessions => session.id + 1 \in 0 .. MaxSessions BY <1>4, <3>2
    <3>4. CASE session' = [session EXCEPT !.last = ticks]
      BY <1>3, <3>4 DEF Sessions
    <3>5. CASE /\ session.id < MaxSessions
               /\ session' = [active |-> TRUE, id |-> session.id + 1, last |-> ticks]
      BY <1>3, <3>3, <3>5 DEF Sessions
    <3>6. QED BY <3>1, <3>4, <3>5
  <2>2. toSend' \in 0 .. MaxFrags /\ helloPending' \in BOOLEAN /\ ticks' = ticks
    <3>1. toSend' = toSend \/ toSend' \in 0 .. MaxFrags \/ toSend' \in 1 .. MaxFrags
      BY <1>7 DEF WorkerHandle
    <3>2. helloPending' = helloPending \/ helloPending' = TRUE BY <1>7 DEF WorkerHandle
    <3>3. ticks' = ticks BY <1>7 DEF WorkerHandle
    <3>4. toSend' \in 0 .. MaxFrags BY <1>3, <1>4, <3>1
    <3>5. QED BY <1>3, <3>2, <3>3, <3>4
  <2>3. transfer' \in Kinds
    <3>1. transfer' = transfer \/ transfer' = Carried(buffer) BY <1>7 DEF WorkerHandle
    <3>2. QED BY <1>3, <3>1, CarriedType
  <2>4. unsafeDos' \in BOOLEAN BY <1>3, <1>7 DEF WorkerHandle
  <2>5. QED BY <1>2, <1>3, <2>1, <2>2, <2>3, <2>4
<1>8. QED BY <1>5, <1>6, <1>7

(* What the packet driver hands over is a frame.                           *)
LEMMA DriverType ==
  ASSUME TypeRest, StackInv,
         WorkerPoll \/ WorkerRelease \/ RxComplete \/ \E d \in Datagram : RxAllocate(d)
  PROVE  TypeRest'
<1>1. UNCHANGED <<active, saved, entries, before, handles, enabled, ticks, session, toSend,
                  helloPending, transfer, unsafeDos, critical, vectors, above, loader>>
  BY DEF WorkerPoll, WorkerRelease, RxComplete, RxAllocate, driverVars, workVars, dosVars
<1>2. ready' \in BOOLEAN /\ buffer' \in Datagram \cup {NoFrame}
  <2>1. CASE RxComplete
    <3>1. At("copy") /\ buffer' = Top.held /\ ready' = TRUE BY <2>1 DEF RxComplete
    <3>2. Top = stack[Depth] /\ Top.pc = "copy" /\ Depth \in 1 .. Depth
          /\ \A i \in 1 .. Depth : FrameInv(i)
      BY <3>1, TopHandler
    <3>3. FrameInv(Depth) BY <3>2
    <3>4. QED BY <3>1, <3>2, <3>3 DEF FrameInv
  <2>2. CASE ~ RxComplete
    BY <2>2 DEF WorkerPoll, WorkerRelease, RxAllocate, driverVars, TypeRest
  <2>3. QED BY <2>1, <2>2
<1>3. QED BY <1>1, <1>2 DEF TypeRest

(* The program below and the loader.                                       *)
LEMMA BelowType ==
  ASSUME TypeRest, Below
  PROVE  TypeRest'
<1>1. UNCHANGED <<stack, active, saved, entries, before, ready, buffer, ticks, session, toSend,
                  helloPending, transfer, unsafeDos>>
  BY BelowIsForeground
<1>2. enabled' = enabled \/ enabled' = FALSE
  BY DEF Below, CriticalError, SetVector, OtherTsr, Unloader, UnloadCheck, UnloadPrepare,
         UnloadHandles, UnloadVector, UnloadFree, workVars
<1>3. handles' = handles \/ handles' = FALSE
  BY DEF Below, CriticalError, SetVector, OtherTsr, Unloader, UnloadCheck, UnloadPrepare,
         UnloadHandles, UnloadVector, UnloadFree, driverVars
<1>4. critical' = critical \/ critical' = ~ critical
  BY DEF Below, CriticalError, SetVector, OtherTsr, Unloader, UnloadCheck, UnloadPrepare,
         UnloadHandles, UnloadVector, UnloadFree
<1>5. above' = above \/ above' = ~ above
  BY DEF Below, CriticalError, SetVector, OtherTsr, Unloader, UnloadCheck, UnloadPrepare,
         UnloadHandles, UnloadVector, UnloadFree
<1>6. loader' = loader \/ loader' \in {"installing", "resident", "refused", "checked",
        "prepared", "released", "restored", "stuck", "freed", "leaked"}
  BY DEF Below, CriticalError, SetVector, OtherTsr, Unloader, UnloadCheck, UnloadPrepare,
         UnloadHandles, UnloadVector, UnloadFree
<1>7. vectors' \subseteq {"08", "1c", "28", "2f"}
  <2>1. CASE SetVector
    <3>1. PICK n \in 1 .. 4 : vectors' = vectors \cup {InstallOrder[n]}
      BY <2>1 DEF SetVector
    <3>2. InstallOrder[n] \in {"08", "1c", "28", "2f"} BY DEF InstallOrder
    <3>3. QED BY <3>1, <3>2 DEF TypeRest
  <2>2. CASE UnloadVector
    BY <2>2 DEF UnloadVector, TypeRest
  <2>3. CASE ~ SetVector /\ ~ UnloadVector
    BY <2>3 DEF Below, CriticalError, OtherTsr, Unloader, UnloadCheck, UnloadPrepare,
       UnloadHandles, UnloadFree, TypeRest
  <2>4. QED BY <2>1, <2>2, <2>3
<1>8. enabled \in BOOLEAN /\ handles \in BOOLEAN /\ critical \in BOOLEAN /\ above \in BOOLEAN
  BY DEF TypeRest
<1>9. enabled' \in BOOLEAN /\ handles' \in BOOLEAN /\ critical' \in BOOLEAN /\ above' \in BOOLEAN
  BY <1>2, <1>3, <1>4, <1>5, <1>8, Zenon
<1>10. QED BY <1>1, <1>6, <1>7, <1>9 DEF TypeRest

(* Every step keeps the types.                                             *)
LEMMA TypeStep ==
  ASSUME TypeRest, StackInv, [Next]_vars
  PROVE  TypeRest'
<1>1. CASE UNCHANGED vars BY <1>1 DEF vars, TypeRest
<1>2. QED
  BY <1>1, HookType, WorkerType, DriverType, BelowType DEF Next, Handler, Below

----------------------------------------------------------------------------
(* The invariant, and what follows from it.                                *)

(* AgentInv is inductive.                                                  *)
LEMMA AgentInvariant == Spec => []AgentInv
<1>1. Init => AgentInv
  <2> SUFFICES ASSUME Init PROVE AgentInv OBVIOUS
  <2>1. stack = << >> /\ ~ active /\ ~ ready BY DEF Init
  <2>2. stack \in Seq(Frames) /\ Len(stack) = 0 BY <2>1
  <2>3. StackInv BY <2>1, <2>2, ResidentAssumption DEF StackInv
  <2>4. UnloadInv BY DEF Init, UnloadInv
  <2>5. 0 \in 0 .. TickModulus - 1 /\ 0 \in 0 .. MaxNest /\ 0 \in 0 .. MaxSessions
        /\ 0 \in 0 .. MaxFrags
    BY ResidentAssumption
  <2>6. TypeRest BY <2>5 DEF Init, TypeRest
  <2>7. QED BY <2>3, <2>4, <2>6 DEF AgentInv
<1>2. AgentInv /\ [Next]_vars => AgentInv'
  BY StackStep, UnloadStep, TypeStep DEF AgentInv
<1>3. QED BY <1>1, <1>2, PTL DEF Spec

(* Type correctness, with the bound on the nesting: the guard of RoomToNest*)
(* leaves room for the worker that INT 1Ch starts inside INT 08h.          *)
THEOREM TypesHold == Spec => []TypeOK
<1>1. AgentInv => TypeOK
  <2> SUFFICES ASSUME AgentInv PROVE TypeOK OBVIOUS
  <2>1. stack \in Seq(Frames) /\ Len(stack) <= MaxNest + 1 BY DEF AgentInv, StackInv
  <2>2. \A i \in DOMAIN stack : stack[i] \in Frames BY <2>1
  <2>3. TypeRest BY DEF AgentInv
  <2>4. QED
    BY <2>1, <2>2, <2>3 DEF TypeOK, TypeRest, Frames, Contexts, WorkerPcs
<1>2. QED BY <1>1, AgentInvariant, PTL

(* However the timer, INT 1Ch, INT 28h and the packet driver interrupt each*)
(* other, the worker that leaves the private stack returns to the code it  *)
(* interrupted: idle_active guards the one saved SS:SP.                    *)
THEOREM StackIsRestored == Spec => []OwnStackRestored
<1>1. AgentInv => OwnStackRestored
  <2> SUFFICES ASSUME AgentInv, NEW i \in DOMAIN stack, InWorker(stack[i])
               PROVE  active /\ saved = i - 1
    BY DEF OwnStackRestored
  <2>1. stack \in Seq(Frames) BY DEF AgentInv, StackInv
  <2>2. i \in 1 .. Len(stack) BY <2>1
  <2>3. FrameInv(i) BY <2>2 DEF AgentInv, StackInv
  <2>4. QED BY <2>3 DEF FrameInv
<1>2. QED BY <1>1, AgentInvariant, PTL

(* The frame being processed is not overwritten by the packet driver,      *)
(* whatever arrives while the worker runs with interrupts enabled.         *)
THEOREM FrameStaysIntact == Spec => []BufferIntact
<1>1. AgentInv => BufferIntact
  <2> SUFFICES ASSUME AgentInv, NEW i \in DOMAIN stack, stack[i].pc = "handle"
               PROVE  ready /\ buffer = stack[i].held /\ buffer # NoFrame
    BY DEF BufferIntact
  <2>1. stack \in Seq(Frames) BY DEF AgentInv, StackInv
  <2>2. i \in 1 .. Len(stack) BY <2>1
  <2>3. FrameInv(i) BY <2>2 DEF AgentInv, StackInv
  <2>4. ready /\ buffer = stack[i].held BY <2>3 DEF FrameInv
  <2>5. buffer \in Datagram BY <2>4 DEF AgentInv, StackInv
  <2>6. buffer.op \in Opcode BY <2>5, ResidentAssumption DEF Datagram
  <2>7. buffer # NoFrame BY <2>6 DEF NoFrame, Opcode
  <2>8. QED BY <2>4, <2>7
<1>2. QED BY <1>1, AgentInvariant, PTL

(* DOS is called only from INT 28h with the critical-error flag clear, if  *)
(* no client ends a file read with GRAPHICS_END (the opcode that the worker*)
(* does not hold back; the bridge never does).                             *)
THEOREM DosIsIdle ==
  ASSUME ~ CrossEnds
  PROVE  Spec => []DosOnlyWhenIdle
<1>1. Init => DosOnlyWhenIdle BY DEF Init, DosOnlyWhenIdle
<1>2. AgentInv /\ DosOnlyWhenIdle /\ [Next]_vars => DosOnlyWhenIdle'
  BY DosStep DEF AgentInv
<1>3. QED BY <1>1, <1>2, AgentInvariant, PTL DEF Spec

(* Memory is freed only when nothing leads back into it and no DOS file is *)
(* left open.                                                              *)
THEOREM UnloadsCleanly == Spec => []UnloadIsClean
<1>1. AgentInv => UnloadIsClean
  <2> SUFFICES ASSUME AgentInv, loader = "freed"
               PROVE  /\ vectors = {} /\ ~ handles /\ stack = << >> /\ ~ active
                      /\ transfer.kind = "none"
    BY DEF UnloadIsClean
  <2>1. vectors = {} /\ ~ handles /\ stack = << >> /\ transfer.kind = "none"
    BY DEF AgentInv, UnloadInv
  <2>2. Len(stack) = 0 BY <2>1
  <2>3. ~ active BY <2>2 DEF AgentInv, StackInv
  <2>4. QED BY <2>1, <2>3
<1>2. QED BY <1>1, AgentInvariant, PTL
============================================================================
