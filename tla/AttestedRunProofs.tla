-------------------------- MODULE AttestedRunProofs --------------------------
(***************************************************************************)
(* What holds of the modules that the whole verifier admits (AttestedRun): *)
(* all that ChunkRunProofs proves of those which pass the checks of Flow,  *)
(* and that a limit loop traps only when its range is longer than its cap. *)
(*                                                                         *)
(* The latter is an argument about the code the compiler emits behind the  *)
(* loop.  Its 24 instructions are entered at the first one only, so each   *)
(* has a claim on the operands and on the loop's three locals that every   *)
(* way to it establishes, whatever the loop's body has done.               *)
(***************************************************************************)
EXTENDS AttestedRun, ChunkRunProofs

\* The position a frame comes back to.
Resumes(m, f, o) == f.ip > 0 /\ At(m[f.chunk], f.ip - 1).o = o

\* A frame below the top stands behind its Call, a suspended one behind its
\* Yield, and one that was reset behind its Stream.
Parked(m, fs, s) ==
    /\ \A k \in 1 .. Len(fs) : k < Len(fs) => Resumes(m, fs[k], "Call")
    /\ s = "Yielded" => Resumes(m, fs[Len(fs)], "Yield")
    /\ s = "Reset" => Resumes(m, fs[Len(fs)], "Stream")

ParkedInv == Parked(mod, frames, status)

\* What holds at the i-th instruction behind a limit loop: x is the outcome, v
\* the variable, e the end of the range, top and below the upper operands.
Claim(i, x, v, e, top, below) ==
    /\ i \in {1, 20} => top = x
    /\ i \in {2, 21} => top = 0 /\ below = x
    /\ i = 3 => (top = 0 => x # 0)
    /\ i = 5 => top = v
    /\ i = 6 => top = e /\ below = v
    /\ i = 7 => (top = 0 => v < e)
    /\ i \in {9, 17} => top = 1
    /\ i \in 10 .. 22 => v < e \/ x # 0
    /\ i = 22 => (top # 0 => x = 0)
    /\ i = 23 => v < e

Dispatched_at(m, f, s) ==
    /\ s \in Nat /\ s + 23 \in Positions(m[f.chunk])
    /\ Dispatches(m[f.chunk], s)

Claims(m, f, st, s, i) ==
    LET ch == m[f.chunk]
    IN Claim(i, st[f.base + At(ch, s).a + 1], st[f.base + At(ch, s + 4).a + 1],
             st[f.base + At(ch, s + 5).a + 1], st[Len(st)], st[Len(st) - 1])

LimitClaims(m, f, st) ==
    \A s \in Nat : Dispatched_at(m, f, s) =>
        \A i \in 1 .. 23 : f.ip = s + i => Claims(m, f, st, s, i)

LimitInv ==
    /\ LimitsDispatched(mod) /\ ParkedInv
    /\ status # "Error" /\ frames # <<>> => LimitClaims(mod, Frame, stack)

-----------------------------------------------------------------------------
\* The dispatch loop on attested modules is the dispatch loop on modules that
\* pass the checks of Flow: what is proved of the one holds of the other.
THEOREM AttestedRefines == AttestedSpec => Spec
<1>1. AttestedInit => Init
    BY DEF AttestedInit, Init, verify, verify_resource_bounds, Attestation
<1> QED BY <1>1, PTL DEF AttestedSpec, Spec

\* Every variable of a machine that runs an attested module has its type, and
\* each frame's locals lie below the frames and operands above it.
THEOREM AttestedType == AttestedSpec /\ Lowered(mod) => []TypeOK
<1> QED BY AttestedRefines, TypeTheorem, PTL

\* No instruction of an attested module pops an operand its frame does not
\* have, and no frame runs off its code.
THEOREM AttestedFrameIsolated == AttestedSpec /\ Lowered(mod) => []FrameIsolated
<1> QED BY AttestedRefines, FrameIsolatedTheorem, PTL

\* No GetLocal of an attested module reads a slot that nothing has written
\* since its frame was entered or reset.
THEOREM AttestedInitBeforeUse == AttestedSpec /\ Lowered(mod) => []InitBeforeUse
<1> QED BY AttestedRefines, InitBeforeUseTheorem, PTL

\* The frames of an attested module never outgrow the attested call depth.
THEOREM AttestedCallDepth == AttestedSpec /\ Lowered(mod) => []CallDepthBounded
<1> QED BY AttestedRefines, CallDepthBoundedTheorem, PTL

\* A stream of an attested module yields before every Reset, unless a callee
\* that counts as its yield returns in silence.
THEOREM AttestedProductive ==
    AttestedSpec /\ Lowered(mod) /\ DelegatesCover(mod) => []Productive
<1> QED BY AttestedRefines, ProductiveTheorem, PTL

-----------------------------------------------------------------------------
\* What a step does to the positions of the frames.

LEMMA Movement ==
    ASSUME IInv, [Next]_vars
    PROVE  /\ mod' = mod
           /\ \/ frames' = <<>> /\ status' \in {"Idle", "Finished"}
              \/ /\ EdgeOp
                 /\ \E t \in Targets(Code, Frame.ip) :
                       Advanced(mod, frames, frames', t)
              \/ /\ CallOp
                 /\ \E gs, nf : /\ Advanced(mod, frames, gs, Frame.ip + 1)
                                /\ frames' = Append(gs, nf)
                                /\ nf.chunk = Next_ip.a /\ nf.ip = 0
              \/ /\ ReturnOp /\ Len(frames) > 1
                 /\ frames' = SubSeq(frames, 1, Len(frames) - 1)
              \/ YieldOp /\ Advanced(mod, frames, frames', Frame.ip + 1)
              \/ ResetOp /\ Advanced(mod, frames, frames', 1)
              \/ TrapOp /\ Advanced(mod, frames, frames', Frame.ip + 1)
              \/ /\ resume /\ frames # <<>>
                 /\ Advanced(mod, frames, frames', Frame.ip)
              \/ /\ frames = <<>> /\ stack = <<>>
                 /\ \E c \in DOMAIN mod :
                       call_function(c) /\ frames' = <<NewFrame(c, 0)>>
              \/ UNCHANGED vars
<1>1. /\ frames \in Seq(FrameTypes(mod)) /\ stack \in Seq(Value)
      /\ (frames = <<>>) = (status \in {"Idle", "Finished"})
      /\ frames = <<>> => stack = <<>>
      /\ Len(frames) \in Nat
    BY SequenceFacts DEF IInv, Machine
<1>2. CASE EdgeOp
    BY <1>2, EdgeMoves DEF Moved
<1>3. CASE CallOp
  <2>1. mod' = mod
      BY <1>3 DEF CallOp
  <2>2. \E gs, nf : /\ Advanced(mod, frames, gs, Frame.ip + 1)
                    /\ frames' = Append(gs, nf)
                    /\ nf.chunk = Next_ip.a /\ nf.ip = 0
      BY <1>3, CallMoves, Zenon DEF Moved
  <2> QED BY <1>3, <2>1, <2>2, Zenon
<1>4. CASE ReturnOp
  <2>1. /\ mod' = mod /\ status = "Running"
        /\ frames' = SubSeq(frames, 1, Len(frames) - 1)
        /\ status' = IF Len(frames) = 1 THEN "Finished" ELSE "Running"
      BY <1>4 DEF ReturnOp, Dispatching
  <2>2. frames # <<>> /\ Len(frames) > 0
      BY <1>1, <2>1, SequenceFacts
  <2>3. CASE Len(frames) = 1
    <3>1. frames' = <<>>
        BY <1>1, <2>1, <2>3
    <3> QED BY <2>1, <2>3, <3>1
  <2>4. CASE Len(frames) # 1
    <3> DEFINE n == Len(frames)
    <3>2. n \in Nat /\ n > 0 /\ n # 1
        BY <1>1, <2>2, <2>4
    <3> HIDE DEF n
    <3>3. n > 1
        BY <3>2
    <3>1. Len(frames) > 1
        BY <3>3 DEF n
    <3> QED BY <1>4, <2>1, <3>1
  <2> QED BY <2>3, <2>4
<1>5. CASE YieldOp
  <2>1. /\ status = "Running" /\ mod' = mod
        /\ frames' = [k \in DOMAIN frames |->
                        [Stepped(Frame.ip + 1)[k] EXCEPT !.yielded = TRUE]]
      BY <1>5 DEF YieldOp, Dispatching
  <2>2. Frame.ip + 1 \in Nat
      BY <2>1, Dispatched
  <2>3. Advanced(mod, frames, Stepped(Frame.ip + 1), Frame.ip + 1)
      BY <2>1, <2>2, SteppedAdvances
  <2>4. Advanced(mod, frames, frames', Frame.ip + 1)
      BY <1>1, <2>1, <2>3, MarkYielded
  <2> QED BY <1>5, <2>1, <2>4
<1>6. CASE ResetOp
  <2>1. /\ status = "Running" /\ mod' = mod
        /\ frames' = Rewound(frames, FirstOf(Code, "Stream") + 1)
        /\ Next_ip.o = "Reset"
      BY <1>6, Zenon DEF ResetOp, Dispatching, Rewound
  <2>2. FirstOf(Code, "Stream") + 1 = 1
      BY <2>1, ResetsStream
  <2>3. Advanced(mod, frames, frames', 1)
    <3>1. frames' = Rewound(frames, 1)
        BY <2>1, <2>2, Zenon
    <3> QED BY <1>1, <3>1, RewoundAdvances
  <2> QED BY <1>6, <2>1, <2>3
<1>7. CASE TrapOp
  <2>1. /\ status = "Running" /\ mod' = mod
        /\ frames' = Stepped(Frame.ip + 1)
      BY <1>7 DEF TrapOp, Dispatching
  <2>2. Frame.ip + 1 \in Nat
      BY <2>1, Dispatched
  <2>3. Advanced(mod, frames, frames', Frame.ip + 1)
      BY <2>1, <2>2, SteppedAdvances
  <2> QED BY <1>7, <2>1, <2>3
<1>8. CASE resume
  <2>1. /\ mod' = mod /\ frames' = Resumed(frames)
        /\ status \in {"Yielded", "Reset"}
      BY <1>8 DEF resume
  <2>2. frames # <<>>
      BY <1>1, <2>1
  <2>3. Advanced(mod, frames, frames', Frame.ip)
    <3>1. \A k \in 1 .. Len(frames) :
             frames[k].ip = IF k = Len(frames) THEN Frame.ip ELSE frames[k].ip
        BY DEF Frame
    <3> QED BY <1>1, <2>1, <3>1, ResumedFrames, Zenon DEF Advanced
  <2> QED BY <1>8, <2>1, <2>2, <2>3
<1>9. ASSUME NEW c \in DOMAIN mod, call_function(c)
      PROVE  /\ mod' = mod /\ frames = <<>> /\ stack = <<>>
             /\ frames' = <<NewFrame(c, 0)>>
  <2>1. /\ mod' = mod /\ frames' = Append(frames, NewFrame(c, Len(stack)))
        /\ status \in {"Idle", "Finished"}
      BY <1>9 DEF call_function
  <2>2. frames = <<>> /\ stack = <<>>
      BY <1>1, <2>1
  <2>3. frames' = <<NewFrame(c, 0)>>
    <3>1. Len(stack) = 0
        BY <2>2
    <3> QED BY <2>1, <2>2, <3>1
  <2> QED BY <2>1, <2>2, <2>3
<1>10. CASE reset_after_error
    BY <1>10 DEF reset_after_error
<1>11. CASE UNCHANGED vars
    BY <1>11 DEF vars
<1>12. EdgeOp \/ CallOp \/ ReturnOp \/ YieldOp \/ ResetOp \/ TrapOp \/ resume
       \/ (\E c \in DOMAIN mod : call_function(c)) \/ reset_after_error
       \/ UNCHANGED vars
    BY Zenon DEF Next, run, EdgeOp
<1> QED BY <1>2, <1>3, <1>4, <1>5, <1>6, <1>7, <1>8, <1>9, <1>10, <1>11, <1>12,
           Zenon

\* Behind an instruction that was dispatched.
LEMMA ComesBehind ==
    ASSUME IInv, status = "Running", NEW gs, NEW o,
           Next_ip.o = o, Advanced(mod, frames, gs, Frame.ip + 1)
    PROVE  Resumes(mod, gs[Len(frames)], o)
<1>1. /\ Frame.ip \in Nat /\ Next_ip = At(mod[Frame.chunk], Frame.ip)
      /\ Len(frames) \in Nat /\ Len(frames) > 0 /\ Frame = frames[Len(frames)]
    BY Dispatched, Zenon
<1> DEFINE n == Len(frames)
<1>2. n \in 1 .. n
    BY <1>1
<1>3. gs[n].ip = Frame.ip + 1 /\ gs[n].chunk = Frame.chunk
    BY <1>1, <1>2, Zenon DEF Advanced
<1>4. (Frame.ip + 1) - 1 = Frame.ip /\ Frame.ip + 1 > 0
    BY <1>1
<1> HIDE DEF n
<1>5. gs[n].ip - 1 = Frame.ip
    BY <1>3, <1>4, Zenon
<1>6. gs[n].ip > 0
    BY <1>3, <1>4, Zenon
<1> QED BY <1>1, <1>3, <1>5, <1>6, Zenon DEF Resumes, n

LEMMA NextParked ==
    ASSUME IInv, ParkedInv, [Next]_vars
    PROVE  ParkedInv'
<1> DEFINE n == Len(frames)
<1>1. frames \in Seq(FrameTypes(mod)) /\ n \in Nat /\ mod' = mod
    BY Movement, SequenceFacts DEF IInv, Machine
<1>2. \A k \in 1 .. n : k < n => Resumes(mod, frames[k], "Call")
    BY DEF ParkedInv, Parked
<1>3. ASSUME NEW gs, NEW t, Advanced(mod, frames, gs, t)
      PROVE  /\ Len(gs) = n
             /\ \A k \in 1 .. n : k < n => Resumes(mod, gs[k], "Call")
  <2>1. Len(gs) = n
      BY <1>3 DEF Advanced
  <2>2. ASSUME NEW k \in 1 .. n, k < n PROVE Resumes(mod, gs[k], "Call")
    <3>1. gs[k].chunk = frames[k].chunk /\ gs[k].ip = frames[k].ip
        BY <1>1, <1>3, <2>2 DEF Advanced
    <3> QED BY <1>2, <2>2, <3>1, Zenon DEF Resumes
  <2> QED BY <2>1, <2>2
<1> DEFINE Stays == /\ Len(frames') = n
                    /\ \A k \in 1 .. n : k < n => Resumes(mod, frames'[k], "Call")
<1>4. ASSUME Stays,
             status' = "Yielded" => Resumes(mod, frames'[n], "Yield"),
             status' = "Reset" => Resumes(mod, frames'[n], "Stream")
      PROVE  ParkedInv'
    BY <1>1, <1>4, Zenon DEF ParkedInv, Parked
<1>5. CASE frames' = <<>> /\ status' \in {"Idle", "Finished"}
    BY <1>5 DEF ParkedInv, Parked
<1>6. CASE EdgeOp /\ \E t \in Targets(Code, Frame.ip) :
                         Advanced(mod, frames, frames', t)
    BY <1>3, <1>4, <1>6, EdgeMoves
<1>7. CASE CallOp /\ \E gs, nf : /\ Advanced(mod, frames, gs, Frame.ip + 1)
                                 /\ frames' = Append(gs, nf)
                                 /\ nf.chunk = Next_ip.a /\ nf.ip = 0
  <2>1. PICK gs, nf : /\ Advanced(mod, frames, gs, Frame.ip + 1)
                      /\ frames' = Append(gs, nf)
      BY <1>7
  <2>2. status = "Running" /\ status' = "Running" /\ Next_ip.o = "Call"
      BY <1>7 DEF CallOp, Dispatching
  <2>3. Resumes(mod, gs[n], "Call")
      BY <2>1, <2>2, ComesBehind
  <2>4. gs \in Seq(FrameTypes(mod)) /\ Len(gs) = n
      BY <2>1 DEF Advanced
  <2>5. Len(frames') = n + 1 /\ \A k \in 1 .. n : frames'[k] = gs[k]
      BY <2>1, <2>4, AppendIsThere
  <2>6. ASSUME NEW k \in 1 .. Len(frames'), k < Len(frames')
        PROVE  Resumes(mod, frames'[k], "Call")
    <3>1. k \in 1 .. n
        BY <1>1, <2>5, <2>6
    <3>2. CASE k = n
        BY <2>3, <2>5, <3>1, <3>2, Zenon
    <3>3. CASE k < n
        BY <1>3, <2>1, <2>5, <3>1, <3>3, Zenon
    <3> QED BY <1>1, <3>1, <3>2, <3>3
  <2> QED BY <1>1, <2>2, <2>6, Zenon DEF ParkedInv, Parked
<1>8. CASE ReturnOp /\ n > 1 /\ frames' = SubSeq(frames, 1, n - 1)
  <2>1. /\ Len(frames') = n - 1
        /\ \A k \in 1 .. n - 1 : frames'[k] = frames[k]
    <3>1. n > 0
        BY <1>8
    <3> QED BY <1>1, <1>8, <3>1, DropTop
  <2>2. status' \in {"Finished", "Running"}
      BY <1>8 DEF ReturnOp
  <2>3. ASSUME NEW k \in 1 .. Len(frames'), k < Len(frames')
        PROVE  Resumes(mod, frames'[k], "Call")
    <3>1. k \in 1 .. n - 1 /\ k \in 1 .. n /\ k < n
        BY <1>1, <2>1, <2>3
    <3> QED BY <1>2, <2>1, <3>1, Zenon
  <2> QED BY <1>1, <2>2, <2>3, Zenon DEF ParkedInv, Parked
<1>9. CASE YieldOp /\ Advanced(mod, frames, frames', Frame.ip + 1)
  <2>1. status = "Running" /\ status' = "Yielded" /\ Next_ip.o = "Yield"
      BY <1>9 DEF YieldOp, Dispatching
  <2>2. Resumes(mod, frames'[n], "Yield")
      BY <1>9, <2>1, ComesBehind
  <2> QED BY <1>3, <1>4, <1>9, <2>1, <2>2
<1>10. CASE ResetOp /\ Advanced(mod, frames, frames', 1)
  <2>1. status = "Running" /\ status' = "Reset" /\ Next_ip.o = "Reset"
      BY <1>10 DEF ResetOp, Dispatching
  <2>2. /\ At(Code, 0).o = "Stream" /\ Code = mod[Frame.chunk]
        /\ n > 0 /\ Frame = frames[n]
      BY <2>1, ResetsStream, Dispatched
  <2>3. Resumes(mod, frames'[n], "Stream")
    <3>1. n \in 1 .. n
        BY <1>1, <2>2
    <3>2. frames'[n].ip = 1 /\ frames'[n].chunk = Frame.chunk
        BY <1>10, <2>2, <3>1, Zenon DEF Advanced
    <3>3. frames'[n].ip - 1 = 0 /\ frames'[n].ip > 0
        BY <3>2
    <3> QED BY <2>2, <3>2, <3>3, Zenon DEF Resumes
  <2> QED BY <1>3, <1>4, <1>10, <2>1, <2>3
<1>11. CASE TrapOp /\ Advanced(mod, frames, frames', Frame.ip + 1)
  <2>1. status' = "Error"
      BY <1>11 DEF TrapOp
  <2> QED BY <1>3, <1>4, <1>11, <2>1
<1>12. CASE resume /\ frames # <<>> /\ Advanced(mod, frames, frames', Frame.ip)
  <2>1. status' = "Running"
      BY <1>12 DEF resume
  <2> QED BY <1>3, <1>4, <1>12, <2>1
<1>13. CASE \E c \in DOMAIN mod :
               call_function(c) /\ frames' = <<NewFrame(c, 0)>>
  <2>1. Len(frames') = 1 /\ status' = "Running"
      BY <1>13 DEF call_function
  <2>2. ASSUME NEW k \in 1 .. Len(frames') PROVE ~(k < Len(frames'))
      BY <2>1
  <2> QED BY <1>1, <2>1, <2>2, Zenon DEF ParkedInv, Parked
<1>14. CASE UNCHANGED vars
  <2>1. frames' = frames /\ status' = status
      BY <1>14 DEF vars
  <2> QED BY <1>1, <2>1, Zenon DEF ParkedInv, Parked
<1> QED
  <2> HIDE DEF n, Stays
  <2> QED BY <1>5, <1>6, <1>7, <1>8, <1>9, <1>10, <1>11, <1>12, <1>13, <1>14,
             Movement, Zenon DEF n

-----------------------------------------------------------------------------
\* What the instructions leave on the stack of the frame that runs them.

LEMMA Pushed ==
    ASSUME IInv, StraightOp, Next_ip.o \in {"Const", "GetLocal"}
    PROVE  /\ Len(stack') = Len(stack) + 1
           /\ stack'[Len(stack) + 1] = IF Next_ip.o = "Const" THEN Next_ip.a
                                       ELSE stack[Frame.base + Next_ip.a + 1]
           /\ \A i \in 1 .. Len(stack) : stack'[i] = stack[i]
<1>1. status = "Running" /\ stack' \in Result(Next_ip)
    BY DEF StraightOp, Dispatching
<1>2. stack \in Seq(Value)
    BY <1>1, Dispatched
<1> DEFINE x == IF Next_ip.o = "Const" THEN Next_ip.a
                ELSE stack[Frame.base + Next_ip.a + 1]
<1>3. stack' = Append(stack, x)
    BY <1>1 DEF Result
<1> HIDE DEF x
<1> QED BY <1>2, <1>3 DEF x

LEMMA Compared ==
    ASSUME IInv, StraightOp, Next_ip.o \in {"CmpGe", "CmpEq"}
    PROVE  LET n == Len(stack)
               holds == IF Next_ip.o = "CmpGe" THEN stack[n - 1] >= stack[n]
                        ELSE stack[n - 1] = stack[n]
           IN /\ n >= 2 /\ Len(stack') = n - 1
              /\ stack'[n - 1] = IF holds THEN 1 ELSE 0
              /\ \A i \in 1 .. n - 2 : stack'[i] = stack[i]
<1> DEFINE n == Len(stack)
           x == IF IF Next_ip.o = "CmpGe" THEN stack[n - 1] >= stack[n]
                   ELSE stack[n - 1] = stack[n]
                THEN 1 ELSE 0
<1>1. status = "Running" /\ stack' \in Result(Next_ip)
    BY DEF StraightOp, Dispatching
<1>2. /\ stack \in Seq(Value) /\ n \in Nat /\ Next_ip \in Instruction
      /\ op_depth_effect(Next_ip)[1] \in 0 .. n
    BY <1>1, Dispatched, Zenon
<1>3. n >= 2
    BY <1>2, Effects
<1>4. stack' = Append(SubSeq(stack, 1, n - 2), x)
  <2>1. CASE Next_ip.o = "CmpGe"
      BY <1>1, <2>1 DEF Result, is_ge, Pop, Top
  <2>2. CASE Next_ip.o = "CmpEq"
      BY <1>1, <2>2 DEF Result, Pop, Top
  <2> QED BY <2>1, <2>2
<1> HIDE DEF x
<1>5. /\ Len(stack') = n - 1 /\ stack'[n - 1] = x
      /\ \A i \in 1 .. n - 2 : stack'[i] = stack[i]
  <2> DEFINE low == SubSeq(stack, 1, n - 2)
  <2>1. low \in Seq(Value) /\ Len(low) = n - 2
        /\ \A i \in 1 .. n - 2 : low[i] = stack[i]
    <3>1. n - 2 \in 0 .. Len(stack)
        BY <1>2, <1>3
    <3> HIDE DEF n
    <3> QED BY <1>2, <3>1
  <2>2. stack' = Append(low, x)
      BY <1>4
  <2> HIDE DEF low, n
  <2> QED BY <1>2, <1>3, <2>1, <2>2
<1> QED BY <1>3, <1>5 DEF x

LEMMA Stored ==
    ASSUME IInv, StraightOp, Next_ip.o = "SetLocal"
    PROVE  LET n == Len(stack)
               j == Frame.base + Next_ip.a + 1
           IN /\ n >= 1 /\ Len(stack') = n - 1 /\ j \in 1 .. Rim(mod, Frame)
              /\ stack'[j] = stack[n] /\ Rim(mod, Frame) < n
              /\ \A i \in 1 .. n - 1 : i # j => stack'[i] = stack[i]
<1> DEFINE n == Len(stack)
           r == Rim(mod, Frame)
           b == Frame.base
           a == Next_ip.a
           j == b + a + 1
<1>1. status = "Running" /\ stack' \in Result(Next_ip)
    BY DEF StraightOp, Dispatching
<1>2. /\ stack \in Seq(Value) /\ n \in Nat /\ Next_ip \in Instruction
      /\ op_depth_effect(Next_ip)[1] \in 0 .. n - r
      /\ Frame.chunk \in DOMAIN mod /\ Code = mod[Frame.chunk]
      /\ Frame.ip \in Positions(Code) /\ Next_ip = At(Code, Frame.ip)
      /\ Admitted(mod) /\ a \in Nat /\ b \in Nat /\ r = b + Code.locals
      /\ r \in Nat /\ Code.locals \in Nat
    BY <1>1, Dispatched, Zenon
<1>3. a < Code.locals
    BY <1>2, InRangeFacts
<1>4. op_depth_effect(Next_ip) = <<1, -1>>
    BY <1>2, Effects
<1>5. stack' = [SubSeq(stack, 1, n - 1) EXCEPT ![j] = stack[n]]
    BY <1>1 DEF Result, Pop, Top
<1>6. 1 \in 0 .. n - r
    BY <1>2, <1>4
<1> HIDE DEF n, r, b, a
<1>7. r < n /\ n >= 1 /\ j \in 1 .. r
  <2> DEFINE w == Code.locals
  <2>1. n \in Nat /\ a \in Nat /\ b \in Nat /\ w \in Nat /\ r = b + w
      BY <1>2, Zenon
  <2>2. a < w
      BY <1>3
  <2> HIDE DEF w
  <2> QED BY <1>6, <2>1, <2>2
<1> DEFINE low == SubSeq(stack, 1, n - 1)
<1>8. /\ low \in Seq(Value) /\ Len(low) = n - 1
      /\ \A i \in 1 .. n - 1 : low[i] = stack[i]
    BY <1>2, <1>7 DEF n
<1>9. stack' = [low EXCEPT ![j] = stack[n]]
    BY <1>5
<1> HIDE DEF low, j
<1>10. Len(stack') = n - 1 /\ stack'[j] = stack[n]
       /\ \A i \in 1 .. n - 1 : i # j => stack'[i] = stack[i]
    BY <1>2, <1>7, <1>8, <1>9
<1> QED BY <1>7, <1>10 DEF n, r, b, a, j

LEMMA Branched ==
    ASSUME IInv, BranchOp
    PROVE  LET n == Len(stack)
           IN /\ n >= 1 /\ Rim(mod, Frame) < n /\ Len(stack') = n - 1
              /\ \A i \in 1 .. n - 1 : stack'[i] = stack[i]
              /\ frames' = Stepped(IF (Next_ip.o = "If") = (stack[n] = 0)
                                   THEN Next_ip.a ELSE Frame.ip + 1)
<1> DEFINE n == Len(stack)
           r == Rim(mod, Frame)
<1>1. /\ status = "Running" /\ stack' = SubSeq(stack, 1, n - 1)
      /\ Next_ip.o \in {"If", "BreakIf"}
      /\ frames' = Stepped(IF (Next_ip.o = "If") = (stack[n] = 0)
                           THEN Next_ip.a ELSE Frame.ip + 1)
    BY Zenon DEF BranchOp, Dispatching, Pop, Top
<1>2. /\ stack \in Seq(Value) /\ n \in Nat /\ Next_ip \in Instruction
      /\ op_depth_effect(Next_ip)[1] \in 0 .. n - r /\ r \in Nat
    BY <1>1, Dispatched, Zenon
<1>3. op_depth_effect(Next_ip) = <<1, -1>>
    BY <1>1, <1>2, Effects
<1>4. 1 \in 0 .. n - r
    BY <1>2, <1>3
<1>5. n >= 1 /\ r < n
  <2> HIDE DEF n, r
  <2> QED BY <1>2, <1>4
<1>6. Len(stack') = n - 1 /\ \A i \in 1 .. n - 1 : stack'[i] = stack[i]
  <2>1. n - 1 \in 0 .. Len(stack)
      BY <1>2, <1>5
  <2> HIDE DEF n, r
  <2> QED BY <1>1, <1>2, <2>1
<1> QED BY <1>1, <1>5, <1>6, Zenon

\* The frame's locals, and all that lies below it, are written by SetLocal
\* only.
LEMMA EdgeKeeps ==
    ASSUME IInv, EdgeOp, Next_ip.o # "SetLocal"
    PROVE  \A i \in 1 .. Rim(mod, Frame) : stack'[i] = stack[i]
<1> DEFINE n == Len(stack)
           r == Rim(mod, Frame)
           p == op_depth_effect(Next_ip)[1]
<1>0. status = "Running"
    BY EdgeMoves
<1>1. /\ stack \in Seq(Value) /\ n \in Nat /\ Next_ip \in Instruction
      /\ p \in 0 .. n - r /\ p \in 0 .. n /\ r \in Nat
    BY <1>0, Dispatched, Zenon
<1>2. ASSUME NEW k, Operates(stack, stack', p, k, 0)
      PROVE  \A i \in 1 .. r : stack'[i] = stack[i]
  <2>1. \A i \in 1 .. n - p : stack'[i] = stack[i]
      BY <1>2 DEF Operates
  <2> HIDE DEF n, r, p
  <2> QED BY <1>1, <2>1
<1>3. CASE StraightOp
  <2>1. stack' \in Result(Next_ip) /\ Next_ip.o \in Straight
      BY <1>3 DEF StraightOp, Dispatching
  <2>2. PICK q, k : /\ op_depth_effect(Next_ip) = <<q, k>>
                    /\ Operates(stack, stack', q, k, 0)
      BY <1>0, <2>1, StraightShape
  <2>3. p = q
      BY <2>2
  <2> QED BY <1>2, <2>2, <2>3
<1>4. CASE BranchOp
  <2>1. /\ r < n /\ \A i \in 1 .. n - 1 : stack'[i] = stack[i]
      BY <1>4, Branched
  <2> HIDE DEF n, r
  <2>2. \A i \in 1 .. r : stack'[i] = stack[i]
      BY <1>1, <2>1
  <2> QED BY <2>2 DEF r
<1>5. CASE JumpOp \/ MarkerOp
    BY <1>5, Zenon DEF JumpOp, MarkerOp
<1>6. CASE NativeOp
  <2>1. PICK failed \in {0, 1} : stack' = Pop(Next_ip.b) \o <<Other, failed>>
      BY <1>6 DEF NativeOp
  <2>2. Next_ip.o \in Natives
      BY <1>6 DEF NativeOp, Dispatching
  <2>3. op_depth_effect(Next_ip) = <<Next_ip.b, 2 - Next_ip.b>>
      BY <1>1, <2>2, Effects
  <2>4. p = Next_ip.b /\ failed \in Nat
      BY <2>3
  <2>5. Operates(stack, stack', p, 2 - p, 0)
    <3> HIDE DEF p, n, r
    <3>1. p \in 0 .. Len(stack)
        BY <1>1 DEF n
    <3> QED BY <1>1, <2>1, <2>4, <3>1, Shapes DEF Pop
  <2> QED BY <1>2, <2>5
<1> QED BY <1>3, <1>4, <1>5, <1>6 DEF EdgeOp

-----------------------------------------------------------------------------
\* Behind a limit loop.

\* The instructions behind a limit loop, one by one.
Laid(ch, s, o, v, e) ==
    /\ At(ch, s + 0) = Unary("GetLocal", o)
    /\ At(ch, s + 1) = Unary("Const", 0)
    /\ At(ch, s + 2) = Nullary("CmpEq")
    /\ At(ch, s + 3) = Unary("If", s + 11)
    /\ At(ch, s + 4) = Unary("GetLocal", v)
    /\ At(ch, s + 5) = Unary("GetLocal", e)
    /\ At(ch, s + 6) = Nullary("CmpGe")
    /\ At(ch, s + 7) = Unary("If", s + 10)
    /\ At(ch, s + 8) = Unary("Const", 1)
    /\ At(ch, s + 9) = Unary("SetLocal", o)
    /\ At(ch, s + 10) = Nullary("EndIf")
    /\ At(ch, s + 11) = Nullary("EndIf")
    /\ At(ch, s + 12) = Unary("GetLocal", o)
    /\ At(ch, s + 13) = Unary("Const", 2)
    /\ At(ch, s + 14) = Nullary("CmpEq")
    /\ At(ch, s + 15) = Unary("If", s + 18)
    /\ At(ch, s + 16) = Unary("Const", 1)
    /\ At(ch, s + 17) = Unary("SetLocal", o)
    /\ At(ch, s + 18) = Nullary("EndIf")
    /\ At(ch, s + 19) = Unary("GetLocal", o)
    /\ At(ch, s + 20) = Unary("Const", 0)
    /\ At(ch, s + 21) = Nullary("CmpEq")
    /\ At(ch, s + 22) = Unary("If", s + 24)
    /\ At(ch, s + 23) = Unary("Trap", LoopLimitExceeded)

LEMMA DispatchOps ==
    ASSUME NEW ch, NEW s \in Nat, Dispatches(ch, s)
    PROVE  Laid(ch, s, At(ch, s).a, At(ch, s + 4).a, At(ch, s + 5).a)
<1> DEFINE o == At(ch, s).a
           v == At(ch, s + 4).a
           e == At(ch, s + 5).a
           code == OutcomeDispatch(o, v, e, s)
<1>1. \A i \in 0 .. 23 : At(ch, s + i) = code[i + 1]
    BY Zenon DEF Dispatches
<1> HIDE DEF o, v, e, code
<1>2. ASSUME NEW i \in 0 .. 23, NEW k, k = i + 1
      PROVE  At(ch, s + i) = code[k]
    BY <1>1, <1>2
<1>3. At(ch, s + 0) = Unary("GetLocal", o)
  <2>1. code[1] = Unary("GetLocal", o)
      BY DEF code, OutcomeDispatch
  <2> QED BY <1>2, <2>1
<1>4. At(ch, s + 1) = Unary("Const", 0)
  <2>1. code[2] = Unary("Const", 0)
      BY DEF code, OutcomeDispatch
  <2> QED BY <1>2, <2>1
<1>5. At(ch, s + 2) = Nullary("CmpEq")
  <2>1. code[3] = Nullary("CmpEq")
      BY DEF code, OutcomeDispatch
  <2> QED BY <1>2, <2>1
<1>6. At(ch, s + 3) = Unary("If", s + 11)
  <2>1. code[4] = Unary("If", s + 11)
      BY DEF code, OutcomeDispatch
  <2> QED BY <1>2, <2>1
<1>7. At(ch, s + 4) = Unary("GetLocal", v)
  <2>1. code[5] = Unary("GetLocal", v)
      BY DEF code, OutcomeDispatch
  <2> QED BY <1>2, <2>1
<1>8. At(ch, s + 5) = Unary("GetLocal", e)
  <2>1. code[6] = Unary("GetLocal", e)
      BY DEF code, OutcomeDispatch
  <2> QED BY <1>2, <2>1
<1>9. At(ch, s + 6) = Nullary("CmpGe")
  <2>1. code[7] = Nullary("CmpGe")
      BY DEF code, OutcomeDispatch
  <2> QED BY <1>2, <2>1
<1>10. At(ch, s + 7) = Unary("If", s + 10)
  <2>1. code[8] = Unary("If", s + 10)
      BY DEF code, OutcomeDispatch
  <2> QED BY <1>2, <2>1
<1>11. At(ch, s + 8) = Unary("Const", 1)
  <2>1. code[9] = Unary("Const", 1)
      BY DEF code, OutcomeDispatch
  <2> QED BY <1>2, <2>1
<1>12. At(ch, s + 9) = Unary("SetLocal", o)
  <2>1. code[10] = Unary("SetLocal", o)
      BY DEF code, OutcomeDispatch
  <2> QED BY <1>2, <2>1
<1>13. At(ch, s + 10) = Nullary("EndIf")
  <2>1. code[11] = Nullary("EndIf")
      BY DEF code, OutcomeDispatch
  <2> QED BY <1>2, <2>1
<1>14. At(ch, s + 11) = Nullary("EndIf")
  <2>1. code[12] = Nullary("EndIf")
      BY DEF code, OutcomeDispatch
  <2> QED BY <1>2, <2>1
<1>15. At(ch, s + 12) = Unary("GetLocal", o)
  <2>1. code[13] = Unary("GetLocal", o)
      BY DEF code, OutcomeDispatch
  <2> QED BY <1>2, <2>1
<1>16. At(ch, s + 13) = Unary("Const", 2)
  <2>1. code[14] = Unary("Const", 2)
      BY DEF code, OutcomeDispatch
  <2> QED BY <1>2, <2>1
<1>17. At(ch, s + 14) = Nullary("CmpEq")
  <2>1. code[15] = Nullary("CmpEq")
      BY DEF code, OutcomeDispatch
  <2> QED BY <1>2, <2>1
<1>18. At(ch, s + 15) = Unary("If", s + 18)
  <2>1. code[16] = Unary("If", s + 18)
      BY DEF code, OutcomeDispatch
  <2> QED BY <1>2, <2>1
<1>19. At(ch, s + 16) = Unary("Const", 1)
  <2>1. code[17] = Unary("Const", 1)
      BY DEF code, OutcomeDispatch
  <2> QED BY <1>2, <2>1
<1>20. At(ch, s + 17) = Unary("SetLocal", o)
  <2>1. code[18] = Unary("SetLocal", o)
      BY DEF code, OutcomeDispatch
  <2> QED BY <1>2, <2>1
<1>21. At(ch, s + 18) = Nullary("EndIf")
  <2>1. code[19] = Nullary("EndIf")
      BY DEF code, OutcomeDispatch
  <2> QED BY <1>2, <2>1
<1>22. At(ch, s + 19) = Unary("GetLocal", o)
  <2>1. code[20] = Unary("GetLocal", o)
      BY DEF code, OutcomeDispatch
  <2> QED BY <1>2, <2>1
<1>23. At(ch, s + 20) = Unary("Const", 0)
  <2>1. code[21] = Unary("Const", 0)
      BY DEF code, OutcomeDispatch
  <2> QED BY <1>2, <2>1
<1>24. At(ch, s + 21) = Nullary("CmpEq")
  <2>1. code[22] = Nullary("CmpEq")
      BY DEF code, OutcomeDispatch
  <2> QED BY <1>2, <2>1
<1>25. At(ch, s + 22) = Unary("If", s + 24)
  <2>1. code[23] = Unary("If", s + 24)
      BY DEF code, OutcomeDispatch
  <2> QED BY <1>2, <2>1
<1>26. At(ch, s + 23) = Unary("Trap", LoopLimitExceeded)
  <2>1. code[24] = Unary("Trap", LoopLimitExceeded)
      BY DEF code, OutcomeDispatch
  <2> QED BY <1>2, <2>1
<1> QED BY <1>3, <1>4, <1>5, <1>6, <1>7, <1>8, <1>9, <1>10, <1>11, <1>12, <1>13, <1>14, <1>15, <1>16, <1>17, <1>18, <1>19, <1>20, <1>21, <1>22, <1>23, <1>24, <1>25, <1>26, Zenon DEF Laid, o, v, e

LEMMA WhichOp ==
    ASSUME EdgeOp
    PROVE  /\ Next_ip.o \in Straight => StraightOp
           /\ Next_ip.o \in {"If", "BreakIf"} => BranchOp
           /\ Next_ip.o \in {"Else", "EndLoop", "Break"} => JumpOp
           /\ Next_ip.o \in {"EndIf", "Loop", "Stream"} => MarkerOp
           /\ Next_ip.o \in Natives => NativeOp
<1>1. /\ StraightOp => Next_ip.o \in Straight
      /\ BranchOp => Next_ip.o \in {"If", "BreakIf"}
      /\ JumpOp => Next_ip.o \in {"Else", "EndLoop", "Break"}
      /\ MarkerOp => Next_ip.o \in {"EndIf", "Loop", "Stream"}
      /\ NativeOp => Next_ip.o \in Natives
    BY Zenon DEF StraightOp, BranchOp, JumpOp, MarkerOp, NativeOp, Dispatching
<1> DEFINE o == Next_ip.o
<1>2. /\ o \in Straight => o \notin {"If", "BreakIf"} /\ o \notin Natives
            /\ o \notin {"Else", "EndLoop", "Break"}
            /\ o \notin {"EndIf", "Loop", "Stream"}
      /\ o \in {"If", "BreakIf"} => o \notin Natives
            /\ o \notin {"Else", "EndLoop", "Break"}
            /\ o \notin {"EndIf", "Loop", "Stream"}
      /\ o \in {"Else", "EndLoop", "Break"} =>
            o \notin Natives /\ o \notin {"EndIf", "Loop", "Stream"}
      /\ o \in {"EndIf", "Loop", "Stream"} => o \notin Natives
  <2> HIDE DEF o
  <2> QED BY DEF Straight, Natives
<1> QED BY <1>1, <1>2, Zenon DEF EdgeOp

\* Where a call, a resume or an entry brings a frame, no limit loop is being
\* dispatched.
LEMMA Outside ==
    ASSUME NEW m, NEW f, NEW st, f.ip \in Nat,
           \/ f.ip = 0
           \/ \E o \in {"Call", "Yield", "Stream"} : Resumes(m, f, o)
    PROVE  LimitClaims(m, f, st)
<1> SUFFICES ASSUME NEW s \in Nat, Dispatched_at(m, f, s), NEW i \in 1 .. 23,
                    f.ip = s + i
             PROVE  FALSE
    BY Zenon DEF LimitClaims
<1> DEFINE ch == m[f.chunk]
<1>1. f.ip # 0
    OBVIOUS
<1>2. PICK o \in {"Call", "Yield", "Stream"} : At(ch, f.ip - 1).o = o
    BY <1>1 DEF Resumes
<1>3. Dispatches(ch, s)
    BY DEF Dispatched_at
<1> HIDE DEF ch
<1>4. \A k \in 0 .. 22 : At(ch, s + k).o \notin {"Call", "Yield", "Stream"}
  <2> SUFFICES ASSUME NEW k \in 0 .. 22
               PROVE  At(ch, s + k).o \notin {"Call", "Yield", "Stream"}
      OBVIOUS
  <2>1. k = 0 \/ k = 1 \/ k = 2 \/ k = 3 \/ k = 4 \/ k = 5 \/ k = 6 \/ k = 7
      \/ k = 8 \/ k = 9 \/ k = 10 \/ k = 11 \/ k = 12 \/ k = 13 \/ k = 14
      \/ k = 15 \/ k = 16 \/ k = 17 \/ k = 18 \/ k = 19 \/ k = 20 \/ k = 21
      \/ k = 22
      OBVIOUS
  <2>l. PICK o2, v, e : Laid(ch, s, o2, v, e)
      BY <1>3, DispatchOps
  <2> DEFINE Own == {"GetLocal", "Const", "CmpEq", "If", "CmpGe", "SetLocal", "EndIf"}
  <2>o. \A a : /\ Unary("GetLocal", a).o \in Own /\ Unary("Const", a).o \in Own
              /\ Unary("If", a).o \in Own /\ Unary("SetLocal", a).o \in Own
      BY DEF Unary, Op
  <2>e. \A a \in Own : Nullary(a).o \in Own
      BY DEF Nullary, Op
  <2> HIDE DEF Own
  <2>f. "CmpEq" \in Own /\ "CmpGe" \in Own /\ "EndIf" \in Own
      BY DEF Own
  <2>c0. CASE k = 0
    <3>1. At(ch, s + 0).o \in Own
        BY <2>l, <2>o, <2>e, <2>f, Zenon DEF Laid
    <3> QED BY <2>c0, <3>1 DEF Own
  <2>c1. CASE k = 1
    <3>1. At(ch, s + 1).o \in Own
        BY <2>l, <2>o, <2>e, <2>f, Zenon DEF Laid
    <3> QED BY <2>c1, <3>1 DEF Own
  <2>c2. CASE k = 2
    <3>1. At(ch, s + 2).o \in Own
        BY <2>l, <2>o, <2>e, <2>f, Zenon DEF Laid
    <3> QED BY <2>c2, <3>1 DEF Own
  <2>c3. CASE k = 3
    <3>1. At(ch, s + 3).o \in Own
        BY <2>l, <2>o, <2>e, <2>f, Zenon DEF Laid
    <3> QED BY <2>c3, <3>1 DEF Own
  <2>c4. CASE k = 4
    <3>1. At(ch, s + 4).o \in Own
        BY <2>l, <2>o, <2>e, <2>f, Zenon DEF Laid
    <3> QED BY <2>c4, <3>1 DEF Own
  <2>c5. CASE k = 5
    <3>1. At(ch, s + 5).o \in Own
        BY <2>l, <2>o, <2>e, <2>f, Zenon DEF Laid
    <3> QED BY <2>c5, <3>1 DEF Own
  <2>c6. CASE k = 6
    <3>1. At(ch, s + 6).o \in Own
        BY <2>l, <2>o, <2>e, <2>f, Zenon DEF Laid
    <3> QED BY <2>c6, <3>1 DEF Own
  <2>c7. CASE k = 7
    <3>1. At(ch, s + 7).o \in Own
        BY <2>l, <2>o, <2>e, <2>f, Zenon DEF Laid
    <3> QED BY <2>c7, <3>1 DEF Own
  <2>c8. CASE k = 8
    <3>1. At(ch, s + 8).o \in Own
        BY <2>l, <2>o, <2>e, <2>f, Zenon DEF Laid
    <3> QED BY <2>c8, <3>1 DEF Own
  <2>c9. CASE k = 9
    <3>1. At(ch, s + 9).o \in Own
        BY <2>l, <2>o, <2>e, <2>f, Zenon DEF Laid
    <3> QED BY <2>c9, <3>1 DEF Own
  <2>c10. CASE k = 10
    <3>1. At(ch, s + 10).o \in Own
        BY <2>l, <2>o, <2>e, <2>f, Zenon DEF Laid
    <3> QED BY <2>c10, <3>1 DEF Own
  <2>c11. CASE k = 11
    <3>1. At(ch, s + 11).o \in Own
        BY <2>l, <2>o, <2>e, <2>f, Zenon DEF Laid
    <3> QED BY <2>c11, <3>1 DEF Own
  <2>c12. CASE k = 12
    <3>1. At(ch, s + 12).o \in Own
        BY <2>l, <2>o, <2>e, <2>f, Zenon DEF Laid
    <3> QED BY <2>c12, <3>1 DEF Own
  <2>c13. CASE k = 13
    <3>1. At(ch, s + 13).o \in Own
        BY <2>l, <2>o, <2>e, <2>f, Zenon DEF Laid
    <3> QED BY <2>c13, <3>1 DEF Own
  <2>c14. CASE k = 14
    <3>1. At(ch, s + 14).o \in Own
        BY <2>l, <2>o, <2>e, <2>f, Zenon DEF Laid
    <3> QED BY <2>c14, <3>1 DEF Own
  <2>c15. CASE k = 15
    <3>1. At(ch, s + 15).o \in Own
        BY <2>l, <2>o, <2>e, <2>f, Zenon DEF Laid
    <3> QED BY <2>c15, <3>1 DEF Own
  <2>c16. CASE k = 16
    <3>1. At(ch, s + 16).o \in Own
        BY <2>l, <2>o, <2>e, <2>f, Zenon DEF Laid
    <3> QED BY <2>c16, <3>1 DEF Own
  <2>c17. CASE k = 17
    <3>1. At(ch, s + 17).o \in Own
        BY <2>l, <2>o, <2>e, <2>f, Zenon DEF Laid
    <3> QED BY <2>c17, <3>1 DEF Own
  <2>c18. CASE k = 18
    <3>1. At(ch, s + 18).o \in Own
        BY <2>l, <2>o, <2>e, <2>f, Zenon DEF Laid
    <3> QED BY <2>c18, <3>1 DEF Own
  <2>c19. CASE k = 19
    <3>1. At(ch, s + 19).o \in Own
        BY <2>l, <2>o, <2>e, <2>f, Zenon DEF Laid
    <3> QED BY <2>c19, <3>1 DEF Own
  <2>c20. CASE k = 20
    <3>1. At(ch, s + 20).o \in Own
        BY <2>l, <2>o, <2>e, <2>f, Zenon DEF Laid
    <3> QED BY <2>c20, <3>1 DEF Own
  <2>c21. CASE k = 21
    <3>1. At(ch, s + 21).o \in Own
        BY <2>l, <2>o, <2>e, <2>f, Zenon DEF Laid
    <3> QED BY <2>c21, <3>1 DEF Own
  <2>c22. CASE k = 22
    <3>1. At(ch, s + 22).o \in Own
        BY <2>l, <2>o, <2>e, <2>f, Zenon DEF Laid
    <3> QED BY <2>c22, <3>1 DEF Own
  <2> QED BY <2>1, <2>c0, <2>c1, <2>c2, <2>c3, <2>c4, <2>c5, <2>c6, <2>c7, <2>c8, <2>c9, <2>c10, <2>c11, <2>c12, <2>c13, <2>c14, <2>c15, <2>c16, <2>c17, <2>c18, <2>c19, <2>c20, <2>c21, <2>c22
<1>5. i - 1 \in 0 .. 22 /\ f.ip - 1 = s + (i - 1)
    OBVIOUS
<1> QED BY <1>2, <1>4, <1>5

LEMMA LimitStep ==
    ASSUME IInv, EdgeOp, LimitClaims(mod, Frame, stack),
           NEW t \in Targets(Code, Frame.ip), Advanced(mod, frames, frames', t),
           NEW s \in Nat, Dispatched_at(mod, Frame, s), NEW i \in 1 .. 23,
           t = s + i
    PROVE  Claims(mod, [Frame EXCEPT !.ip = t], stack', s, i)
<1> DEFINE n == Len(stack)
           r == Rim(mod, Frame)
           b == Frame.base
           ip == Frame.ip
           op == Next_ip
           o == At(Code, s).a
           v == At(Code, s + 4).a
           e == At(Code, s + 5).a
           X == stack[b + o + 1]
           V == stack[b + v + 1]
           E == stack[b + e + 1]
           X1 == stack'[b + o + 1]
           V1 == stack'[b + v + 1]
           E1 == stack'[b + e + 1]
           T == stack[n]
           U == stack[n - 1]
           T1 == stack'[Len(stack')]
           U1 == stack'[Len(stack') - 1]
<1>1. /\ status = "Running" /\ mod' = mod
    BY EdgeMoves
<1>2. /\ Admitted(mod) /\ mod \in Seq(Chunks) /\ stack \in Seq(Value) /\ n \in Nat
      /\ Frame \in FrameTypes(mod) /\ Frame.chunk \in DOMAIN mod
      /\ Code = mod[Frame.chunk] /\ ip \in Positions(Code) /\ ip \in Nat
      /\ op \in Instruction /\ op = At(Code, ip) /\ r \in Nat /\ b \in Nat
      /\ r = b + Code.locals /\ Code.locals \in Nat
      /\ op_depth_effect(op)[1] \in 0 .. n - r
    BY <1>1, Dispatched, Zenon
<1>3. /\ s + 23 \in Positions(Code) /\ Dispatches(Code, s)
    BY <1>2, Zenon DEF Dispatched_at
<1>4. Laid(Code, s, o, v, e)
    BY <1>3, DispatchOps
<1>5. /\ o \in Nat /\ o < Code.locals /\ v \in Nat /\ v < Code.locals
      /\ e \in Nat /\ e < Code.locals
  <2>1. /\ s \in Positions(Code) /\ s + 4 \in Positions(Code)
        /\ s + 5 \in Positions(Code)
    <3>1. Size(Code) \in Nat
        BY <1>2, ModuleType
    <3> QED BY <1>3, <3>1 DEF Positions
  <2>2. /\ At(Code, s).o = "GetLocal" /\ At(Code, s + 4).o = "GetLocal"
        /\ At(Code, s + 5).o = "GetLocal"
    <3>1. s + 0 = s
        OBVIOUS
    <3> QED BY <1>4, <3>1 DEF Laid, Unary, Op
  <2>3. \A q \in Positions(Code) : At(Code, q).a \in Nat
      BY <1>2, ModuleType
  <2>4. \A q \in Positions(Code) :
           At(Code, q).o = "GetLocal" => At(Code, q).a < Code.locals
      BY <1>2, InRangeFacts
  <2> QED BY <2>1, <2>2, <2>3, <2>4, Zenon
<1>6. r <= n
  <2>1. op_depth_effect(op)[1] \in Nat
      BY <1>2, EffectType
  <2> DEFINE z == op_depth_effect(op)[1]
  <2> HIDE DEF z, n, r
  <2>2. z \in Nat /\ z \in 0 .. n - r
      BY <1>2, <2>1 DEF z
  <2> QED BY <1>2, <2>2
<1>7. /\ b + o + 1 \in 1 .. r /\ b + v + 1 \in 1 .. r /\ b + e + 1 \in 1 .. r
  <2> DEFINE w == Code.locals
  <2>1. b \in Nat /\ r = b + w /\ w \in Nat
      BY <1>2, Zenon
  <2> HIDE DEF b, o, v, e, r, w
  <2> QED BY <1>5, <2>1 DEF w
<1>8. X \in Int /\ V \in Int /\ E \in Int /\ n >= 1 /\ T \in Int
  <2>1. \A j \in 1 .. n : stack[j] \in Int
      BY <1>2, SequenceFacts DEF Value, Empty
  <2> HIDE DEF n, r, o, v, e, b
  <2>2. \A j \in 1 .. r : j \in 1 .. n
      BY <1>2, <1>6
  <2>3. n >= 1 /\ n \in 1 .. n
      BY <1>2, <1>6, <1>7
  <2> QED BY <1>7, <2>1, <2>2, <2>3
<1>9. op.o # "SetLocal" => X1 = X /\ V1 = V /\ E1 = E
    BY <1>7, EdgeKeeps, Zenon
\* Where control comes from.
<1>10. PICK k \in 0 .. 22 : ip = s + k
  <2>1. ip \in s .. s + 22
      BY <1>2, <1>3 DEF Dispatches
  <2>2. ip - s \in 0 .. 22 /\ ip = s + (ip - s)
    <3>1. ip \in Nat
        BY <1>2, Zenon
    <3> HIDE DEF ip
    <3> QED BY <2>1, <3>1
  <2> QED BY <2>2
<1>11. k > 0 => Claim(k, X, V, E, T, U)
  <2> SUFFICES ASSUME k > 0 PROVE Claim(k, X, V, E, T, U)
      OBVIOUS
  <2>1. k \in 1 .. 23
      OBVIOUS
  <2>2. Claims(mod, Frame, stack, s, k)
      BY <1>10, <2>1, Zenon DEF LimitClaims
  <2> QED BY <1>2, <2>2, Zenon DEF Claims
<1>12. SUFFICES Claim(i, X1, V1, E1, T1, U1)
  <2> DEFINE g == [Frame EXCEPT !.ip = t]
  <2>1. g.chunk = Frame.chunk /\ g.base = Frame.base
      BY <1>2 DEF FrameTypes
  <2> HIDE DEF g
  <2>2. Claim(i, X1, V1, E1, T1, U1) => Claims(mod, g, stack', s, i)
      BY <1>2, <2>1, Zenon DEF Claims
  <2> QED BY <2>2 DEF g
\* What the instructions do.
<1>13. ASSUME op.o \in {"Const", "GetLocal"}
       PROVE  /\ T1 = IF op.o = "Const" THEN op.a ELSE stack[b + op.a + 1]
              /\ U1 = T
  <2>1. StraightOp
      BY <1>13, WhichOp DEF Straight
  <2>2. /\ Len(stack') = n + 1
        /\ stack'[n + 1] = IF op.o = "Const" THEN op.a ELSE stack[b + op.a + 1]
        /\ \A j \in 1 .. n : stack'[j] = stack[j]
      BY <1>13, <2>1, Pushed, Zenon
  <2>3. n \in 1 .. n /\ (n + 1) - 1 = n
      BY <1>2, <1>8
  <2> HIDE DEF n
  <2> QED BY <2>2, <2>3
<1>14. ASSUME op.o \in {"CmpGe", "CmpEq"}
       PROVE  /\ op.o = "CmpGe" => T1 = IF U >= T THEN 1 ELSE 0
              /\ op.o = "CmpEq" => T1 = IF U = T THEN 1 ELSE 0
  <2>1. StraightOp
      BY <1>14, WhichOp DEF Straight
  <2> DEFINE holds == IF op.o = "CmpGe" THEN U >= T ELSE U = T
  <2>2. Len(stack') = n - 1 /\ stack'[n - 1] = IF holds THEN 1 ELSE 0
      BY <1>14, <2>1, Compared, Zenon
  <2>3. T1 = IF holds THEN 1 ELSE 0
      BY <2>2, Zenon
  <2> HIDE DEF T1, T, U
  <2> QED BY <1>14, <2>3
<1>15. ASSUME op.o = "SetLocal", op.a = o PROVE X1 = T
  <2>1. StraightOp
      BY <1>15, WhichOp DEF Straight
  <2>2. stack'[b + op.a + 1] = stack[n]
      BY <1>15, <2>1, Stored, Zenon
  <2> QED BY <1>15, <2>2, Zenon
<1>16. ASSUME op.o = "If"
       PROVE  t = IF T = 0 THEN op.a ELSE ip + 1
  <2>1. BranchOp
      BY <1>16, WhichOp
  <2> DEFINE to == IF T = 0 THEN op.a ELSE ip + 1
  <2>2. frames' = Stepped(to)
      BY <1>16, <2>1, Branched, Zenon
  <2>3. to \in Nat
    <3>1. ip \in Nat /\ op \in Instruction
        BY <1>2, Zenon
    <3> HIDE DEF T, op, ip
    <3>2. op.a \in Nat /\ ip + 1 \in Nat
        BY <3>1 DEF Instruction
    <3> QED BY <3>2
  <2> HIDE DEF to
  <2>4. Advanced(mod, frames, frames', to)
      BY <1>1, <2>2, <2>3, SteppedAdvances
  <2>5. Len(frames) \in 1 .. Len(frames)
      BY <1>1, Dispatched
  <2>6. frames'[Len(frames)].ip = to /\ frames'[Len(frames)].ip = t
      BY <2>4, <2>5, Zenon DEF Advanced
  <2> QED BY <2>6, Zenon DEF to
<1>17. op.o \in {"Const", "GetLocal", "CmpGe", "CmpEq", "SetLocal", "EndIf"} =>
          t = ip + 1
    BY <1>2 DEF Targets
<1> HIDE DEF n, r, b, ip, op, o, v, e, X, V, E, X1, V1, E1, T, U, T1, U1
<1>18. /\ op = At(Code, s + k) /\ Laid(Code, s, o, v, e)
       /\ X = stack[b + o + 1] /\ V = stack[b + v + 1] /\ E = stack[b + e + 1]
    BY <1>2, <1>4, <1>10 DEF X, V, E
<1>19. ASSUME t = ip + 1 PROVE i = k + 1
    BY <1>2, <1>10, <1>19
<1>20. ASSUME NEW d \in Nat, t = s + d PROVE i = d
    BY <1>20
<1>c0. CASE k = 0
  <2>1. op = Unary("GetLocal", o)
      BY <1>18, <1>c0 DEF Laid
  <2>2. op.o = "GetLocal" /\ op.a = o
      BY <2>1 DEF Unary, Op
  <2>3. T1 = X /\ U1 = T /\ X1 = X /\ V1 = V /\ E1 = E /\ i = 1
      BY <1>9, <1>13, <1>17, <1>18, <1>19, <1>c0, <2>2
  <2> QED BY <1>8, <1>11, <1>c0, <2>3 DEF Claim
<1>c1. CASE k = 1
  <2>1. op = Unary("Const", 0)
      BY <1>18, <1>c1 DEF Laid
  <2>2. op.o = "Const" /\ op.a = 0
      BY <2>1 DEF Unary, Op
  <2>3. T1 = 0 /\ U1 = T /\ X1 = X /\ V1 = V /\ E1 = E /\ i = 2
      BY <1>9, <1>13, <1>17, <1>18, <1>19, <1>c1, <2>2
  <2> QED BY <1>8, <1>11, <1>c1, <2>3 DEF Claim
<1>c2. CASE k = 2
  <2>1. op.o = "CmpEq"
      BY <1>18, <1>c2 DEF Laid, Nullary, Op
  <2>2. /\ T1 = IF U = T THEN 1 ELSE 0
        /\ X1 = X /\ V1 = V /\ E1 = E /\ i = 3
      BY <1>9, <1>14, <1>17, <1>19, <1>c2, <2>1
  <2> QED BY <1>8, <1>11, <1>c2, <2>2 DEF Claim
<1>c3. CASE k = 3
  <2>1. op = Unary("If", s + 11)
      BY <1>18, <1>c3 DEF Laid
  <2>2. op.o = "If" /\ op.a = s + 11
      BY <2>1 DEF Unary, Op
  <2>3. X1 = X /\ V1 = V /\ E1 = E
      BY <1>9, <2>2
  <2>4. T = 0 => i = 11
      BY <1>16, <1>20, <2>2
  <2>5. T # 0 => i = 4
      BY <1>16, <1>19, <1>c3, <2>2
  <2> QED BY <1>8, <1>11, <1>c3, <2>3, <2>4, <2>5 DEF Claim
<1>c4. CASE k = 4
  <2>1. op = Unary("GetLocal", v)
      BY <1>18, <1>c4 DEF Laid
  <2>2. op.o = "GetLocal" /\ op.a = v
      BY <2>1 DEF Unary, Op
  <2>3. T1 = V /\ U1 = T /\ X1 = X /\ V1 = V /\ E1 = E /\ i = 5
      BY <1>9, <1>13, <1>17, <1>18, <1>19, <1>c4, <2>2
  <2> QED BY <1>8, <1>11, <1>c4, <2>3 DEF Claim
<1>c5. CASE k = 5
  <2>1. op = Unary("GetLocal", e)
      BY <1>18, <1>c5 DEF Laid
  <2>2. op.o = "GetLocal" /\ op.a = e
      BY <2>1 DEF Unary, Op
  <2>3. T1 = E /\ U1 = T /\ X1 = X /\ V1 = V /\ E1 = E /\ i = 6
      BY <1>9, <1>13, <1>17, <1>18, <1>19, <1>c5, <2>2
  <2> QED BY <1>8, <1>11, <1>c5, <2>3 DEF Claim
<1>c6. CASE k = 6
  <2>1. op.o = "CmpGe"
      BY <1>18, <1>c6 DEF Laid, Nullary, Op
  <2>2. /\ T1 = IF U >= T THEN 1 ELSE 0
        /\ X1 = X /\ V1 = V /\ E1 = E /\ i = 7
      BY <1>9, <1>14, <1>17, <1>19, <1>c6, <2>1
  <2> QED BY <1>8, <1>11, <1>c6, <2>2 DEF Claim
<1>c7. CASE k = 7
  <2>1. op = Unary("If", s + 10)
      BY <1>18, <1>c7 DEF Laid
  <2>2. op.o = "If" /\ op.a = s + 10
      BY <2>1 DEF Unary, Op
  <2>3. X1 = X /\ V1 = V /\ E1 = E
      BY <1>9, <2>2
  <2>4. T = 0 => i = 10
      BY <1>16, <1>20, <2>2
  <2>5. T # 0 => i = 8
      BY <1>16, <1>19, <1>c7, <2>2
  <2> QED BY <1>8, <1>11, <1>c7, <2>3, <2>4, <2>5 DEF Claim
<1>c8. CASE k = 8
  <2>1. op = Unary("Const", 1)
      BY <1>18, <1>c8 DEF Laid
  <2>2. op.o = "Const" /\ op.a = 1
      BY <2>1 DEF Unary, Op
  <2>3. T1 = 1 /\ U1 = T /\ X1 = X /\ V1 = V /\ E1 = E /\ i = 9
      BY <1>9, <1>13, <1>17, <1>18, <1>19, <1>c8, <2>2
  <2> QED BY <1>8, <1>11, <1>c8, <2>3 DEF Claim
<1>c9. CASE k = 9
  <2>1. op = Unary("SetLocal", o)
      BY <1>18, <1>c9 DEF Laid
  <2>2. op.o = "SetLocal" /\ op.a = o
      BY <2>1 DEF Unary, Op
  <2>3. X1 = T /\ i = 10
      BY <1>15, <1>17, <1>19, <1>c9, <2>2
  <2> QED BY <1>8, <1>11, <1>c9, <2>3 DEF Claim
<1>c10. CASE k = 10
  <2>1. op.o = "EndIf"
      BY <1>18, <1>c10 DEF Laid, Nullary, Op
  <2>2. X1 = X /\ V1 = V /\ E1 = E /\ i = 11
      BY <1>9, <1>17, <1>19, <1>c10, <2>1
  <2> QED BY <1>8, <1>11, <1>c10, <2>2 DEF Claim
<1>c11. CASE k = 11
  <2>1. op.o = "EndIf"
      BY <1>18, <1>c11 DEF Laid, Nullary, Op
  <2>2. X1 = X /\ V1 = V /\ E1 = E /\ i = 12
      BY <1>9, <1>17, <1>19, <1>c11, <2>1
  <2> QED BY <1>8, <1>11, <1>c11, <2>2 DEF Claim
<1>c12. CASE k = 12
  <2>1. op = Unary("GetLocal", o)
      BY <1>18, <1>c12 DEF Laid
  <2>2. op.o = "GetLocal" /\ op.a = o
      BY <2>1 DEF Unary, Op
  <2>3. T1 = X /\ U1 = T /\ X1 = X /\ V1 = V /\ E1 = E /\ i = 13
      BY <1>9, <1>13, <1>17, <1>18, <1>19, <1>c12, <2>2
  <2> QED BY <1>8, <1>11, <1>c12, <2>3 DEF Claim
<1>c13. CASE k = 13
  <2>1. op = Unary("Const", 2)
      BY <1>18, <1>c13 DEF Laid
  <2>2. op.o = "Const" /\ op.a = 2
      BY <2>1 DEF Unary, Op
  <2>3. T1 = 2 /\ U1 = T /\ X1 = X /\ V1 = V /\ E1 = E /\ i = 14
      BY <1>9, <1>13, <1>17, <1>18, <1>19, <1>c13, <2>2
  <2> QED BY <1>8, <1>11, <1>c13, <2>3 DEF Claim
<1>c14. CASE k = 14
  <2>1. op.o = "CmpEq"
      BY <1>18, <1>c14 DEF Laid, Nullary, Op
  <2>2. /\ T1 = IF U = T THEN 1 ELSE 0
        /\ X1 = X /\ V1 = V /\ E1 = E /\ i = 15
      BY <1>9, <1>14, <1>17, <1>19, <1>c14, <2>1
  <2> QED BY <1>8, <1>11, <1>c14, <2>2 DEF Claim
<1>c15. CASE k = 15
  <2>1. op = Unary("If", s + 18)
      BY <1>18, <1>c15 DEF Laid
  <2>2. op.o = "If" /\ op.a = s + 18
      BY <2>1 DEF Unary, Op
  <2>3. X1 = X /\ V1 = V /\ E1 = E
      BY <1>9, <2>2
  <2>4. T = 0 => i = 18
      BY <1>16, <1>20, <2>2
  <2>5. T # 0 => i = 16
      BY <1>16, <1>19, <1>c15, <2>2
  <2> QED BY <1>8, <1>11, <1>c15, <2>3, <2>4, <2>5 DEF Claim
<1>c16. CASE k = 16
  <2>1. op = Unary("Const", 1)
      BY <1>18, <1>c16 DEF Laid
  <2>2. op.o = "Const" /\ op.a = 1
      BY <2>1 DEF Unary, Op
  <2>3. T1 = 1 /\ U1 = T /\ X1 = X /\ V1 = V /\ E1 = E /\ i = 17
      BY <1>9, <1>13, <1>17, <1>18, <1>19, <1>c16, <2>2
  <2> QED BY <1>8, <1>11, <1>c16, <2>3 DEF Claim
<1>c17. CASE k = 17
  <2>1. op = Unary("SetLocal", o)
      BY <1>18, <1>c17 DEF Laid
  <2>2. op.o = "SetLocal" /\ op.a = o
      BY <2>1 DEF Unary, Op
  <2>3. X1 = T /\ i = 18
      BY <1>15, <1>17, <1>19, <1>c17, <2>2
  <2> QED BY <1>8, <1>11, <1>c17, <2>3 DEF Claim
<1>c18. CASE k = 18
  <2>1. op.o = "EndIf"
      BY <1>18, <1>c18 DEF Laid, Nullary, Op
  <2>2. X1 = X /\ V1 = V /\ E1 = E /\ i = 19
      BY <1>9, <1>17, <1>19, <1>c18, <2>1
  <2> QED BY <1>8, <1>11, <1>c18, <2>2 DEF Claim
<1>c19. CASE k = 19
  <2>1. op = Unary("GetLocal", o)
      BY <1>18, <1>c19 DEF Laid
  <2>2. op.o = "GetLocal" /\ op.a = o
      BY <2>1 DEF Unary, Op
  <2>3. T1 = X /\ U1 = T /\ X1 = X /\ V1 = V /\ E1 = E /\ i = 20
      BY <1>9, <1>13, <1>17, <1>18, <1>19, <1>c19, <2>2
  <2> QED BY <1>8, <1>11, <1>c19, <2>3 DEF Claim
<1>c20. CASE k = 20
  <2>1. op = Unary("Const", 0)
      BY <1>18, <1>c20 DEF Laid
  <2>2. op.o = "Const" /\ op.a = 0
      BY <2>1 DEF Unary, Op
  <2>3. T1 = 0 /\ U1 = T /\ X1 = X /\ V1 = V /\ E1 = E /\ i = 21
      BY <1>9, <1>13, <1>17, <1>18, <1>19, <1>c20, <2>2
  <2> QED BY <1>8, <1>11, <1>c20, <2>3 DEF Claim
<1>c21. CASE k = 21
  <2>1. op.o = "CmpEq"
      BY <1>18, <1>c21 DEF Laid, Nullary, Op
  <2>2. /\ T1 = IF U = T THEN 1 ELSE 0
        /\ X1 = X /\ V1 = V /\ E1 = E /\ i = 22
      BY <1>9, <1>14, <1>17, <1>19, <1>c21, <2>1
  <2> QED BY <1>8, <1>11, <1>c21, <2>2 DEF Claim
<1>c22. CASE k = 22
  <2>1. op = Unary("If", s + 24)
      BY <1>18, <1>c22 DEF Laid
  <2>2. op.o = "If" /\ op.a = s + 24
      BY <2>1 DEF Unary, Op
  <2>3. X1 = X /\ V1 = V /\ E1 = E
      BY <1>9, <2>2
  <2>4. T = 0 => i = 24
      BY <1>16, <1>20, <2>2
  <2>5. T # 0 => i = 23
      BY <1>16, <1>19, <1>c22, <2>2
  <2> QED BY <1>8, <1>11, <1>c22, <2>3, <2>4, <2>5 DEF Claim
<1>21. k = 0 \/ k = 1 \/ k = 2 \/ k = 3 \/ k = 4 \/ k = 5 \/ k = 6 \/ k = 7
       \/ k = 8 \/ k = 9 \/ k = 10 \/ k = 11 \/ k = 12 \/ k = 13 \/ k = 14
       \/ k = 15 \/ k = 16 \/ k = 17 \/ k = 18 \/ k = 19 \/ k = 20 \/ k = 21
       \/ k = 22
    OBVIOUS
<1> QED BY <1>21, <1>c0, <1>c1, <1>c2, <1>c3, <1>c4, <1>c5, <1>c6, <1>c7,
           <1>c8, <1>c9, <1>c10, <1>c11, <1>c12, <1>c13, <1>c14, <1>c15,
           <1>c16, <1>c17, <1>c18, <1>c19, <1>c20, <1>c21, <1>c22, Zenon

LEMMA EdgeLimit ==
    ASSUME IInv, EdgeOp, LimitClaims(mod, Frame, stack),
           NEW t \in Targets(Code, Frame.ip), Advanced(mod, frames, frames', t)
    PROVE  LimitClaims(mod, frames'[Len(frames)], stack')
<1> DEFINE g == frames'[Len(frames)]
           f == [Frame EXCEPT !.ip = t]
<1>0. status = "Running"
    BY EdgeMoves
<1>1. /\ Frame \in FrameTypes(mod) /\ Len(frames) \in 1 .. Len(frames)
      /\ Frame = frames[Len(frames)]
    BY <1>0, Dispatched
<1>2. g.ip = t /\ g.chunk = Frame.chunk /\ g.base = Frame.base
    BY <1>1, Zenon DEF Advanced
<1>3. f.ip = t /\ f.chunk = Frame.chunk /\ f.base = Frame.base
    BY <1>1 DEF FrameTypes
<1>4. ASSUME NEW s \in Nat, Dispatched_at(mod, g, s), NEW i \in 1 .. 23,
             g.ip = s + i
      PROVE  Claims(mod, g, stack', s, i)
  <2>1. Dispatched_at(mod, Frame, s)
      BY <1>2, <1>4, Zenon DEF Dispatched_at
  <2>2. Claims(mod, f, stack', s, i)
      BY <1>2, <1>4, <2>1, LimitStep
  <2> HIDE DEF f, g
  <2> QED BY <1>2, <1>3, <2>2, Zenon DEF Claims
<1> HIDE DEF g
<1> QED BY <1>4, Zenon DEF LimitClaims, g

LEMMA NextLimitInv ==
    ASSUME IInv, LimitInv, [Next]_vars
    PROVE  LimitInv'
<1> DEFINE n == Len(frames)
           m == Len(frames')
<1>1. /\ mod' = mod /\ ParkedInv' /\ LimitsDispatched(mod')
      /\ frames \in Seq(FrameTypes(mod)) /\ n \in Nat /\ ParkedInv
    BY Movement, NextParked, SequenceFacts DEF LimitInv, IInv, Machine
<1>2. IInv'
    BY NextIInv
<1>3. ASSUME status' # "Error" /\ frames' # <<>>
                 => LimitClaims(mod, frames'[m], stack')
      PROVE  LimitInv'
    BY <1>1, <1>3, Zenon DEF LimitInv, Frame
<1>4. ASSUME frames' # <<>>
      PROVE  /\ m \in 1 .. m /\ frames'[m].ip \in Nat
             /\ frames' \in Seq(FrameTypes(mod))
  <2>1. frames' \in Seq(FrameTypes(mod))
      BY <1>1, <1>2 DEF IInv, Machine
  <2>2. m \in Nat /\ m > 0
      BY <1>4, <2>1, SequenceFacts
  <2>3. m \in 1 .. m
      BY <2>2
  <2>4. frames'[m] \in FrameTypes(mod)
      BY <2>1, <2>3, SequenceFacts
  <2> HIDE DEF m
  <2> QED BY <2>1, <2>3, <2>4 DEF FrameTypes
\* The frame on top is where no limit loop is dispatched.
<1>5. ASSUME frames' # <<>>,
             \/ frames'[m].ip = 0
             \/ \E o \in {"Call", "Yield", "Stream"} : Resumes(mod, frames'[m], o)
      PROVE  LimitInv'
    BY <1>3, <1>4, <1>5, Outside
<1>6. CASE frames' = <<>>
    BY <1>3, <1>6
<1>7. CASE /\ EdgeOp
           /\ \E t \in Targets(Code, Frame.ip) : Advanced(mod, frames, frames', t)
  <2>1. status = "Running" /\ frames # <<>>
      BY <1>7, EdgeMoves, Dispatched
  <2>2. LimitClaims(mod, Frame, stack)
      BY <2>1 DEF LimitInv
  <2>3. LimitClaims(mod, frames'[n], stack')
      BY <1>7, <2>2, EdgeLimit
  <2>4. m = n
      BY <1>7 DEF Advanced
  <2> QED BY <1>3, <2>3, <2>4
<1>8. CASE CallOp /\ \E gs, nf : /\ Advanced(mod, frames, gs, Frame.ip + 1)
                                 /\ frames' = Append(gs, nf)
                                 /\ nf.chunk = Next_ip.a /\ nf.ip = 0
  <2>1. PICK gs, nf : /\ Advanced(mod, frames, gs, Frame.ip + 1)
                      /\ frames' = Append(gs, nf) /\ nf.ip = 0
      BY <1>8
  <2>2. gs \in Seq(FrameTypes(mod)) /\ Len(gs) = n
      BY <2>1 DEF Advanced
  <2>3. m = n + 1 /\ frames'[n + 1] = nf
      BY <2>1, <2>2, AppendIsThere
  <2>4. frames' # <<>>
      BY <1>1, <2>3
  <2> QED BY <1>5, <2>1, <2>3, <2>4
<1>9. CASE ReturnOp /\ n > 1 /\ frames' = SubSeq(frames, 1, n - 1)
  <2>1. m = n - 1 /\ \A k \in 1 .. n - 1 : frames'[k] = frames[k]
    <3>1. n > 0
        BY <1>9
    <3> QED BY <1>1, <1>9, <3>1, DropTop
  <2>2. n - 1 \in 1 .. n - 1 /\ n - 1 \in 1 .. n /\ n - 1 < n
      BY <1>1, <1>9
  <2>3. Resumes(mod, frames[n - 1], "Call")
      BY <1>1, <2>2 DEF ParkedInv, Parked
  <2>4. frames' # <<>>
    <3>1. m >= 1
        BY <2>1, <2>2
    <3> QED BY <3>1
  <2>5. frames'[m] = frames[n - 1]
      BY <2>1, <2>2
  <2> QED BY <1>5, <2>3, <2>4, <2>5
<1>10. CASE YieldOp /\ Advanced(mod, frames, frames', Frame.ip + 1)
  <2>1. status' = "Yielded"
      BY <1>10 DEF YieldOp
  <2>2. Resumes(mod, frames'[m], "Yield")
      BY <1>1, <2>1 DEF ParkedInv, Parked
  <2> QED BY <1>3, <1>5, <2>2
<1>11. CASE ResetOp /\ Advanced(mod, frames, frames', 1)
  <2>1. status' = "Reset"
      BY <1>11 DEF ResetOp
  <2>2. Resumes(mod, frames'[m], "Stream")
      BY <1>1, <2>1 DEF ParkedInv, Parked
  <2> QED BY <1>3, <1>5, <2>2
<1>12. CASE TrapOp
  <2>1. status' = "Error"
      BY <1>12 DEF TrapOp
  <2> QED BY <1>3, <2>1
<1>13. CASE resume /\ frames # <<>> /\ Advanced(mod, frames, frames', Frame.ip)
  <2>1. status \in {"Yielded", "Reset"}
      BY <1>13 DEF resume
  <2>2. \E o \in {"Call", "Yield", "Stream"} : Resumes(mod, frames[n], o)
      BY <1>1, <2>1 DEF ParkedInv, Parked
  <2>3. n \in 1 .. n /\ m = n
    <3>1. n > 0
        BY <1>1, <1>13, SequenceFacts
    <3> QED BY <1>1, <1>13, <3>1 DEF Advanced
  <2>4. frames'[n].ip = frames[n].ip /\ frames'[n].chunk = frames[n].chunk
      BY <1>13, <2>3, Zenon DEF Advanced, Frame
  <2>5. \E o \in {"Call", "Yield", "Stream"} : Resumes(mod, frames'[m], o)
      BY <2>2, <2>3, <2>4, Zenon DEF Resumes
  <2> QED BY <1>3, <1>5, <2>5
<1>14. CASE \E c \in DOMAIN mod :
               call_function(c) /\ frames' = <<NewFrame(c, 0)>>
  <2>1. PICK c \in DOMAIN mod : frames' = <<NewFrame(c, 0)>>
      BY <1>14
  <2>2. NewFrame(c, 0).ip = 0
      BY DEF NewFrame
  <2>3. m = 1 /\ frames'[1].ip = 0
      BY <2>1, <2>2
  <2> QED BY <1>3, <1>5, <2>3
<1>15. CASE UNCHANGED vars
  <2>1. /\ frames' = frames /\ status' = status /\ stack' = stack
      BY <1>15 DEF vars
  <2> QED BY <1>3, <2>1, Zenon DEF LimitInv, Frame
<1> QED
  <2> HIDE DEF m, n
  <2> QED BY <1>6, <1>7, <1>8, <1>9, <1>10, <1>11, <1>12, <1>13, <1>14, <1>15,
             Movement, Zenon DEF n

LEMMA InitLimitInv == Init /\ LimitsDispatched(mod) => LimitInv
BY DEF Init, Fresh, LimitInv, ParkedInv, Parked

LEMMA LimitInvJustifies == IInv /\ LimitInv => LimitTrapJustified
<1> SUFFICES ASSUME IInv, LimitInv, status = "Running",
                    Next_ip = Unary("Trap", LoopLimitExceeded)
             PROVE  LET test == Max({ip \in RangeTests(Code) : ip < Frame.ip})
                    IN stack[Frame.base + At(Code, test - 2).a + 1]
                           < stack[Frame.base + At(Code, test - 1).a + 1]
    BY Zenon DEF LimitTrapJustified, Running
<1> DEFINE t == Frame.ip
           s == t - 23
           S == {ip \in RangeTests(Code) : ip < t}
<1>1. /\ mod \in Seq(Chunks) /\ Frame.chunk \in DOMAIN mod
      /\ Code = mod[Frame.chunk] /\ t \in Positions(Code) /\ t \in Nat
      /\ Next_ip = At(Code, t) /\ frames # <<>>
    BY Dispatched, Zenon
<1>2. Next_ip.o = "Trap" /\ Next_ip.a = LoopLimitExceeded
    BY DEF Unary, Op
<1>3. t >= 23 /\ Dispatches(Code, s)
  <2>1. t \in PositionsOf(Code, "Trap")
      BY <1>1, <1>2 DEF PositionsOf
  <2> QED BY <1>1, <1>2, <2>1, Zenon DEF LimitInv, LimitsDispatched
<1>4. s \in Nat /\ t = s + 23 /\ 23 \in 1 .. 23
  <2> HIDE DEF t
  <2> QED BY <1>1, <1>3
<1> DEFINE o == At(Code, s).a
           v == At(Code, s + 4).a
           e == At(Code, s + 5).a
<1>5. Laid(Code, s, o, v, e)
    BY <1>3, <1>4, DispatchOps
<1>6. stack[Frame.base + v + 1] < stack[Frame.base + e + 1]
  <2>1. LimitClaims(mod, Frame, stack)
      BY <1>1 DEF LimitInv
  <2>2. Dispatched_at(mod, Frame, s)
      BY <1>1, <1>3, <1>4, Zenon DEF Dispatched_at
  <2>3. Claims(mod, Frame, stack, s, 23)
      BY <1>4, <2>1, <2>2, Zenon DEF LimitClaims
  <2> HIDE DEF s
  <2> QED BY <1>1, <2>3 DEF Claims, Claim
\* The test of the range is the last one before the trap.
<1> HIDE DEF o, v, e, s
<1>7. Size(Code) \in Nat
    BY <1>1, ModuleType
<1> HIDE DEF t
<1>8. \A k \in 0 .. 23 : s + k \in Positions(Code)
    BY <1>1, <1>4, <1>7 DEF Positions
<1>9. s + 6 \in RangeTests(Code)
  <2>1. /\ At(Code, s + 4).o = "GetLocal" /\ At(Code, s + 5).o = "GetLocal"
        /\ At(Code, s + 6).o = "CmpGe" /\ At(Code, s + 7).o = "If"
      BY <1>5 DEF Laid, Unary, Nullary, Op
  <2>2. /\ s + 4 \in Positions(Code) /\ s + 5 \in Positions(Code)
        /\ s + 6 \in Positions(Code) /\ s + 7 \in Positions(Code)
        /\ (s + 6) - 2 = s + 4 /\ (s + 6) - 1 = s + 5 /\ (s + 6) + 1 = s + 7
      BY <1>4, <1>8
  <2> QED BY <2>1, <2>2, Zenon DEF RangeTests, PositionsOf
<1>10. \A k \in 7 .. 22 : At(Code, s + k).o # "CmpGe"
  <2> SUFFICES ASSUME NEW k \in 7 .. 22 PROVE At(Code, s + k).o # "CmpGe"
      OBVIOUS
  <2>1. k = 7 \/ k = 8 \/ k = 9 \/ k = 10 \/ k = 11 \/ k = 12 \/ k = 13 \/ k = 14
        \/ k = 15 \/ k = 16 \/ k = 17 \/ k = 18 \/ k = 19 \/ k = 20 \/ k = 21
        \/ k = 22
      OBVIOUS
  <2>2. \A a : /\ Unary("GetLocal", a).o # "CmpGe" /\ Unary("Const", a).o # "CmpGe"
               /\ Unary("If", a).o # "CmpGe" /\ Unary("SetLocal", a).o # "CmpGe"
      BY DEF Unary, Op
  <2>3. Nullary("CmpEq").o # "CmpGe" /\ Nullary("EndIf").o # "CmpGe"
      BY DEF Nullary, Op
  <2>c7. CASE k = 7
    <3>1. At(Code, s + 7).o # "CmpGe"
        BY <1>5, <2>2, <2>3, Zenon DEF Laid
    <3> QED BY <2>c7, <3>1
  <2>c8. CASE k = 8
    <3>1. At(Code, s + 8).o # "CmpGe"
        BY <1>5, <2>2, <2>3, Zenon DEF Laid
    <3> QED BY <2>c8, <3>1
  <2>c9. CASE k = 9
    <3>1. At(Code, s + 9).o # "CmpGe"
        BY <1>5, <2>2, <2>3, Zenon DEF Laid
    <3> QED BY <2>c9, <3>1
  <2>c10. CASE k = 10
    <3>1. At(Code, s + 10).o # "CmpGe"
        BY <1>5, <2>2, <2>3, Zenon DEF Laid
    <3> QED BY <2>c10, <3>1
  <2>c11. CASE k = 11
    <3>1. At(Code, s + 11).o # "CmpGe"
        BY <1>5, <2>2, <2>3, Zenon DEF Laid
    <3> QED BY <2>c11, <3>1
  <2>c12. CASE k = 12
    <3>1. At(Code, s + 12).o # "CmpGe"
        BY <1>5, <2>2, <2>3, Zenon DEF Laid
    <3> QED BY <2>c12, <3>1
  <2>c13. CASE k = 13
    <3>1. At(Code, s + 13).o # "CmpGe"
        BY <1>5, <2>2, <2>3, Zenon DEF Laid
    <3> QED BY <2>c13, <3>1
  <2>c14. CASE k = 14
    <3>1. At(Code, s + 14).o # "CmpGe"
        BY <1>5, <2>2, <2>3, Zenon DEF Laid
    <3> QED BY <2>c14, <3>1
  <2>c15. CASE k = 15
    <3>1. At(Code, s + 15).o # "CmpGe"
        BY <1>5, <2>2, <2>3, Zenon DEF Laid
    <3> QED BY <2>c15, <3>1
  <2>c16. CASE k = 16
    <3>1. At(Code, s + 16).o # "CmpGe"
        BY <1>5, <2>2, <2>3, Zenon DEF Laid
    <3> QED BY <2>c16, <3>1
  <2>c17. CASE k = 17
    <3>1. At(Code, s + 17).o # "CmpGe"
        BY <1>5, <2>2, <2>3, Zenon DEF Laid
    <3> QED BY <2>c17, <3>1
  <2>c18. CASE k = 18
    <3>1. At(Code, s + 18).o # "CmpGe"
        BY <1>5, <2>2, <2>3, Zenon DEF Laid
    <3> QED BY <2>c18, <3>1
  <2>c19. CASE k = 19
    <3>1. At(Code, s + 19).o # "CmpGe"
        BY <1>5, <2>2, <2>3, Zenon DEF Laid
    <3> QED BY <2>c19, <3>1
  <2>c20. CASE k = 20
    <3>1. At(Code, s + 20).o # "CmpGe"
        BY <1>5, <2>2, <2>3, Zenon DEF Laid
    <3> QED BY <2>c20, <3>1
  <2>c21. CASE k = 21
    <3>1. At(Code, s + 21).o # "CmpGe"
        BY <1>5, <2>2, <2>3, Zenon DEF Laid
    <3> QED BY <2>c21, <3>1
  <2>c22. CASE k = 22
    <3>1. At(Code, s + 22).o # "CmpGe"
        BY <1>5, <2>2, <2>3, Zenon DEF Laid
    <3> QED BY <2>c22, <3>1
  <2> QED BY <2>1, <2>c7, <2>c8, <2>c9, <2>c10, <2>c11, <2>c12, <2>c13,
             <2>c14, <2>c15, <2>c16, <2>c17, <2>c18, <2>c19, <2>c20, <2>c21, <2>c22, Zenon
<1>11. ASSUME NEW x \in S PROVE x \in Nat /\ x <= s + 6
  <2>1. x \in Positions(Code) /\ At(Code, x).o = "CmpGe" /\ x < t
      BY Zenon DEF RangeTests, PositionsOf
  <2>2. x \in Nat
      BY <1>7, <2>1 DEF Positions
  <2>3. ASSUME x > s + 6 PROVE FALSE
    <3>1. x - s \in 7 .. 22 /\ x = s + (x - s)
        BY <1>4, <2>1, <2>2, <2>3
    <3> QED BY <1>10, <2>1, <3>1
  <2> QED BY <1>4, <2>2, <2>3
<1>12. s + 6 \in S
    BY <1>4, <1>9
<1>13. Max(S) = s + 6
  <2> HIDE DEF S
  <2> QED BY <1>11, <1>12, GreatestIs
<1>14. (s + 6) - 2 = s + 4 /\ (s + 6) - 1 = s + 5
    BY <1>4
<1> QED BY <1>6, <1>13, <1>14, Zenon DEF v, e, t

\* A limit loop traps with LoopLimitExceeded only while its variable is below
\* the end of its range: the outcome the loop leaves and the tests the compiler
\* emits behind it tell a range exactly as long as the cap from a longer one,
\* whatever the loop's body does.
THEOREM LimitTrapTheorem ==
    AttestedSpec /\ Lowered(mod) /\ LimitsDispatched(mod) => []LimitTrapJustified
<1>1. Init /\ Lowered(mod) /\ LimitsDispatched(mod) => IInv /\ LimitInv
    BY InitIInv, InitLimitInv
<1>2. IInv /\ LimitInv /\ [Next]_vars => (IInv /\ LimitInv)'
    BY NextIInv, NextLimitInv
<1>3. IInv /\ LimitInv => LimitTrapJustified
    BY LimitInvJustifies
<1> QED BY <1>1, <1>2, <1>3, AttestedRefines, PTL DEF Spec
=============================================================================
