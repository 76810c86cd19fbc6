---------------------------- MODULE MCAliasCopy -----------------------------
(***************************************************************************)
(* Chunks for AliasCopy: a read, a use and a write of its slot, in every   *)
(* order, arranged by every combination of loops and branches below.       *)
(***************************************************************************)
EXTENDS AliasCopy

I(o, a, b) == [o |-> o, a |-> a, b |-> b]
Const == I("Const", 0, 0)
Pop == I("PopN", 1, 0)

Targeted == Jumps \cup {"Loop", "EndLoop"}
\* Code moved by n positions; a Break of an enclosing loop has target 0.
Shift(code, n) ==
    [i \in DOMAIN code |->
        IF code[i].o \in Targeted /\ code[i].a > 0
        THEN [code[i] EXCEPT !.a = @ + n] ELSE code[i]]
Then(x, y) == x \o Shift(y, Len(x))
If(body) ==
    <<Const, I("If", Len(body) + 3, 0)>> \o Shift(body, 2) \o <<I("EndIf", 0, 0)>>
IfElse(x, y) ==
    LET end == Len(x) + Len(y) + 4
    IN <<Const, I("If", Len(x) + 4, 0)>> \o Shift(x, 2) \o <<I("Else", end, 0)>>
       \o Shift(y, Len(x) + 3) \o <<I("EndIf", 0, 0)>>
Loop(body) ==
    LET exit == Len(body) + 5
        code == Shift(body, 3)
    IN <<I("Loop", exit, 0), Const, I("BreakIf", exit, 0)>>
       \o [i \in DOMAIN code |->
              IF code[i].o = "Break" /\ code[i].a = 0
              THEN [code[i] EXCEPT !.a = exit] ELSE code[i]]
       \o <<I("EndLoop", 2, 0)>>
BreakOut == <<I("Break", 0, 0)>>

Stream(body) == <<I("Stream", 0, 0)>> \o Shift(body, 1) \o <<I("Reset", 0, 0)>>
Func(body) == body \o <<Const, I("Return", 0, 0)>>

\* Bindings of local 0 to a read of slot 0, or of slot 0 or 1.
Bindings ==
    {<<I("GetData", 0, 1), I("SetLocal", 0, 0)>>,
     <<I("GetData", 0, 1), I("View", 0, 0), I("SetLocal", 0, 0)>>,
     <<Const, I("GetDataIndexed", 0, 2), I("SetLocal", 0, 0)>>}
Use(code) == <<I("GetLocal", 0, 0)>> \o code
LocalUses ==
    {Use(<<I("Flat", 0, 0), Pop>>),
     Use(<<I("View", 0, 0), I("Flat", 0, 0), Pop>>),
     Use(<<I("SetData", 1, 1)>>),
     Use(<<I("SetLocal", 1, 0), I("GetLocal", 1, 0), I("Other", 1, 0), Pop>>),
     Use(<<Const, I("NewComposite", 2, 1), I("Element", 1, 0), I("Flat", 0, 0), Pop>>),
     Use(<<I("Call", 1, 0), Pop>>)}
Writes ==
    {<<Const, I("SetData", 0, 1)>>,
     <<Const, I("SetData", 1, 1)>>,
     <<Const, Const, I("SetDataIndexed", 0, 2), Pop>>,
     <<I("Call", 0, 0), Pop>>,
     <<Const, I("Yield", 0, 0), Pop>>}

Shapes(x, y, z) ==
    {Then(x, Then(y, z)),
     Loop(Then(x, Then(y, z))),
     Then(x, Loop(Then(y, z))),
     Then(Then(x, Loop(y)), z),
     Then(x, Loop(Then(Loop(y), z))),
     Then(x, Loop(Then(Loop(Loop(y)), z))),
     Loop(Then(Then(x, Loop(y)), z)),
     Then(Then(x, If(y)), z),
     Loop(Then(Then(If(x), y), z)),
     Then(IfElse(x, y), z),
     Then(x, Loop(Then(If(Then(y, BreakOut)), z))),
     Loop(Then(If(Then(x, BreakOut)), Then(y, z)))}

Bound ==
    UNION {Shapes(x, y, z) \cup Shapes(x, z, y) \cup Shapes(y, x, z)
           \cup Shapes(y, z, x) \cup Shapes(z, x, y) \cup Shapes(z, y, x) :
           x \in Bindings, y \in LocalUses, z \in Writes}

\* Reads that are consumed from the operand stack.
Read == <<I("GetData", 0, 1)>>
Direct ==
    {Read \o code : code \in
        {<<I("Flat", 0, 0), Pop>>,
         <<I("View", 0, 0), I("View", 0, 0), I("Flat", 0, 0), Pop>>,
         <<I("SetData", 0, 1)>>,
         <<I("SetData", 1, 1)>>,
         <<Const, I("SetDataIndexed", 0, 2), Pop>>,
         <<Const, I("NewComposite", 2, 0), Pop>>,
         <<I("Call", 0, 0), I("NewComposite", 2, 0), Pop>>,
         <<I("Call", 1, 0), Pop>>,
         <<I("Yield", 0, 0), Pop>>,
         <<I("Dup", 0, 0), I("SetData", 0, 1), I("Flat", 0, 0), Pop>>,
         <<I("NewComposite", 1, 0), Const, I("SetData", 0, 1), I("Flat", 0, 0), Pop>>,
         <<I("NewComposite", 1, 1), Const, I("SetData", 0, 1), I("Element", 1, 0),
           I("Flat", 0, 0), Pop>>,
         <<I("Boxed", 1, 0), Const, I("SetData", 0, 1), Const, I("Element", 2, 0),
           I("Flat", 0, 0), Pop>>}}
Returned == {Read \o <<I("Return", 0, 0)>>}

\* Of these, the ones no composite of which boxes an uncopied read.
MCChunks ==
    {c \in {Stream(b) : b \in Bound} \cup {Func(d) : d \in Direct}
           \cup {Stream(Loop(d)) : d \in Direct} \cup Returned :
        UncopiedReadsPack(c)}

\* (state.p, Empty {}, f()): the empty struct literal is a NewComposite of no
\* operands right after the read.
MCEmptyChunks ==
    {Func(Read \o <<I("NewComposite", 0, 0), I("Call", 0, 0),
                    I("NewComposite", 3, 0), Pop>>)}

\* A one-element tuple that boxes the read, a write of the slot, and a read of
\* the element: what UncopiedReadsPack leaves out.  With these chunks TLC finds
\* ReadsAreValues violated as well.
MCBoxingChunks ==
    {Func(Read \o <<I("NewComposite", 1, 1), Const, I("SetData", 0, 1),
                    I("Element", 1, 0), I("Flat", 0, 0), Pop>>)}
=============================================================================
