------------------------- MODULE VmLifecycleProofs -------------------------
(***************************************************************************)
(* Proofs about VmLifecycle, for every set of modules the verifier admits  *)
(* and every capacity of the two stacks.                                   *)
(*                                                                         *)
(* The heart is Layout: the frames lie one above the other on the operand  *)
(* stack, each with its locals below the next frame's base, and each has   *)
(* at least the operands its certificate promises at its instruction, one  *)
(* of which may still be due: the result of the callee above it, or the    *)
(* input of the resume that answers a yield.                               *)
(***************************************************************************)
EXTENDS VmLifecycle, TLAPS

Cert(m, c) == CHOOSE d \in Annotations(Code[m][c]) : Certifies(Code[m][c], d)

\* The end of a frame's locals, and the operands certified above it.
Floor(m, f) == f.base + Code[m][f.chunk].locals
Depth(m, f) == Cert(m, f.chunk)[f.ip]

Sited(m, f) ==
    /\ f.chunk \in DOMAIN Code[m]
    /\ f.ip \in DOMAIN Code[m][f.chunk].ops
    /\ f.base \in Nat
    /\ 0 <= Depth(m, f)

Frames == [chunk: Nat, ip: Nat, base: Nat]

Layout(m, fs, h, due) ==
    /\ fs \in Seq(Frames)
    /\ fs # <<>>
    /\ h \in Nat
    /\ fs[1].base = 0
    /\ \A i \in DOMAIN fs : Sited(m, fs[i])
    /\ \A i, j \in DOMAIN fs : i < j => Floor(m, fs[i]) <= fs[j].base
    /\ \A i \in DOMAIN fs :
         i + 1 \in DOMAIN fs => Floor(m, fs[i]) + Depth(m, fs[i]) <= fs[i + 1].base + 1
    /\ Floor(m, fs[Len(fs)]) <= h
    /\ Floor(m, fs[Len(fs)]) + Depth(m, fs[Len(fs)]) <= h + due

\* What the verifier has established of a chunk, in the form the proofs use.
LEMMA CodeFacts ==
    ASSUME NEW m \in Modules, NEW c \in DOMAIN Code[m]
    PROVE  /\ Code[m][c].ops \in Seq(Instructions)
           /\ Code[m][c].locals \in Nat
           /\ Code[m][c].params \in Nat
           /\ Code[m][c].params <= Code[m][c].locals
           /\ 1 \in DOMAIN Code[m][c].ops
           /\ c \in Nat
           /\ verify_chunk(m, c)
<1> DEFINE ch == Code[m][c]
<1>1. /\ Code[m] \in Seq([params: Int, locals: Int, ops: Seq(Instructions)])
      /\ Len(ch.ops) > 0
      /\ verify_chunk(m, c)
  BY VmAssumption
<1>2. ch \in [params: Int, locals: Int, ops: Seq(Instructions)] /\ c \in Nat
  <2> DEFINE R == [params: Int, locals: Int, ops: Seq(Instructions)]
  <2>1. Code[m] \in Seq(R)
    BY <1>1
  <2> HIDE DEF R
  <2>2. c \in 1 .. Len(Code[m]) /\ Len(Code[m]) \in Nat
    BY <2>1
  <2>3. ch \in R
    BY <2>1, <2>2
  <2> QED BY <2>2, <2>3 DEF R
<1>3. 0 <= ch.params /\ ch.params <= ch.locals
  BY <1>1 DEF verify_chunk
<1>4. ch.ops \in Seq(Instructions) /\ 1 \in DOMAIN ch.ops
  BY <1>1, <1>2
<1> QED BY <1>1, <1>2, <1>3, <1>4

\* A certified chunk has a certificate.
LEMMA CertFacts ==
    ASSUME NEW m \in Certified, NEW c \in DOMAIN Code[m]
    PROVE  /\ \A i \in DOMAIN Code[m][c].ops : Cert(m, c)[i] \in Int
           /\ Certifies(Code[m][c], Cert(m, c))
<1>1. \E d \in Annotations(Code[m][c]) : Certifies(Code[m][c], d)
  BY DEF Certified, verify_pop_elision, prove_chunk
<1>2. Cert(m, c) \in Annotations(Code[m][c]) /\ Certifies(Code[m][c], Cert(m, c))
  BY <1>1 DEF Cert
<1>3. \A i \in DOMAIN Code[m][c].ops : Cert(m, c)[i] \in Int
  BY <1>2 DEF Annotations, Unreached
<1> QED BY <1>2, <1>3

----------------------------------------------------------------------------
(* What the certificate's edges give.                                      *)

LEMMA SitedFacts ==
    ASSUME NEW m \in Certified, NEW f \in Frames, Sited(m, f)
    PROVE  /\ Floor(m, f) \in Nat /\ f.base <= Floor(m, f)
           /\ Depth(m, f) \in Nat
           /\ Required(Code[m][f.chunk].ops[f.ip]) <= Depth(m, f)
<1> DEFINE ch == Code[m][f.chunk]
<1>1. m \in Modules
  BY DEF Certified
<1>2. f.chunk \in DOMAIN Code[m] /\ f.ip \in DOMAIN ch.ops /\ f.base \in Nat /\ 0 <= Depth(m, f)
  BY DEF Sited
<1>3. ch.locals \in Nat
  BY <1>1, <1>2, CodeFacts
<1>4. Floor(m, f) \in Nat /\ f.base <= Floor(m, f)
  BY <1>2, <1>3 DEF Floor
<1>5. Depth(m, f) \in Nat
  BY <1>2, CertFacts DEF Depth
<1>6. Depth(m, f) # Unreached
  BY <1>5 DEF Unreached
<1>7. Depth(m, f) >= Required(ch.ops[f.ip])
  BY <1>2, <1>6, CertFacts DEF Certifies, Depth
<1>8. Required(ch.ops[f.ip]) \in Int
  <2>1. ch.ops \in Seq(Instructions)
    BY <1>1, <1>2, CodeFacts
  <2>2. ch.ops[f.ip] \in Instructions
    BY <2>1, <1>2
  <2> QED BY <2>2 DEF Required, Instructions
<1> QED BY <1>4, <1>5, <1>7, <1>8

LEMMA EdgeFacts ==
    ASSUME NEW m \in Certified, NEW f \in Frames, Sited(m, f),
           NEW t \in Successors(Code[m][f.chunk], f.ip)
    PROVE  /\ 0 <= Cert(m, f.chunk)[t]
           /\ Cert(m, f.chunk)[t] <= EdgeDepth(Code[m][f.chunk], f.ip, Depth(m, f))
<1> DEFINE ch == Code[m][f.chunk]
<1>1. f.chunk \in DOMAIN Code[m] /\ f.ip \in DOMAIN ch.ops
  BY DEF Sited
<1>2. Depth(m, f) # Unreached
  BY SitedFacts DEF Unreached
<1> QED BY <1>1, <1>2, CertFacts DEF Certifies, Depth

\* The entry of a certified chunk needs no operand.
LEMMA EntryFacts ==
    ASSUME NEW m \in Certified, NEW c \in DOMAIN Code[m], NEW b \in Nat
    PROVE  LET f == [chunk |-> c, ip |-> 1, base |-> b]
           IN  f \in Frames /\ Sited(m, f) /\ Depth(m, f) = 0
               /\ Floor(m, f) = b + Code[m][c].locals
<1> DEFINE f == [chunk |-> c, ip |-> 1, base |-> b]
<1>1. m \in Modules
  BY DEF Certified
<1>2. c \in Nat /\ 1 \in DOMAIN Code[m][c].ops
  BY <1>1, CodeFacts
<1>3. Cert(m, c)[1] = 0
  BY CertFacts DEF Certifies
<1> QED BY <1>2, <1>3 DEF Frames, Sited, Depth, Floor

----------------------------------------------------------------------------
(* How the layout changes.                                                 *)

LEMMA TopFacts ==
    ASSUME NEW m, NEW fs, NEW h, NEW due, Layout(m, fs, h, due)
    PROVE  /\ Len(fs) \in Nat \ {0}
           /\ DOMAIN fs = 1 .. Len(fs)
           /\ Len(fs) \in DOMAIN fs
           /\ fs[Len(fs)] \in Frames
           /\ Sited(m, fs[Len(fs)])
BY DEF Layout

\* Every frame's locals are on the stack.
LEMMA FloorsBelow ==
    ASSUME NEW m \in Certified, NEW fs, NEW h, NEW due, Layout(m, fs, h, due),
           NEW i \in DOMAIN fs
    PROVE  Floor(m, fs[i]) <= h
<1> DEFINE n == Len(fs)
<1>1. n \in DOMAIN fs /\ DOMAIN fs = 1 .. n /\ n \in Nat /\ fs \in Seq(Frames) /\ h \in Nat
  BY TopFacts DEF Layout
<1>2. fs[i] \in Frames /\ fs[n] \in Frames
  BY <1>1
<1>3. /\ Floor(m, fs[i]) \in Nat
      /\ Floor(m, fs[n]) \in Nat /\ fs[n].base <= Floor(m, fs[n])
      /\ fs[n].base \in Nat
  BY <1>1, <1>2, SitedFacts DEF Layout, Frames
<1>4. Floor(m, fs[n]) <= h /\ (i < n => Floor(m, fs[i]) <= fs[n].base)
  BY <1>1 DEF Layout
<1>5. i = n \/ i < n
  BY <1>1
<1> QED BY <1>1, <1>3, <1>4, <1>5

\* The top frame moves to instruction t and the stack changes above its locals.
LEMMA LayoutMove ==
    ASSUME NEW m \in Certified, NEW fs, NEW h, NEW due, Layout(m, fs, h, due),
           NEW t \in DOMAIN Code[m][fs[Len(fs)].chunk].ops,
           NEW h2 \in Nat, NEW due2 \in Nat,
           0 <= Cert(m, fs[Len(fs)].chunk)[t],
           Floor(m, fs[Len(fs)]) <= h2,
           Floor(m, fs[Len(fs)]) + Cert(m, fs[Len(fs)].chunk)[t] <= h2 + due2
    PROVE  Layout(m, [fs EXCEPT ![Len(fs)].ip = t], h2, due2)
<1> DEFINE n == Len(fs)
           fs2 == [fs EXCEPT ![n].ip = t]
           f2 == [fs[n] EXCEPT !.ip = t]
<1>1. n \in Nat \ {0} /\ DOMAIN fs = 1 .. n /\ n \in DOMAIN fs /\ fs[n] \in Frames /\ Sited(m, fs[n])
  BY TopFacts
<1>0. n \in Nat
  BY <1>1
<1>2. fs \in Seq(Frames)
  BY DEF Layout
<1>3. t \in Nat
  <2>1. m \in Modules /\ fs[n].chunk \in DOMAIN Code[m]
    BY <1>1 DEF Certified, Sited
  <2> DEFINE ops == Code[m][fs[n].chunk].ops
  <2>2. ops \in Seq(Instructions) /\ t \in DOMAIN ops
    BY <2>1, CodeFacts
  <2> HIDE DEF ops
  <2> QED BY <2>2
<1>4. /\ f2 \in Frames
      /\ f2.chunk = fs[n].chunk /\ f2.base = fs[n].base /\ f2.ip = t
  BY <1>1, <1>3 DEF Frames
<1>5. /\ fs2 \in Seq(Frames) /\ Len(fs2) = n /\ DOMAIN fs2 = 1 .. n
      /\ fs2[n] = f2
      /\ \A i \in 1 .. n : i # n => fs2[i] = fs[i]
  BY <1>1, <1>2, <1>4
<1>6. Sited(m, f2) /\ Floor(m, f2) = Floor(m, fs[n]) /\ Depth(m, f2) = Cert(m, fs[n].chunk)[t]
  BY <1>1, <1>4 DEF Sited, Floor, Depth
<1> HIDE DEF fs2, f2
<1>7. fs2 # <<>>
  BY <1>1, <1>5
<1>b. \A i \in 1 .. n : fs2[i].base = fs[i].base
  <2> TAKE i \in 1 .. n
  <2>1. CASE i = n
    BY <2>1, <1>4, <1>5
  <2>2. CASE i # n
    BY <2>2, <1>5
  <2> QED BY <2>1, <2>2
<1>8. fs2[1].base = 0
  <2>1. fs[1].base = 0 /\ 1 \in 1 .. n
    BY <1>1 DEF Layout
  <2> QED BY <2>1, <1>b
<1>9. \A i \in DOMAIN fs2 : Sited(m, fs2[i])
  BY <1>1, <1>5, <1>6 DEF Layout
<1>10. \A i, j \in DOMAIN fs2 : i < j => Floor(m, fs2[i]) <= fs2[j].base
  <2> SUFFICES ASSUME NEW i \in 1 .. n, NEW j \in 1 .. n, i < j
               PROVE  Floor(m, fs2[i]) <= fs2[j].base
    BY <1>5
  <2>1. Floor(m, fs[i]) <= fs[j].base
    BY <1>1 DEF Layout
  <2>2. i # n
    BY <1>1
  <2> QED BY <2>1, <2>2, <1>5, <1>b
<1>11. \A i \in DOMAIN fs2 :
         i + 1 \in DOMAIN fs2 => Floor(m, fs2[i]) + Depth(m, fs2[i]) <= fs2[i + 1].base + 1
  <2> SUFFICES ASSUME NEW i \in 1 .. n, i + 1 \in 1 .. n
               PROVE  Floor(m, fs2[i]) + Depth(m, fs2[i]) <= fs2[i + 1].base + 1
    BY <1>5
  <2>1. Floor(m, fs[i]) + Depth(m, fs[i]) <= fs[i + 1].base + 1
    BY <1>1 DEF Layout
  <2>2. i # n
    BY <1>0
  <2>3. fs2[i] = fs[i] /\ fs2[i + 1].base = fs[i + 1].base
    BY <2>2, <1>5, <1>b
  <2> QED BY <2>1, <2>3
<1>12. Floor(m, fs2[n]) <= h2 /\ Floor(m, fs2[n]) + Depth(m, fs2[n]) <= h2 + due2
  BY <1>5, <1>6
<1>13. Layout(m, fs2, h2, due2)
  BY <1>5, <1>7, <1>8, <1>9, <1>10, <1>11, <1>12 DEF Layout
<1> QED BY <1>13 DEF fs2

\* A chunk is entered on empty stacks.
LEMMA LayoutEnter ==
    ASSUME NEW m \in Certified, NEW c \in DOMAIN Code[m]
    PROVE  Layout(m, Append(<<>>, [chunk |-> c, ip |-> 1, base |-> 0]), Code[m][c].locals, 0)
<1> DEFINE f == [chunk |-> c, ip |-> 1, base |-> 0]
           fs == Append(<<>>, f)
<1>1. f \in Frames /\ Sited(m, f) /\ Depth(m, f) = 0 /\ Floor(m, f) = Code[m][c].locals
      /\ Floor(m, f) \in Nat /\ f.base = 0
  BY EntryFacts, CodeFacts DEF Certified
<1> HIDE DEF f
<1>2. fs \in Seq(Frames) /\ Len(fs) = 1 /\ DOMAIN fs = {1} /\ fs[1] = f /\ fs # <<>>
  BY <1>1
<1> HIDE DEF fs
<1>3. Layout(m, fs, Code[m][c].locals, 0)
  BY <1>1, <1>2 DEF Layout
<1> QED BY <1>3 DEF fs, f

\* A call pushes a frame over the caller, whose operand is now due.
LEMMA LayoutPush ==
    ASSUME NEW m \in Certified, NEW fs, NEW b, Layout(m, fs, b, 1), NEW c \in DOMAIN Code[m]
    PROVE  Layout(m, Append(fs, [chunk |-> c, ip |-> 1, base |-> b]), b + Code[m][c].locals, 0)
<1> DEFINE n == Len(fs)
           f == [chunk |-> c, ip |-> 1, base |-> b]
           fs2 == Append(fs, f)
           h2 == b + Code[m][c].locals
<1>1. n \in Nat \ {0} /\ DOMAIN fs = 1 .. n
  BY TopFacts
<1>0. n \in Nat
  BY <1>1
<1>2. fs \in Seq(Frames) /\ b \in Nat /\ fs[1].base = 0
  BY DEF Layout
<1>3. f \in Frames /\ Sited(m, f) /\ Depth(m, f) = 0 /\ Floor(m, f) = h2 /\ f.base = b
  BY <1>2, EntryFacts
<1>4. h2 \in Nat
  BY <1>2, CodeFacts DEF Certified
<1>5. \A i \in 1 .. n : Floor(m, fs[i]) <= b
  BY <1>1, FloorsBelow
<1>6. Floor(m, fs[n]) + Depth(m, fs[n]) <= b + 1
  BY DEF Layout
<1> HIDE DEF f
<1>7. /\ fs2 \in Seq(Frames) /\ Len(fs2) = n + 1 /\ DOMAIN fs2 = 1 .. (n + 1)
      /\ fs2[n + 1] = f /\ fs2 # <<>>
      /\ \A i \in 1 .. n : fs2[i] = fs[i]
  BY <1>1, <1>2, <1>3
<1> HIDE DEF fs2, h2, n
<1>8. fs2[1].base = 0
  <2>1. 1 \in 1 .. n
    BY <1>1
  <2> QED BY <2>1, <1>2, <1>7
<1>9. \A i \in 1 .. (n + 1) : i \in 1 .. n \/ i = n + 1
  BY <1>0
<1>10. \A i \in DOMAIN fs2 : Sited(m, fs2[i])
  <2>1. \A i \in 1 .. n : Sited(m, fs[i])
    BY <1>1 DEF Layout
  <2> QED BY <2>1, <1>3, <1>7, <1>9
<1>11. \A i, j \in DOMAIN fs2 : i < j => Floor(m, fs2[i]) <= fs2[j].base
  <2> SUFFICES ASSUME NEW i \in 1 .. (n + 1), NEW j \in 1 .. (n + 1), i < j
               PROVE  Floor(m, fs2[i]) <= fs2[j].base
    BY <1>7
  <2>1. i \in 1 .. n
    BY <1>0
  <2>2. CASE j \in 1 .. n
    <3>1. Floor(m, fs[i]) <= fs[j].base
      BY <1>1, <2>1, <2>2 DEF Layout
    <3> QED BY <3>1, <2>1, <2>2, <1>7
  <2>3. CASE j = n + 1
    BY <2>1, <2>3, <1>3, <1>5, <1>7
  <2> QED BY <2>2, <2>3, <1>9
<1>12. \A i \in DOMAIN fs2 :
         i + 1 \in DOMAIN fs2 => Floor(m, fs2[i]) + Depth(m, fs2[i]) <= fs2[i + 1].base + 1
  <2> SUFFICES ASSUME NEW i \in 1 .. (n + 1), i + 1 \in 1 .. (n + 1)
               PROVE  Floor(m, fs2[i]) + Depth(m, fs2[i]) <= fs2[i + 1].base + 1
    BY <1>7
  <2>1. i \in 1 .. n
    BY <1>0
  <2>2. CASE i + 1 \in 1 .. n
    <3>1. Floor(m, fs[i]) + Depth(m, fs[i]) <= fs[i + 1].base + 1
      BY <1>1, <2>1, <2>2 DEF Layout
    <3> QED BY <3>1, <2>1, <2>2, <1>7
  <2>3. CASE i + 1 = n + 1
    <3>1. i = n
      BY <2>3, <1>0
    <3>2. fs2[i] = fs[n] /\ fs2[i + 1].base = b
      BY <3>1, <2>1, <1>3, <1>7
    <3> QED BY <3>2, <1>6
  <2> QED BY <2>2, <2>3, <1>9
<1>13. Floor(m, fs2[n + 1]) <= h2 /\ Floor(m, fs2[n + 1]) + Depth(m, fs2[n + 1]) <= h2 + 0
  BY <1>3, <1>4, <1>7
<1>14. Layout(m, fs2, h2, 0)
  BY <1>4, <1>7, <1>8, <1>10, <1>11, <1>12, <1>13 DEF Layout
<1> QED BY <1>14 DEF fs2, f, h2

\* A return uncovers the caller with the result it was due.
LEMMA LayoutPop ==
    ASSUME NEW m \in Certified, NEW fs, NEW h, NEW due, Layout(m, fs, h, due),
           SubSeq(fs, 1, Len(fs) - 1) # <<>>
    PROVE  Layout(m, SubSeq(fs, 1, Len(fs) - 1), fs[Len(fs)].base + 1, 0)
<1> DEFINE n == Len(fs)
           k == n - 1
           fs2 == SubSeq(fs, 1, k)
           h2 == fs[n].base + 1
<1>1. n \in Nat \ {0} /\ DOMAIN fs = 1 .. n /\ fs[n] \in Frames
  BY TopFacts
<1>2. fs \in Seq(Frames) /\ fs[1].base = 0
  BY DEF Layout
<1>3. k \in Nat /\ k + 1 = n
  BY <1>1
<1>4. fs2 \in Seq(Frames) /\ Len(fs2) = k /\ DOMAIN fs2 = 1 .. k
      /\ \A i \in 1 .. k : fs2[i] = fs[i]
  BY <1>1, <1>2
<1>6. h2 \in Nat
  BY <1>1 DEF Frames
<1>e. fs2 # <<>>
  OBVIOUS
<1> HIDE DEF fs2, k
<1>5. k # 0
  BY <1>4, <1>e
<1>7. \A i \in 1 .. k : i \in DOMAIN fs
  BY <1>1, <1>3
<1>8. fs2[1].base = 0 /\ fs2 # <<>>
  BY <1>2, <1>3, <1>4, <1>5
<1>9. \A i \in DOMAIN fs2 : Sited(m, fs2[i])
  BY <1>4, <1>7 DEF Layout
<1>10. \A i, j \in DOMAIN fs2 : i < j => Floor(m, fs2[i]) <= fs2[j].base
  BY <1>4, <1>7 DEF Layout
<1>11. \A i \in DOMAIN fs2 :
         i + 1 \in DOMAIN fs2 => Floor(m, fs2[i]) + Depth(m, fs2[i]) <= fs2[i + 1].base + 1
  <2> SUFFICES ASSUME NEW i \in 1 .. k, i + 1 \in 1 .. k
               PROVE  Floor(m, fs2[i]) + Depth(m, fs2[i]) <= fs2[i + 1].base + 1
    BY <1>4
  <2>1. i \in DOMAIN fs /\ i + 1 \in DOMAIN fs
    BY <1>7
  <2>2. Floor(m, fs[i]) + Depth(m, fs[i]) <= fs[i + 1].base + 1
    BY <2>1 DEF Layout
  <2>3. fs2[i] = fs[i] /\ fs2[i + 1] = fs[i + 1]
    BY <1>4
  <2> QED BY <2>2, <2>3
<1>12. Floor(m, fs[k]) <= fs[n].base /\ Floor(m, fs[k]) + Depth(m, fs[k]) <= fs[n].base + 1
  <2>1. k \in DOMAIN fs /\ n \in DOMAIN fs /\ k < n /\ k + 1 \in DOMAIN fs
    BY <1>1, <1>3, <1>5
  <2>2. Floor(m, fs[k]) <= fs[n].base
    BY <2>1 DEF Layout
  <2>3. Floor(m, fs[k]) + Depth(m, fs[k]) <= fs[k + 1].base + 1
    BY <2>1 DEF Layout
  <2> QED BY <2>2, <2>3, <1>3
<1>13. fs2[k] = fs[k] /\ Floor(m, fs[k]) \in Int /\ Depth(m, fs[k]) \in Int
  <2>1. k \in 1 .. k
    BY <1>3, <1>5
  <2>2. fs[k] \in Frames
    BY <2>1, <1>2, <1>7
  <2>3. Sited(m, fs[k])
    BY <2>1, <1>7 DEF Layout
  <2> QED BY <2>1, <2>2, <2>3, <1>4, SitedFacts
<1>14. Floor(m, fs2[k]) <= h2 /\ Floor(m, fs2[k]) + Depth(m, fs2[k]) <= h2 + 0
  BY <1>6, <1>12, <1>13, <1>1 DEF Frames
<1> HIDE DEF h2
<1>15. Layout(m, fs2, h2, 0)
  BY <1>4, <1>6, <1>8, <1>9, <1>10, <1>11, <1>14 DEF Layout
<1> QED BY <1>15 DEF fs2, h2, k

----------------------------------------------------------------------------
(* The invariant.                                                          *)

\* What proven execution keeps true, according to who has control and to what
\* the last run ended in.
ProvenLayout ==
    Proven =>
      /\ ~Idle => /\ pop_proof /\ started /\ proof_state = "Poisoned"
                  /\ Layout(image, frames, height, 0)
      /\ Idle /\ proof_state \in {"Ready", "Finished"} => frames = <<>> /\ height = 0
      /\ Idle /\ proof_state \in {"Reset", "Breakpoint"} =>
           /\ pop_proof /\ started /\ Layout(image, frames, height, 0)
           /\ suspended_at_reset = (proof_state = "Reset")
      /\ Idle /\ proof_state = "Yielded" =>
           /\ pop_proof /\ started /\ Layout(image, frames, height, 1)
           /\ suspended_at_reset = FALSE

IInv == image \in Modules /\ pop_proof \in BOOLEAN /\ ProofFollowsImage /\ ProvenLayout

\* A certificate in hand makes the image a certified one.
LEMMA HeldProof ==
    ASSUME IInv, pop_proof
    PROVE  image \in Certified
BY DEF IInv, ProofFollowsImage, prove_image

LEMMA InitInv ==
    Init => IInv
BY DEF Init, IInv, ProofFollowsImage, ProvenLayout, Proven, Idle

\* The host's calls preserve the invariant, entering and resuming included.
LEMMA HostInv ==
    ASSUME IInv, Host
    PROVE  IInv'
<1> USE DEF IInv, ProofFollowsImage, ProvenLayout, Proven, Idle, stacks, proof, debug
<1>1. ASSUME NEW c \in {"Checked", "Proven"}, set_execution_checks(c) PROVE IInv'
  BY <1>1 DEF set_execution_checks, prove_image
<1>2. ASSUME NEW q \in {"Allow", "RequireTrapFree"}, set_trap_policy(q) PROVE IInv'
  BY <1>2 DEF set_trap_policy, prove_image
<1>3. ASSUME NEW p \in Positions, set_breakpoint(p) PROVE IInv'
  BY <1>3 DEF set_breakpoint, prove_image
<1>4. ASSUME NEW p \in Positions, clear_breakpoint(p) PROVE IInv'
  BY <1>4 DEF clear_breakpoint, prove_image
<1>5. CASE clear_breakpoints
  BY <1>5 DEF clear_breakpoints, prove_image
<1>6. ASSUME NEW i \in DOMAIN Code[image], call_function(i) PROVE IInv'
  <2> DEFINE ch == Code[image][i]
             entered == Append(frames, [chunk |-> i, ip |-> 1, base |-> height])
  <2>1. /\ run = "idle" /\ UNCHANGED <<image, pop_proof, execution_checks, trap_policy>>
        /\ Proven => pop_proof /\ proof_state \in {"Ready", "Finished"}
        /\ Proven => proof_state' = "Poisoned"
        /\ \/ /\ height' = height + ch.locals /\ frames' = entered
              /\ started' = TRUE /\ run' = "going"
           \/ run' = "idle"
    BY <1>6 DEF call_function, begin_proven_entry
  <2>2. ASSUME Proven, run' = "going", height' = height + ch.locals, frames' = entered
        PROVE  Layout(image', frames', height', 0)
    <3>1. frames = <<>> /\ height = 0 /\ image \in Certified
      BY <2>1, <2>2, HeldProof
    <3>2. ch.locals \in Nat
      BY <1>6, CodeFacts
    <3>3. frames' = Append(<<>>, [chunk |-> i, ip |-> 1, base |-> 0]) /\ height' = ch.locals
      BY <2>2, <3>1, <3>2
    <3> QED BY <1>6, <2>1, <3>1, <3>3, LayoutEnter
  <2> QED BY <2>1, <2>2 DEF prove_image
<1>7. CASE resume
  <2>1. /\ run = "idle"
        /\ UNCHANGED <<image, frames, started, pop_proof, execution_checks, trap_policy>>
        /\ Proven => pop_proof /\ proof_state \in {"Yielded", "Reset"}
        /\ Proven => proof_state' = "Poisoned"
        /\ \/ height' = height + (IF suspended_at_reset THEN 0 ELSE 1) /\ run' = "going"
           \/ run' = "idle"
    BY <1>7 DEF resume, begin_proven_entry
  <2>2. ASSUME Proven, height' = height + (IF suspended_at_reset THEN 0 ELSE 1)
        PROVE  Layout(image', frames', height', 0)
    <3>1. image \in Certified
      BY <2>1, <2>2, HeldProof
    <3>2. CASE proof_state = "Yielded"
      <4>1. Layout(image, frames, height, 1) /\ height' = height + 1
        BY <2>1, <2>2, <3>2
      <4>2. /\ frames[Len(frames)] \in Frames /\ Sited(image, frames[Len(frames)])
        BY <4>1, TopFacts
      <4>3. /\ Floor(image, frames[Len(frames)]) \in Nat
            /\ Depth(image, frames[Len(frames)]) \in Nat
        BY <3>1, <4>2, SitedFacts
      <4>4. Layout(image, frames, height + 1, 0)
        BY <4>1, <4>3 DEF Layout
      <4> QED BY <2>1, <4>1, <4>4
    <3>3. CASE proof_state = "Reset"
      <4>1. Layout(image, frames, height, 0) /\ height' = height + 0
        BY <2>1, <2>2, <3>3
      <4>2. height' = height
        BY <4>1 DEF Layout
      <4> QED BY <2>1, <4>1, <4>2
    <3> QED BY <2>1, <2>2, <3>2, <3>3
  <2> QED BY <2>1, <2>2 DEF prove_image
<1>8. CASE resume_from_breakpoint
  BY <1>8 DEF resume_from_breakpoint, begin_proven_entry, prove_image
<1>9. CASE reset_after_error
  BY <1>9 DEF reset_after_error, full_reset_arena_internal, prove_image
<1>10. ASSUME NEW m \in Modules, replace_module(m) PROVE IInv'
  BY <1>10 DEF replace_module, SwapAdmitted, full_reset_arena_internal, prove_image
<1>11. ASSUME NEW m \in Modules, replace_module_fails_late(m) PROVE IInv'
  BY <1>11 DEF replace_module_fails_late, SwapAdmitted, full_reset_arena_internal, prove_image
<1> QED BY <1>1, <1>2, <1>3, <1>4, <1>5, <1>6, <1>7, <1>8, <1>9, <1>10, <1>11 DEF Host

\* The dispatch loop changes neither the image nor the proof it holds.
LEMMA RunFrame ==
    ASSUME run_inner
    PROVE  ~Idle /\ UNCHANGED <<image, started, trap_policy, execution_checks, pop_proof>>
<1> USE DEF Dispatch, Continue, Exit, Unwind, proof
<1>1. CASE BreakpointHit \/ OpSimple \/ OpStream \/ OpCall
  BY <1>1 DEF BreakpointHit, OpSimple, OpStream, OpCall
<1>2. CASE OpReturn \/ OpYield \/ OpReset
  BY <1>2 DEF OpReturn, OpYield, OpReset
<1>3. CASE OpFails \/ EndOfChunk
  BY <1>3 DEF OpFails, EndOfChunk
<1> QED BY <1>1, <1>2, <1>3 DEF run_inner

\* The instruction under the top frame of a proven run: its certificate holds of
\* the physical stack.
LEMMA TopOp ==
    ASSUME NEW m \in Certified, m = image, Layout(m, frames, height, 0)
    PROVE  /\ Len(frames) \in Nat \ {0}
           /\ Top \in Frames /\ Sited(m, Top)
           /\ Top.chunk \in DOMAIN Code[m]
           /\ Top.ip \in DOMAIN Chunk(Top).ops /\ Top.ip \in Nat
           /\ ~AtEnd
           /\ Op \in Instructions
           /\ height \in Nat
           /\ Floor(m, Top) \in Nat /\ Top.base \in Nat /\ Top.base <= Floor(m, Top)
           /\ Floor(m, Top) = Top.base + Chunk(Top).locals
           /\ Depth(m, Top) \in Nat
           /\ Required(Op) <= Depth(m, Top)
           /\ Floor(m, Top) + Depth(m, Top) <= height
<1>1. Len(frames) \in Nat \ {0} /\ Top \in Frames /\ Sited(m, Top)
  BY TopFacts DEF Top
<1>2. Top.chunk \in DOMAIN Code[m] /\ Top.ip \in DOMAIN Chunk(Top).ops
  BY <1>1 DEF Sited, Chunk
<1> DEFINE ops == Chunk(Top).ops
<1>3. ops \in Seq(Instructions) /\ Top.ip \in DOMAIN ops
  BY <1>2, CodeFacts DEF Certified, Chunk
<1> HIDE DEF ops
<1>4. Top.ip \in Nat /\ Top.ip <= Len(ops) /\ Len(ops) \in Nat /\ ops[Top.ip] \in Instructions
  BY <1>3
<1>5. ~AtEnd /\ Op \in Instructions
  BY <1>4 DEF AtEnd, Op, ops
<1>6. /\ Floor(m, Top) \in Nat /\ Top.base <= Floor(m, Top) /\ Depth(m, Top) \in Nat
      /\ Required(Op) <= Depth(m, Top)
  BY <1>1, SitedFacts DEF Op, Chunk
<1>7. Top.base \in Nat /\ Floor(m, Top) = Top.base + Chunk(Top).locals
  BY <1>1 DEF Frames, Floor, Chunk
<1>8. height \in Nat /\ Floor(m, Top) + Depth(m, Top) <= height
  <2>1. height \in Nat /\ Floor(m, Top) + Depth(m, Top) <= height + 0
    BY DEF Layout, Top
  <2> QED BY <2>1, <1>6
<1> QED BY <1>1, <1>2, <1>4, <1>5, <1>6, <1>7, <1>8

\* What the verifier has established of the instruction under the top frame.
LEMMA TopVerified ==
    ASSUME NEW m \in Certified, m = image, Layout(m, frames, height, 0)
    PROVE  /\ Op.kind = "simple" => Op.to \subseteq DOMAIN Chunk(Top).ops
           /\ Op.kind \in {"stream", "call", "yield"} => Top.ip + 1 \in DOMAIN Chunk(Top).ops
           /\ Op.kind = "call" => Op.idx \in DOMAIN Code[m] /\ Op.net = 1 - Op.need
           /\ Op.kind = "yield" => Op.need = 1 /\ Op.net = 0
           /\ Op.kind \in {"return", "reset", "stream"} => Op.net = 0
           /\ Op.kind = "reset" => Streams(Chunk(Top)) # {}
<1>1. Top.chunk \in DOMAIN Code[m] /\ Top.ip \in DOMAIN Chunk(Top).ops
  BY TopOp
<1>2. verify_chunk(m, Top.chunk)
  BY <1>1, CodeFacts DEF Certified
<1> QED BY <1>1, <1>2 DEF verify_chunk, op_depth_effect, verify_stack_depth, verify_call,
                          verify_block_type, Op, Chunk

\* A reset goes back to an instruction that needs no operand, if the stream
\* instruction is the chunk's first.
LEMMA ResetEntry ==
    ASSUME StreamFirst, NEW m \in Certified, NEW f \in Frames, Sited(m, f),
           Code[m][f.chunk].ops[f.ip].kind = "reset"
    PROVE  /\ StreamEntry(Code[m][f.chunk]) \in DOMAIN Code[m][f.chunk].ops
           /\ Cert(m, f.chunk)[StreamEntry(Code[m][f.chunk])] = 0
<1> DEFINE ch == Code[m][f.chunk]
           d == Cert(m, f.chunk)
<1>1. m \in Modules /\ f.chunk \in DOMAIN Code[m] /\ f.ip \in DOMAIN ch.ops
  BY DEF Certified, Sited
<1>2. verify_chunk(m, f.chunk) /\ 1 \in DOMAIN ch.ops
  BY <1>1, CodeFacts
<1>3. Streams(ch) # {} /\ Streams(ch) \subseteq {1}
  BY <1>1, <1>2 DEF verify_chunk, verify_block_type, StreamFirst
<1>4. StreamEntry(ch) = 2 /\ ch.ops[1].kind = "stream"
  <2>1. Streams(ch) = {1}
    BY <1>3
  <2> DEFINE s == CHOOSE i \in Streams(ch) : TRUE
  <2>2. s = 1
    BY <2>1
  <2>3. StreamEntry(ch) = s + 1
    BY Zenon DEF StreamEntry
  <2> HIDE DEF s
  <2>4. ch.ops[1].kind = "stream"
    BY <2>1 DEF Streams
  <2> QED BY <2>2, <2>3, <2>4
<1>5. 1 + 1 \in DOMAIN ch.ops /\ ch.ops[1].net = 0
  BY <1>2, <1>4 DEF verify_chunk, op_depth_effect, verify_stack_depth
<1>6. Successors(ch, 1) = {1 + 1} /\ EdgeDepth(ch, 1, 0) = 0 + 0
  BY <1>4, <1>5 DEF Successors, EdgeDepth
<1>7. d[1] = 0 /\ d[1] # Unreached /\ Certifies(ch, d)
  BY <1>1, CertFacts DEF Certifies, Unreached
<1>8. 0 <= d[2] /\ d[2] <= 0
  BY <1>2, <1>6, <1>7 DEF Certifies
<1>9. d[2] \in Int
  BY <1>1, <1>5, CertFacts
<1> QED BY <1>4, <1>5, <1>8, <1>9

\* Every step of the dispatch loop preserves the invariant.
LEMMA RunInv ==
    ASSUME StreamFirst, IInv, run_inner
    PROVE  IInv'
<1> DEFINE Loaded == image' \in Modules /\ pop_proof' \in BOOLEAN /\ ProofFollowsImage'
<1>1. ~Idle /\ UNCHANGED <<image, started, trap_policy, execution_checks, pop_proof>>
  BY RunFrame
<1>2. Loaded
  BY <1>1 DEF IInv, ProofFollowsImage, Proven, prove_image
<1>3. CASE ~Proven
  BY <1>1, <1>2, <1>3 DEF IInv, ProvenLayout, Proven
<1>4. CASE Proven
  <2>1. /\ pop_proof /\ started /\ proof_state = "Poisoned" /\ Layout(image, frames, height, 0)
        /\ image \in Certified
    BY <1>1, <1>4, HeldProof DEF IInv, ProvenLayout
  <2> DEFINE n == Len(frames)
             d == Cert(image, Top.chunk)
             ch == Chunk(Top)
  <2>2. /\ n \in Nat \ {0} /\ Top = frames[n] /\ ch = Code[image][frames[n].chunk]
        /\ Top \in Frames /\ Sited(image, Top)
        /\ Top.chunk \in DOMAIN Code[image]
        /\ Top.ip \in DOMAIN ch.ops /\ Top.ip \in Nat
        /\ ~AtEnd
        /\ Op \in Instructions
        /\ height \in Nat
        /\ Floor(image, Top) \in Nat /\ Top.base \in Nat /\ Top.base <= Floor(image, Top)
        /\ Floor(image, Top) = Top.base + ch.locals
        /\ Depth(image, Top) \in Nat
        /\ Required(Op) <= Depth(image, Top)
        /\ Floor(image, Top) + Depth(image, Top) <= height
    BY <2>1, TopOp DEF Top, Chunk
  \* Where the layout is restored, the loop goes on or stops as the result says.
  <2>3. ASSUME Layout(image, frames', height', 0), Continue
        PROVE  IInv'
    BY <2>1, <2>3, <1>1, <1>2, <1>4 DEF IInv, ProvenLayout, Proven, Idle, Continue, proof
  <2>4. ASSUME NEW r \in {"Reset", "Breakpoint"}, Layout(image, frames', height', 0), Exit(r)
        PROVE  IInv'
    BY <2>1, <2>4, <1>1, <1>2, <1>4 DEF IInv, ProvenLayout, Proven, Idle, Exit
  <2>5. ASSUME Layout(image, frames', height', 1), Exit("Yielded")
        PROVE  IInv'
    <3>1. run' = "idle" /\ proof_state' = "Yielded" /\ suspended_at_reset' = FALSE
      BY <2>5, <1>4 DEF Exit, Proven
    <3> QED BY <2>1, <2>5, <3>1, <1>1, <1>2 DEF IInv, ProvenLayout, Proven, Idle
  <2>6. ASSUME frames' = <<>>, height' = 0, Exit("Finished")
        PROVE  IInv'
    BY <2>1, <2>6, <1>1, <1>2, <1>4 DEF IInv, ProvenLayout, Proven, Idle, Exit
  <2>7. ASSUME Exit("Err") \/ Unwind
        PROVE  IInv'
    BY <2>1, <2>7, <1>1, <1>2, <1>4 DEF IInv, ProvenLayout, Proven, Idle, Exit, Unwind, proof
  \* An edge of the certificate that the top frame follows.
  <2>8. ASSUME NEW t \in Successors(ch, Top.ip), t \in DOMAIN ch.ops
        PROVE  0 <= d[t] /\ d[t] \in Int /\ d[t] <= EdgeDepth(ch, Top.ip, Depth(image, Top))
    BY <2>1, <2>2, <2>8, EdgeFacts, CertFacts DEF Chunk
  <2>m. ASSUME NEW t \in DOMAIN ch.ops, NEW h2 \in Nat, NEW due2 \in {0, 1}, 0 <= d[t],
               Floor(image, Top) <= h2, Floor(image, Top) + d[t] <= h2 + due2
        PROVE  Layout(image, [frames EXCEPT ![n].ip = t], h2, due2)
    BY <2>1, <2>2, <2>m, LayoutMove
  <2>9. CASE BreakpointHit
    <3>1. Layout(image, frames', height', 0) /\ Exit("Breakpoint")
      BY <2>1, <2>9 DEF BreakpointHit, stacks
    <3> QED BY <3>1, <2>4
  <2>10. CASE EndOfChunk
    BY <2>2, <2>10 DEF EndOfChunk
  <2>11. CASE OpFails
    BY <2>7, <2>11 DEF OpFails
  <2>12. CASE OpSimple
    <3>1. PICK t \in Op.to : frames' = [frames EXCEPT ![n].ip = t]
      BY <2>12 DEF OpSimple, Jump
    <3>2. Op.kind = "simple" /\ height' = height + Op.net /\ Continue
      BY <2>12 DEF OpSimple, Dispatch
    <3>3. t \in DOMAIN ch.ops /\ t \in Successors(ch, Top.ip)
      BY <2>1, <3>1, <3>2, TopVerified DEF Successors, Op
    <3>4. EdgeDepth(ch, Top.ip, Depth(image, Top)) = Depth(image, Top) + Op.net
      BY <3>2 DEF EdgeDepth, Op
    <3>5. Op.net \in Int /\ 0 <= d[t] /\ d[t] \in Int /\ d[t] <= Depth(image, Top) + Op.net
      BY <2>2, <2>8, <3>3, <3>4 DEF Instructions
    <3>6. /\ height' \in Nat /\ Floor(image, Top) <= height'
          /\ Floor(image, Top) + d[t] <= height' + 0
      BY <2>2, <3>2, <3>5, SMTT(30)
    <3>7. Layout(image, frames', height', 0)
      BY <2>m, <3>1, <3>3, <3>5, <3>6
    <3> QED BY <2>3, <3>2, <3>7
  <2>13. CASE OpStream
    <3> DEFINE t == Top.ip + 1
    <3>1. Op.kind = "stream" /\ height' = height /\ Continue
          /\ frames' = [frames EXCEPT ![n].ip = t]
      BY <2>13 DEF OpStream, Dispatch, Jump
    <3>2. t \in DOMAIN ch.ops /\ t \in Successors(ch, Top.ip) /\ Op.net = 0
      BY <2>1, <3>1, TopVerified DEF Successors, Op
    <3>3. EdgeDepth(ch, Top.ip, Depth(image, Top)) = Depth(image, Top) + 0
      BY <3>1, <3>2 DEF EdgeDepth, Op
    <3>4. 0 <= d[t] /\ d[t] \in Int /\ d[t] <= Depth(image, Top)
      <4>1. 0 <= d[t] /\ d[t] \in Int /\ d[t] <= EdgeDepth(ch, Top.ip, Depth(image, Top))
        BY <2>8, <3>2, Zenon
      <4>2. Depth(image, Top) + 0 = Depth(image, Top)
        BY <2>2
      <4> QED BY <3>3, <4>1, <4>2, Zenon
    <3> HIDE DEF t
    <3>5. /\ Floor(image, Top) <= height
          /\ Floor(image, Top) + d[t] <= height + 0
      BY <2>2, <3>4
    <3>6. Layout(image, frames', height', 0)
      <4>1. Layout(image, [frames EXCEPT ![n].ip = t], height, 0)
        BY <2>2, <2>m, <3>2, <3>4, <3>5
      <4> QED BY <3>1, <4>1
    <3> QED BY <2>3, <3>1, <3>6
  <2>14. CASE OpCall
    <3> DEFINE b == height - Op.need
               t == Top.ip + 1
               moved == [frames EXCEPT ![n].ip = t]
    <3>1. /\ Op.kind = "call" /\ Continue
          /\ height' = b + Code[image][Op.idx].locals
          /\ frames' = Append(moved, [chunk |-> Op.idx, ip |-> 1, base |-> b])
      BY <2>14 DEF OpCall, Dispatch, Jump
    <3>2. /\ t \in DOMAIN ch.ops /\ t \in Successors(ch, Top.ip)
          /\ Op.net = 1 - Op.need /\ Op.idx \in DOMAIN Code[image]
      BY <2>1, <3>1, TopVerified DEF Successors, Op
    <3>3. /\ EdgeDepth(ch, Top.ip, Depth(image, Top)) = Depth(image, Top) + (1 - Op.need)
          /\ Required(Op) = Op.need
      BY <3>1, <3>2 DEF EdgeDepth, Op, Required
    <3>4. /\ 0 <= d[t] /\ d[t] \in Int
          /\ d[t] <= Depth(image, Top) + (1 - Op.need)
      BY <2>2, <2>8, <3>2, <3>3
    <3>5. Op.need \in Int
      BY <2>2 DEF Instructions
    <3> HIDE DEF t
    <3>6. b \in Nat /\ Floor(image, Top) <= b /\ Floor(image, Top) + d[t] <= b + 1
      <4>1. Op.need <= Depth(image, Top)
        BY <2>2, <3>3
      <4>2. /\ height \in Nat /\ Floor(image, Top) \in Nat /\ Depth(image, Top) \in Nat
            /\ Floor(image, Top) + Depth(image, Top) <= height
        BY <2>2
      <4> QED BY <4>1, <4>2, <3>4, <3>5
    <3> HIDE DEF b
    <3>7. Layout(image, moved, b, 1)
      BY <2>m, <3>2, <3>4, <3>6
    <3>8. Layout(image, frames', height', 0)
      BY <2>1, <3>1, <3>2, <3>7, LayoutPush
    <3> QED BY <2>3, <3>1, <3>8
  <2>15. CASE OpReturn
    <3>1. /\ Op.kind = "return" /\ frames' = SubSeq(frames, 1, n - 1)
          /\ \/ frames' = <<>> /\ height' = Truncated /\ Exit("Finished")
             \/ frames' # <<>> /\ height' = Truncated + 1 /\ Continue
      BY <2>15 DEF OpReturn, Dispatch, Callers
    <3>2. Required(Op) = 1
      BY <3>1 DEF Required
    <3>3. Truncated = Top.base
      BY <2>2, <3>2 DEF Truncated
    <3>4. ASSUME frames' = <<>> PROVE Top.base = 0
      <4>1. frames \in Seq(Frames) /\ frames[1].base = 0
        BY <2>1 DEF Layout
      <4> DEFINE k == n - 1
                 s == SubSeq(frames, 1, k)
      <4>2. k \in Nat /\ n = k + 1
        BY <2>2
      <4>3. s = <<>> /\ Len(s) = k
        BY <3>1, <3>4, <4>1, <4>2
      <4> HIDE DEF s, k
      <4>4. n = 1
        BY <4>2, <4>3
      <4> QED BY <2>2, <4>1, <4>4
    <3>5. ASSUME frames' # <<>> PROVE Layout(image, frames', Top.base + 1, 0)
      BY <2>1, <2>2, <3>1, <3>5, LayoutPop
    <3> QED BY <2>3, <2>6, <3>1, <3>3, <3>4, <3>5
  <2>16. CASE OpYield
    <3>1. Op.kind = "yield" /\ height' = height - 1 /\ Exit("Yielded")
          /\ frames' = [frames EXCEPT ![n].ip = Top.ip + 1]
      BY <2>16 DEF OpYield, Dispatch, Jump
    <3>2. /\ Top.ip + 1 \in DOMAIN ch.ops /\ Top.ip + 1 \in Successors(ch, Top.ip)
          /\ Op.net = 0 /\ Op.need = 1
      BY <2>1, <3>1, TopVerified DEF Successors, Op
    <3>3. EdgeDepth(ch, Top.ip, Depth(image, Top)) = Depth(image, Top) + 0 /\ Required(Op) = 1
      BY <3>1, <3>2 DEF EdgeDepth, Op, Required
    <3>4. 0 <= d[Top.ip + 1] /\ d[Top.ip + 1] \in Int /\ d[Top.ip + 1] <= Depth(image, Top)
      <4> DEFINE t == Top.ip + 1
      <4>1. 0 <= d[t] /\ d[t] \in Int /\ d[t] <= EdgeDepth(ch, Top.ip, Depth(image, Top))
        BY <2>8, <3>2, Zenon
      <4>2. Depth(image, Top) + 0 = Depth(image, Top)
        BY <2>2
      <4> QED BY <3>3, <4>1, <4>2, Zenon
    <3>5. /\ height' \in Nat /\ Floor(image, Top) <= height'
          /\ Floor(image, Top) + d[Top.ip + 1] <= height' + 1
      BY <2>2, <3>1, <3>3, <3>4
    <3>6. Layout(image, frames', height', 1)
      BY <2>m, <3>1, <3>2, <3>4, <3>5
    <3> QED BY <2>5, <3>1, <3>6
  <2>17. CASE OpReset
    <3> DEFINE t == StreamEntry(ch)
    <3>1. Op.kind = "reset" /\ height' = Top.base + ch.locals /\ Exit("Reset")
          /\ frames' = [frames EXCEPT ![n].ip = t]
      BY <2>17 DEF OpReset, Dispatch, Jump
    <3>2. t \in DOMAIN ch.ops /\ d[t] = 0
      BY <2>1, <2>2, <3>1, ResetEntry DEF Chunk, Op
    <3> HIDE DEF t
    <3>3. height' \in Nat /\ height' = Floor(image, Top)
      BY <2>2, <3>1
    <3>4. Floor(image, Top) <= height' /\ Floor(image, Top) + d[t] <= height' + 0 /\ 0 <= d[t]
      BY <2>2, <3>2, <3>3
    <3>5. Layout(image, frames', height', 0)
      <4>1. Layout(image, [frames EXCEPT ![n].ip = t], height', 0)
        BY <2>m, <3>2, <3>3, <3>4
      <4> QED BY <3>1, <4>1
    <3> QED BY <2>4, <3>1, <3>5
  <2> QED BY <2>9, <2>10, <2>11, <2>12, <2>13, <2>14, <2>15, <2>16, <2>17 DEF run_inner
<1> QED BY <1>3, <1>4

\* Nothing else the invariant reads changes in a stuttering step.
LEMMA StutterInv ==
    ASSUME IInv, UNCHANGED vars
    PROVE  IInv'
BY DEF IInv, ProofFollowsImage, ProvenLayout, Proven, Idle, prove_image, vars, stacks, proof, debug

----------------------------------------------------------------------------
(* The theorems.                                                           *)

\* The inductive invariant holds throughout, for compiler-shaped loops.
THEOREM Invariance ==
    ASSUME StreamFirst
    PROVE  Spec => []IInv
<1>1. IInv /\ [Next]_vars => IInv'
  BY HostInv, RunInv, StutterInv DEF Next
<1> QED BY InitInv, <1>1, PTL DEF Spec

\* Proven execution never meets an instruction without its operands: the pop
\* the certificate lets the dispatch loop do without a check (vm.rs, pop) has
\* its operand above the frame's locals.
THEOREM ProvenOperandsTheorem ==
    ASSUME StreamFirst
    PROVE  Spec => []ProvenOperands
<1>1. IInv => ProvenOperands
  <2> SUFFICES ASSUME IInv, ~Idle, Proven
               PROVE  ~AtEnd /\ height >= Top.base + Chunk(Top).locals + Required(Op)
    BY DEF ProvenOperands
  <2>1. Layout(image, frames, height, 0) /\ image \in Certified
    BY HeldProof DEF IInv, ProvenLayout
  <2>2. /\ ~AtEnd /\ height \in Nat /\ Floor(image, Top) \in Nat /\ Depth(image, Top) \in Nat
        /\ Floor(image, Top) = Top.base + Chunk(Top).locals
        /\ Required(Op) <= Depth(image, Top)
        /\ Floor(image, Top) + Depth(image, Top) <= height
        /\ Op \in Instructions
    BY <2>1, TopOp
  <2>3. Required(Op) \in Int
    BY <2>2 DEF Required, Instructions
  <2>4. height >= Floor(image, Top) + Required(Op)
    BY <2>2, <2>3
  <2> QED BY <2>2, <2>4
<1> QED BY <1>1, Invariance, PTL

\* A proven machine that accepts a call has empty stacks (vm.rs,
\* begin_proven_entry and the states it admits).
THEOREM CallableIsCleanTheorem ==
    ASSUME StreamFirst
    PROVE  Spec => []CallableIsClean
<1>1. IInv => CallableIsClean
  BY DEF IInv, ProvenLayout, CallableIsClean
<1> QED BY <1>1, Invariance, PTL

\* A proven machine that says it is suspended is, waits for an input exactly
\* when resume pushes one, and has the slot the input goes to (vm.rs, run and
\* resume_after_enter).
THEOREM SuspensionMatchesTheorem ==
    ASSUME StreamFirst
    PROVE  Spec => []SuspensionMatches
<1>1. IInv => SuspensionMatches
  <2> SUFFICES ASSUME IInv, Idle, Proven, proof_state \in {"Yielded", "Reset", "Breakpoint"}
               PROVE  /\ Suspended
                      /\ suspended_at_reset <=> proof_state = "Reset"
                      /\ InputSlotPresent
    BY DEF SuspensionMatches
  <2>1. PICK due \in {0, 1} : Layout(image, frames, height, due)
    BY DEF IInv, ProvenLayout
  <2>2. pop_proof /\ started /\ (suspended_at_reset <=> proof_state = "Reset")
    BY DEF IInv, ProvenLayout
  <2>3. Suspended
    BY <2>1, <2>2 DEF Suspended, Layout
  <2>4. InputSlotPresent
    <3> SUFFICES ASSUME NEW i \in StreamFrames, Chunk(frames[i]).params > 0
                 PROVE  height > frames[i].base
      BY DEF InputSlotPresent
    <3>1. i \in DOMAIN frames /\ image \in Certified
      BY <2>2, HeldProof DEF StreamFrames
    <3>2. Floor(image, frames[i]) <= height /\ height \in Nat
      BY <2>1, <3>1, FloorsBelow DEF Layout
    <3>3. Sited(image, frames[i])
      BY <2>1, <3>1 DEF Layout
    <3>4. frames[i].chunk \in DOMAIN Code[image] /\ frames[i].base \in Nat
      BY <3>3 DEF Sited
    <3>5. /\ Chunk(frames[i]).locals \in Nat /\ Chunk(frames[i]).params \in Nat
          /\ Chunk(frames[i]).params <= Chunk(frames[i]).locals
      BY <3>1, <3>4, CodeFacts DEF Certified, Chunk
    <3>6. frames[i].base + Chunk(frames[i]).locals <= height
      BY <3>2 DEF Floor, Chunk
    <3> QED BY <3>2, <3>4, <3>5, <3>6
  <2> QED BY <2>2, <2>3, <2>4
<1> QED BY <1>1, Invariance, PTL

\* The certificate a machine holds is the loaded image's under the policy in
\* force (vm.rs, replace_module_inner and set_trap_policy), whatever the shape
\* of the loops.
THEOREM ProofFollowsImageTheorem ==
    Spec => []ProofFollowsImage
<1> DEFINE P == pop_proof \in BOOLEAN /\ ProofFollowsImage
<1> USE DEF ProofFollowsImage, prove_image, Proven
<1>1. Init => P
  BY DEF Init
<1>2. P /\ [Next]_vars => P'
  <2> SUFFICES ASSUME P, [Next]_vars PROVE P'
    OBVIOUS
  <2> USE DEF stacks, proof
  <2>1. CASE run_inner
    BY <2>1, RunFrame
  <2>2. ASSUME NEW c \in {"Checked", "Proven"}, set_execution_checks(c) PROVE P'
    BY <2>2 DEF set_execution_checks
  <2>3. ASSUME NEW q \in {"Allow", "RequireTrapFree"}, set_trap_policy(q) PROVE P'
    BY <2>3 DEF set_trap_policy
  <2>4. ASSUME NEW p \in Positions, set_breakpoint(p) \/ clear_breakpoint(p) PROVE P'
    BY <2>4 DEF set_breakpoint, clear_breakpoint
  <2>5. CASE clear_breakpoints
    BY <2>5 DEF clear_breakpoints
  <2>6. ASSUME NEW i \in DOMAIN Code[image], call_function(i) PROVE P'
    BY <2>6 DEF call_function, begin_proven_entry
  <2>7. CASE resume \/ resume_from_breakpoint
    BY <2>7 DEF resume, resume_from_breakpoint, begin_proven_entry
  <2>8. CASE reset_after_error
    BY <2>8 DEF reset_after_error
  <2>9. ASSUME NEW m \in Modules, replace_module(m) PROVE P'
    BY <2>9 DEF replace_module, SwapAdmitted
  <2>10. ASSUME NEW m \in Modules, replace_module_fails_late(m) PROVE P'
    BY <2>10 DEF replace_module_fails_late
  <2>11. CASE UNCHANGED vars
    BY <2>11 DEF vars
  <2> QED BY <2>1, <2>2, <2>3, <2>4, <2>5, <2>6, <2>7, <2>8, <2>9, <2>10, <2>11 DEF Next, Host
<1>3. P => ProofFollowsImage
  OBVIOUS
<1> QED BY <1>1, <1>2, <1>3, PTL DEF Spec

\* No path leads from a failed run to proven execution over what it left
\* (vm.rs, begin_proven_entry, set_execution_checks and reset_after_error),
\* whatever the shape of the loops.
THEOREM PoisonClearedCleanTheorem ==
    Spec => PoisonClearedClean
<1> DEFINE A == Idle /\ proof_state = "Poisoned" /\ proof_state' # "Poisoned" =>
                  \/ frames' = <<>> /\ height' = 0 /\ ~started'
                  \/ execution_checks' = "Checked"
<1>1. Next => A
  <2> USE DEF Idle, Proven, stacks, proof
  <2>1. CASE run_inner
    BY <2>1, RunFrame
  <2>2. ASSUME NEW c \in {"Checked", "Proven"}, set_execution_checks(c) PROVE A
    BY <2>2 DEF set_execution_checks
  <2>3. ASSUME NEW q \in {"Allow", "RequireTrapFree"}, set_trap_policy(q) PROVE A
    BY <2>3 DEF set_trap_policy
  <2>4. ASSUME NEW p \in Positions, set_breakpoint(p) \/ clear_breakpoint(p) PROVE A
    BY <2>4 DEF set_breakpoint, clear_breakpoint
  <2>5. CASE clear_breakpoints
    BY <2>5 DEF clear_breakpoints
  <2>6. ASSUME NEW i \in DOMAIN Code[image], call_function(i) PROVE A
    BY <2>6 DEF call_function, begin_proven_entry
  <2>7. CASE resume \/ resume_from_breakpoint
    BY <2>7 DEF resume, resume_from_breakpoint, begin_proven_entry
  <2>8. CASE reset_after_error
    BY <2>8 DEF reset_after_error, full_reset_arena_internal
  <2>9. ASSUME NEW m \in Modules, replace_module(m) \/ replace_module_fails_late(m) PROVE A
    BY <2>9 DEF replace_module, replace_module_fails_late, full_reset_arena_internal
  <2> QED BY <2>1, <2>2, <2>3, <2>4, <2>5, <2>6, <2>7, <2>8, <2>9 DEF Next, Host
<1>2. [Next]_vars => [A]_vars
  BY <1>1
<1> QED BY <1>2, PTL DEF Spec, PoisonClearedClean

----------------------------------------------------------------------------
(* Type correctness, in checked execution as well: no certificate is used, *)
(* only what verify::verify has established and the run-time checks.       *)

\* A frame names an instruction of its chunk or the end of the chunk.
FrameOK(m, f) ==
    /\ f.chunk \in DOMAIN Code[m]
    /\ f.ip \in 1 .. Len(Code[m][f.chunk].ops) + 1
    /\ f.base \in 0 .. StackCapacity

FramesOK(m, fs) ==
    /\ fs \in Seq(Frames)
    /\ Len(fs) <= FrameCapacity
    /\ \A i \in DOMAIN fs : FrameOK(m, fs[i])

FlagsOK ==
    /\ {started, suspended_at_reset, pop_proof, saturated} \subseteq BOOLEAN
    /\ execution_checks \in {"Checked", "Proven"}
    /\ proof_state \in ProofStates
    /\ trap_policy \in {"Allow", "RequireTrapFree"}
    /\ breakpoints \subseteq Positions
    /\ run \in {"idle", "resumed", "going"}

TypeInv ==
    /\ image \in Modules
    /\ height \in 0 .. StackCapacity
    /\ FramesOK(image, frames)
    /\ FlagsOK
    /\ ~Idle => Suspended

LEMMA EmptyOK == ASSUME NEW m PROVE FramesOK(m, <<>>)
<1>1. <<>> \in Seq(Frames) /\ Len(<<>>) = 0 /\ DOMAIN <<>> = {}
  OBVIOUS
<1> QED BY <1>1, VmAssumption DEF FramesOK

\* The top frame moves.
LEMMA JumpOK ==
    ASSUME NEW m, NEW fs, FramesOK(m, fs), fs # <<>>,
           NEW t \in 1 .. Len(Code[m][fs[Len(fs)].chunk].ops) + 1
    PROVE  FramesOK(m, [fs EXCEPT ![Len(fs)].ip = t]) /\ [fs EXCEPT ![Len(fs)].ip = t] # <<>>
           /\ Len([fs EXCEPT ![Len(fs)].ip = t]) = Len(fs)
<1> DEFINE n == Len(fs)
           f2 == [fs[n] EXCEPT !.ip = t]
           fs2 == [fs EXCEPT ![n].ip = t]
<1>1. fs \in Seq(Frames) /\ n \in Nat /\ DOMAIN fs = 1 .. n /\ n # 0
  BY DEF FramesOK
<1>2. fs[n] \in Frames /\ FrameOK(m, fs[n]) /\ n \in 1 .. n
  BY <1>1 DEF FramesOK
<1>3. f2 \in Frames /\ FrameOK(m, f2)
  <2>1. t \in Nat
    OBVIOUS
  <2> QED BY <1>2, <2>1 DEF FrameOK, Frames
<1>4. fs2 \in Seq(Frames) /\ Len(fs2) = n /\ DOMAIN fs2 = 1 .. n /\ fs2[n] = f2
      /\ \A i \in 1 .. n : i # n => fs2[i] = fs[i]
  BY <1>1, <1>2, <1>3
<1> HIDE DEF fs2, f2
<1>5. \A i \in DOMAIN fs2 : FrameOK(m, fs2[i])
  BY <1>1, <1>3, <1>4 DEF FramesOK
<1>6. FramesOK(m, fs2) /\ fs2 # <<>> /\ Len(fs2) = n
  BY <1>1, <1>4, <1>5 DEF FramesOK
<1> QED BY <1>6 DEF fs2

\* A chunk is entered.
LEMMA PushOK ==
    ASSUME NEW m \in Modules, NEW fs, FramesOK(m, fs), Len(fs) < FrameCapacity,
           NEW c \in DOMAIN Code[m], NEW b \in 0 .. StackCapacity
    PROVE  /\ FramesOK(m, Append(fs, [chunk |-> c, ip |-> 1, base |-> b]))
           /\ Append(fs, [chunk |-> c, ip |-> 1, base |-> b]) # <<>>
<1> DEFINE n == Len(fs)
           f == [chunk |-> c, ip |-> 1, base |-> b]
           fs2 == Append(fs, f)
<1>1. fs \in Seq(Frames) /\ n \in Nat /\ DOMAIN fs = 1 .. n
  BY DEF FramesOK
<1>2. f \in Frames /\ FrameOK(m, f)
  <2>1. 1 \in DOMAIN Code[m][c].ops /\ c \in Nat /\ Code[m][c].ops \in Seq(Instructions)
    BY CodeFacts
  <2>2. b \in Nat /\ 1 \in 1 .. Len(Code[m][c].ops) + 1
    BY <2>1, VmAssumption, SMTT(30)
  <2> QED BY <2>1, <2>2 DEF Frames, FrameOK
<1> HIDE DEF f
<1>3. /\ fs2 \in Seq(Frames) /\ Len(fs2) = n + 1 /\ DOMAIN fs2 = 1 .. (n + 1)
      /\ fs2[n + 1] = f /\ fs2 # <<>>
      /\ \A i \in 1 .. n : fs2[i] = fs[i]
  BY <1>1, <1>2
<1> HIDE DEF fs2
<1>4. \A i \in 1 .. (n + 1) : i \in 1 .. n \/ i = n + 1
  BY <1>1
<1>5. \A i \in DOMAIN fs2 : FrameOK(m, fs2[i])
  BY <1>1, <1>2, <1>3, <1>4 DEF FramesOK
<1>6. n + 1 <= FrameCapacity
  BY <1>1, VmAssumption
<1> QED BY <1>3, <1>5, <1>6 DEF FramesOK, fs2, f

\* The top frame leaves.
LEMMA PopOK ==
    ASSUME NEW m, NEW fs, FramesOK(m, fs), fs # <<>>
    PROVE  FramesOK(m, SubSeq(fs, 1, Len(fs) - 1))
<1> DEFINE n == Len(fs)
           fs2 == SubSeq(fs, 1, n - 1)
<1>1. fs \in Seq(Frames) /\ n \in Nat /\ DOMAIN fs = 1 .. n /\ n # 0 /\ n <= FrameCapacity
  BY DEF FramesOK
<1>2. fs2 \in Seq(Frames) /\ Len(fs2) = n - 1 /\ DOMAIN fs2 = 1 .. (n - 1)
      /\ \A i \in 1 .. (n - 1) : fs2[i] = fs[i]
  BY <1>1
<1> HIDE DEF fs2
<1>3. \A i \in DOMAIN fs2 : FrameOK(m, fs2[i])
  BY <1>1, <1>2 DEF FramesOK
<1>4. n - 1 <= FrameCapacity
  BY <1>1, VmAssumption
<1> QED BY <1>2, <1>3, <1>4 DEF FramesOK, fs2

\* What the dispatch loop finds when it executes an instruction.
LEMMA OpFacts ==
    ASSUME TypeInv, ~Idle
    PROVE  /\ frames # <<>> /\ started
           /\ FrameOK(image, Top) /\ Top.base \in Nat
           /\ Len(Chunk(Top).ops) \in Nat
           /\ ~AtEnd => /\ Top.ip \in DOMAIN Chunk(Top).ops
                        /\ Op \in Instructions
                        /\ op_depth_effect(Op) /\ verify_call(image, Op)
                        /\ Top.ip + 1 \in 1 .. Len(Chunk(Top).ops) + 1
<1>1. frames # <<>> /\ started /\ frames \in Seq(Frames)
  BY DEF TypeInv, Suspended, FramesOK
<1>2. Len(frames) \in DOMAIN frames
  BY <1>1
<1>3. FrameOK(image, Top) /\ image \in Modules
  BY <1>2 DEF TypeInv, FramesOK, Top
<1>4. Chunk(Top).ops \in Seq(Instructions) /\ verify_chunk(image, Top.chunk)
  BY <1>3, CodeFacts DEF FrameOK, Chunk
<1>5. Len(Chunk(Top).ops) \in Nat /\ DOMAIN Chunk(Top).ops = 1 .. Len(Chunk(Top).ops)
  BY <1>4
<1>6. Top.ip \in 1 .. Len(Chunk(Top).ops) + 1
  BY <1>3 DEF FrameOK, Chunk
<1>7. ASSUME ~AtEnd PROVE Top.ip \in DOMAIN Chunk(Top).ops
  BY <1>5, <1>6, <1>7 DEF AtEnd
<1>8. ASSUME ~AtEnd
      PROVE  /\ Op \in Instructions /\ op_depth_effect(Op) /\ verify_call(image, Op)
             /\ Top.ip + 1 \in 1 .. Len(Chunk(Top).ops) + 1
  <2>1. Op \in Instructions
    BY <1>7, <1>8, <1>4 DEF Op
  <2>2. op_depth_effect(Op) /\ verify_call(image, Op)
    BY <1>7, <1>8, <1>4 DEF Op, verify_chunk, Chunk
  <2>3. Top.ip + 1 \in 1 .. Len(Chunk(Top).ops) + 1
    BY <1>7, <1>8, <1>5
  <2> QED BY <2>1, <2>2, <2>3
<1>9. Top.base \in Nat
  BY <1>3, VmAssumption DEF FrameOK
<1> QED BY <1>1, <1>3, <1>5, <1>7, <1>8, <1>9

----------------------------------------------------------------------------
LEMMA HostConfigType ==
    ASSUME TypeInv,
           \/ \E c \in {"Checked", "Proven"} : set_execution_checks(c)
           \/ \E q \in {"Allow", "RequireTrapFree"} : set_trap_policy(q)
           \/ \E p \in Positions : set_breakpoint(p) \/ clear_breakpoint(p)
           \/ clear_breakpoints
    PROVE  TypeInv'
<1>1. image' = image /\ height' = height /\ frames' = frames /\ Idle'
  BY DEF set_execution_checks, set_trap_policy, set_breakpoint, clear_breakpoint,
         clear_breakpoints, stacks, Idle
<1>2. FlagsOK'
  <2>1. CASE \E c \in {"Checked", "Proven"} : set_execution_checks(c)
    BY <2>1 DEF TypeInv, FlagsOK, set_execution_checks, ProofStates, debug
  <2>2. CASE \E q \in {"Allow", "RequireTrapFree"} : set_trap_policy(q)
    BY <2>2 DEF TypeInv, FlagsOK, set_trap_policy, proof, debug
  <2>3. CASE clear_breakpoints \/ \E p \in Positions : set_breakpoint(p) \/ clear_breakpoint(p)
    BY <2>3 DEF TypeInv, FlagsOK, set_breakpoint, clear_breakpoint, clear_breakpoints, proof
  <2> QED BY <2>1, <2>2, <2>3
<1> QED BY <1>1, <1>2 DEF TypeInv

LEMMA CallType ==
    ASSUME TypeInv, NEW i \in DOMAIN Code[image], call_function(i)
    PROVE  TypeInv'
<1> DEFINE ch == Code[image][i]
<1>1. image' = image /\ image \in Modules
  BY DEF call_function, TypeInv
<1>2. ch.locals \in Nat /\ height \in Nat /\ height <= StackCapacity /\ StackCapacity \in Nat
  BY <1>1, CodeFacts, VmAssumption DEF TypeInv
<1>3. FlagsOK'
  BY DEF TypeInv, FlagsOK, call_function, begin_proven_entry, ProofStates, debug, proof
<1>4. CASE /\ height + ch.locals <= StackCapacity
           /\ Len(frames) < FrameCapacity
           /\ height' = height + ch.locals
           /\ frames' = Append(frames, [chunk |-> i, ip |-> 1, base |-> height])
           /\ started' = TRUE
  <2>1. height' \in 0 .. StackCapacity
    BY <1>2, <1>4
  <2>2. FramesOK(image', frames') /\ frames' # <<>>
    BY <1>1, <1>2, <1>4, PushOK DEF TypeInv
  <2> QED BY <1>1, <1>3, <1>4, <2>1, <2>2 DEF TypeInv, Suspended
<1>5. CASE /\ \E k \in 0 .. ch.locals : height + k <= StackCapacity /\ height' = height + k
           /\ UNCHANGED <<frames, started, run>>
  <2>1. height' \in 0 .. StackCapacity
    BY <1>2, <1>5
  <2>2. ~Idle' => Suspended'
    BY <1>5 DEF TypeInv, Idle, Suspended
  <2> QED BY <1>1, <1>3, <1>5, <2>1, <2>2 DEF TypeInv
<1> QED BY <1>4, <1>5 DEF call_function

LEMMA ResumeType ==
    ASSUME TypeInv, resume \/ resume_from_breakpoint
    PROVE  TypeInv'
<1>1. image' = image /\ frames' = frames /\ started' = started
  BY DEF resume, resume_from_breakpoint, stacks
<1>2. FlagsOK'
  <2>1. proof_state' \in ProofStates /\ execution_checks' = execution_checks
        /\ pop_proof' = pop_proof
    BY DEF TypeInv, FlagsOK, resume, resume_from_breakpoint, begin_proven_entry, ProofStates
  <2>2. run' \in {"idle", "resumed", "going"}
    BY DEF TypeInv, FlagsOK, resume, resume_from_breakpoint
  <2> QED BY <2>1, <2>2, <1>1 DEF TypeInv, FlagsOK, resume, resume_from_breakpoint, debug
<1>3. height' \in 0 .. StackCapacity
  <2>1. height \in Nat /\ StackCapacity \in Nat
    BY VmAssumption DEF TypeInv
  <2>2. CASE resume
    BY <2>1, <2>2 DEF resume, TypeInv
  <2>3. CASE resume_from_breakpoint
    BY <2>3 DEF resume_from_breakpoint, stacks, TypeInv
  <2> QED BY <2>2, <2>3
<1>4. ~Idle' => Suspended'
  BY <1>1 DEF resume, resume_from_breakpoint, Idle, Suspended, TypeInv
<1> QED BY <1>1, <1>2, <1>3, <1>4 DEF TypeInv

LEMMA SwapType ==
    ASSUME TypeInv,
           \/ reset_after_error
           \/ \E m \in Modules : replace_module(m) \/ replace_module_fails_late(m)
    PROVE  TypeInv'
<1>1. image' \in Modules /\ frames' = <<>> /\ height' = 0 /\ run' = "idle"
  BY DEF reset_after_error, replace_module, replace_module_fails_late,
         full_reset_arena_internal, TypeInv, Idle
<1>2. FlagsOK'
  <2>1. saturated' \in BOOLEAN
    BY DEF TypeInv, FlagsOK, reset_after_error, replace_module, replace_module_fails_late,
           full_reset_arena_internal
  <2>2. CASE reset_after_error
    BY <2>1, <2>2 DEF TypeInv, FlagsOK, reset_after_error, ProofStates, debug
  <2>3. CASE \E m \in Modules : replace_module(m) \/ replace_module_fails_late(m)
    BY <2>1, <2>3 DEF TypeInv, FlagsOK, replace_module, replace_module_fails_late,
       ProofStates, debug, Proven
  <2> QED BY <2>2, <2>3
<1>3. height' \in 0 .. StackCapacity
  BY <1>1, VmAssumption
<1> QED BY <1>1, <1>2, <1>3, EmptyOK DEF TypeInv, Idle

----------------------------------------------------------------------------
\* The flags after one step of the dispatch loop.
LEMMA LoopFlags ==
    ASSUME TypeInv, run_inner
    PROVE  FlagsOK' /\ image' = image /\ started' = started
<1>1. image' = image /\ started' = started /\ trap_policy' = trap_policy
      /\ breakpoints' = breakpoints
  BY DEF run_inner, BreakpointHit, OpSimple, OpStream, OpCall, OpReturn, OpYield, OpReset,
         OpFails, EndOfChunk, Dispatch, debug
<1>2. saturated' \in BOOLEAN
  BY DEF TypeInv, FlagsOK, run_inner, BreakpointHit, OpSimple, OpStream, OpCall, OpReturn,
         OpYield, OpReset, OpFails, EndOfChunk
<1>3. \/ \E r \in {"Breakpoint", "Finished", "Yielded", "Reset", "Err"} : Exit(r)
      \/ Unwind \/ Continue
  BY DEF run_inner, BreakpointHit, OpSimple, OpStream, OpCall, OpReturn, OpYield, OpReset,
         OpFails, EndOfChunk
<1>4. /\ run' \in {"idle", "resumed", "going"} /\ suspended_at_reset' \in BOOLEAN
      /\ proof_state' \in ProofStates
      /\ execution_checks' = execution_checks /\ pop_proof' = pop_proof
  BY <1>3 DEF Exit, Unwind, Continue, proof, TypeInv, FlagsOK, ProofStates
<1> QED BY <1>1, <1>2, <1>4 DEF TypeInv, FlagsOK

\* The stacks after one step of the dispatch loop.
StacksOK ==
    /\ height' \in 0 .. StackCapacity
    /\ FramesOK(image, frames')
    /\ frames' = <<>> => run' = "idle"

LEMMA SimpleStacks ==
    ASSUME TypeInv, OpSimple
    PROVE  StacksOK
<1>1. ~Idle /\ ~AtEnd /\ Op.kind = "simple"
  BY DEF OpSimple, Dispatch
<1>2. /\ FrameOK(image, Top) /\ Op \in Instructions /\ op_depth_effect(Op)
      /\ Top.ip \in DOMAIN Chunk(Top).ops /\ frames # <<>>
  BY <1>1, OpFacts
<1>3. image \in Modules /\ height \in Nat /\ StackCapacity \in Nat
  BY VmAssumption DEF TypeInv
<1>4. height' \in 0 .. StackCapacity
  BY <1>2, <1>3 DEF OpSimple, op_depth_effect, Instructions
<1>5. PICK t \in Op.to : frames' = Jump(t)
  BY DEF OpSimple
<1>6. t \in 1 .. Len(Chunk(Top).ops) + 1
  <2>1. verify_chunk(image, Top.chunk) /\ Chunk(Top).ops \in Seq(Instructions)
    BY <1>2, <1>3, CodeFacts DEF FrameOK, Chunk
  <2>2. Op.to \subseteq DOMAIN Chunk(Top).ops
    BY <2>1, <1>1, <1>2 DEF verify_chunk, verify_stack_depth, Op, Chunk
  <2> QED BY <2>1, <2>2
<1>7. FramesOK(image, Jump(t)) /\ Jump(t) # <<>>
  BY <1>2, <1>6, JumpOK DEF Jump, Top, Chunk, TypeInv
<1> QED BY <1>4, <1>5, <1>7 DEF StacksOK

\* The steps that leave the top frame at the next instruction.
LEMMA NextStacks ==
    ASSUME TypeInv, OpStream \/ OpYield \/ OpFails
    PROVE  StacksOK
<1>1. ~Idle /\ ~AtEnd
  BY DEF OpStream, OpYield, OpFails, Dispatch
<1>2. frames # <<>> /\ Top.ip + 1 \in 1 .. Len(Chunk(Top).ops) + 1
  BY <1>1, OpFacts
<1>3. frames' = Jump(Top.ip + 1)
  BY DEF OpStream, OpYield, OpFails
<1>4. FramesOK(image, Jump(Top.ip + 1)) /\ Jump(Top.ip + 1) # <<>>
  BY <1>2, JumpOK DEF Jump, Top, Chunk, TypeInv
<1>5. height' \in 0 .. StackCapacity
  <2>1. height \in 0 .. StackCapacity /\ StackCapacity \in Nat
    BY VmAssumption DEF TypeInv
  <2>2. CASE OpStream
    BY <2>1, <2>2 DEF OpStream
  <2>3. CASE OpYield
    BY <2>1, <2>3 DEF OpYield
  <2>4. CASE OpFails
    BY <2>4 DEF OpFails
  <2> QED BY <2>2, <2>3, <2>4
<1> QED BY <1>3, <1>4, <1>5 DEF StacksOK

LEMMA CallStacks ==
    ASSUME TypeInv, OpCall
    PROVE  StacksOK
<1> DEFINE new_base == height - Op.need
           callee == Code[image][Op.idx]
<1>1. ~Idle /\ ~AtEnd /\ Op.kind = "call"
  BY DEF OpCall, Dispatch
<1>2. /\ Op \in Instructions /\ op_depth_effect(Op) /\ verify_call(image, Op)
      /\ frames # <<>> /\ Top.ip + 1 \in 1 .. Len(Chunk(Top).ops) + 1
  BY <1>1, OpFacts
<1>3. image \in Modules /\ height \in 0 .. StackCapacity /\ StackCapacity \in Nat
  BY VmAssumption DEF TypeInv
<1>4. Op.idx \in DOMAIN Code[image] /\ callee.locals \in Nat
  BY <1>1, <1>2, <1>3, CodeFacts DEF verify_call
<1>5. Op.need \in Int /\ Op.need >= 0
  BY <1>2 DEF op_depth_effect, Instructions
<1>6. /\ new_base >= 0 /\ height' = new_base + callee.locals /\ height' <= StackCapacity
      /\ Len(frames) < FrameCapacity
      /\ frames' = Append(Jump(Top.ip + 1), [chunk |-> Op.idx, ip |-> 1, base |-> new_base])
  BY DEF OpCall
<1>7. new_base \in 0 .. StackCapacity
  BY <1>3, <1>5, <1>6
<1>8. height' \in 0 .. StackCapacity
  BY <1>3, <1>4, <1>6, <1>7, SMTT(30)
<1>9. FramesOK(image, Jump(Top.ip + 1)) /\ Len(Jump(Top.ip + 1)) = Len(frames)
  BY <1>2, JumpOK DEF Jump, Top, Chunk, TypeInv
<1> HIDE DEF new_base
<1>10. FramesOK(image, frames') /\ frames' # <<>>
  BY <1>3, <1>4, <1>6, <1>7, <1>9, PushOK
<1> QED BY <1>8, <1>10 DEF StacksOK

LEMMA ReturnStacks ==
    ASSUME TypeInv, OpReturn \/ EndOfChunk
    PROVE  StacksOK
<1>1. ~Idle
  BY DEF OpReturn, EndOfChunk, Dispatch
<1>2. frames # <<>> /\ FrameOK(image, Top) /\ Top.base \in 0 .. StackCapacity
  BY <1>1, OpFacts DEF FrameOK
<1>3. FramesOK(image, Callers)
  BY <1>2, PopOK DEF Callers, TypeInv
<1>4. frames' = Callers /\ (Callers = <<>> => run' = "idle")
  BY DEF OpReturn, EndOfChunk, Exit
<1>5. height' \in 0 .. StackCapacity
  <2>1. height \in 0 .. StackCapacity /\ StackCapacity \in Nat \ {0}
    BY VmAssumption DEF TypeInv
  <2>2. CASE OpReturn
    <3>1. height > 0 /\ (height' = Truncated \/ height' = Truncated + 1)
      BY <2>2 DEF OpReturn
    <3>2. Truncated \in Nat /\ Truncated <= height - 1
      BY <3>1, <2>1, <1>2 DEF Truncated
    <3> QED BY <3>1, <3>2, <2>1
  <2>3. CASE EndOfChunk
    BY <2>1, <2>3 DEF EndOfChunk
  <2> QED BY <2>2, <2>3
<1> QED BY <1>3, <1>4, <1>5 DEF StacksOK

LEMMA ResetStacks ==
    ASSUME TypeInv, OpReset
    PROVE  StacksOK
<1>1. ~Idle /\ ~AtEnd /\ Op.kind = "reset"
  BY DEF OpReset, Dispatch
<1>2. /\ FrameOK(image, Top) /\ Top.ip \in DOMAIN Chunk(Top).ops /\ frames # <<>>
      /\ Top.base \in Nat
  BY <1>1, OpFacts
<1>3. image \in Modules /\ height \in 0 .. StackCapacity /\ StackCapacity \in Nat
  BY VmAssumption DEF TypeInv
<1>4. /\ verify_chunk(image, Top.chunk) /\ Chunk(Top).ops \in Seq(Instructions)
      /\ Chunk(Top).locals \in Nat
  BY <1>2, <1>3, CodeFacts DEF FrameOK, Chunk
<1>5. height' \in 0 .. StackCapacity
  BY <1>2, <1>3, <1>4 DEF OpReset
<1>6. Streams(Chunk(Top)) # {}
  BY <1>1, <1>2, <1>4 DEF verify_chunk, verify_block_type, Op, Chunk
<1>7. PICK s \in DOMAIN Chunk(Top).ops : StreamEntry(Chunk(Top)) = s + 1
  <2>1. (CHOOSE i \in Streams(Chunk(Top)) : TRUE) \in Streams(Chunk(Top))
    BY <1>6
  <2> QED BY <2>1 DEF StreamEntry, Streams
<1>8. StreamEntry(Chunk(Top)) \in 1 .. Len(Chunk(Top).ops) + 1
  BY <1>4, <1>7
<1>9. /\ FramesOK(image, Jump(StreamEntry(Chunk(Top))))
      /\ Jump(StreamEntry(Chunk(Top))) # <<>>
  BY <1>2, <1>8, JumpOK DEF Jump, Top, Chunk, TypeInv
<1> QED BY <1>5, <1>9 DEF OpReset, StacksOK

LEMMA LoopType ==
    ASSUME TypeInv, run_inner
    PROVE  TypeInv'
<1>1. FlagsOK' /\ image' = image /\ started' = started
  BY LoopFlags
<1>2. ~Idle
  BY DEF run_inner, BreakpointHit, OpSimple, OpStream, OpCall, OpReturn, OpYield, OpReset,
         OpFails, EndOfChunk, Dispatch
<1>3. started /\ frames # <<>>
  BY <1>2, OpFacts
<1>4. StacksOK
  <2>1. CASE BreakpointHit
    BY <2>1, <1>3 DEF BreakpointHit, stacks, StacksOK, TypeInv
  <2> QED BY <2>1, SimpleStacks, NextStacks, CallStacks, ReturnStacks, ResetStacks DEF run_inner
<1>5. ~Idle' => Suspended'
  BY <1>1, <1>3, <1>4 DEF StacksOK, Idle, Suspended
<1> QED BY <1>1, <1>4, <1>5 DEF StacksOK, TypeInv

\* A VM that has been loaded has no frame and no operand.
LEMMA InitType == Init => TypeInv
<1> SUFFICES ASSUME Init PROVE TypeInv
  OBVIOUS
<1>1. image \in Modules /\ height = 0 /\ frames = <<>> /\ Idle
  BY DEF Init, Idle
<1>2. FramesOK(image, frames) /\ height \in 0 .. StackCapacity
  BY <1>1, EmptyOK, VmAssumption
<1>3. FlagsOK
  BY DEF Init, FlagsOK, ProofStates
<1> QED BY <1>1, <1>2, <1>3 DEF TypeInv

LEMMA StutterType ==
    ASSUME TypeInv, UNCHANGED vars
    PROVE  TypeInv'
<1>1. image' = image /\ height' = height /\ frames' = frames /\ started' = started /\ run' = run
  BY DEF vars, stacks
<1>2. FlagsOK'
  BY DEF TypeInv, FlagsOK, vars, stacks, proof, debug
<1> QED BY <1>1, <1>2 DEF TypeInv, Idle, Suspended

\* Whatever the host calls and whatever a run does, a frame names an
\* instruction of the loaded image or the end of its chunk, neither stack
\* outgrows the arena, and the dispatch loop never runs without a frame
\* (vm.rs, run_inner, call_function, resume and replace_module).
THEOREM TypeTheorem == Spec => []TypeOK
<1>1. TypeInv /\ [Next]_vars => TypeInv'
  BY HostConfigType, CallType, ResumeType, SwapType, LoopType, StutterType DEF Next, Host
<1>2. TypeInv => TypeOK
  <2> SUFFICES ASSUME TypeInv PROVE TypeOK
    OBVIOUS
  <2>1. image \in Modules /\ Len(frames) <= FrameCapacity
    BY DEF TypeInv, FramesOK
  <2>2. ASSUME NEW i \in DOMAIN frames
        PROVE  /\ frames[i] \in [chunk: DOMAIN Code[image], ip: Nat \ {0},
                                 base: 0 .. StackCapacity]
               /\ frames[i].ip <= Len(Chunk(frames[i]).ops) + 1
    <3>1. frames[i] \in Frames /\ FrameOK(image, frames[i])
      BY DEF TypeInv, FramesOK
    <3>2. Code[image][frames[i].chunk].ops \in Seq(Instructions)
      BY <3>1, <2>1, CodeFacts DEF FrameOK
    <3>3. Len(Code[image][frames[i].chunk].ops) \in Nat
      BY <3>2
    <3> QED BY <3>1, <3>3 DEF Frames, FrameOK, Chunk
  <2> QED BY <2>1, <2>2 DEF TypeInv, FlagsOK, TypeOK
<1> QED BY InitType, <1>1, <1>2, PTL DEF Spec
=============================================================================
