----------------------------- MODULE SlotProofs -----------------------------
(***************************************************************************)
(* The operand slots that the verifier attests for a chunk are enough for  *)
(* every frame of it and all it calls (SlotsSound).                        *)
(*                                                                         *)
(* The verifier counts in two walks that know nothing of each other: the   *)
(* heights of the operands follow the edges of the chunk (interp_region),  *)
(* the slots follow its blocks (wcmu_region).  The argument ties them      *)
(* together in four steps.                                                 *)
(*   - The walks, the blocks and the rounds are recursive functions; a     *)
(*     table of what they are at each position replaces the recursion.     *)
(*   - Kept: at every position control can reach, the slots counted are at *)
(*     least the operands there are, by the first position where that      *)
(*     fails and the edge that leads to it (AllKept).  An EndIf whose one  *)
(*     branch is counted but not the other (Joins) is the exception, so    *)
(*     it is bounded by the branch it closes.                              *)
(*   - Fixpoint: a module's bounds solve their own equation, since as many *)
(*     rounds as calls nest settle every chunk.                            *)
(*   - SlotInv: a frame below the top stands behind the Call of the one    *)
(*     above it, so the operands of all frames add up as the bounds do.    *)
(***************************************************************************)
EXTENDS AttestedRunProofs, FiniteSetTheorems

-----------------------------------------------------------------------------
\* Recursion.  A property of the naturals that fails somewhere fails first at
\* some number, and a list that grows one element at a time keeps the others.

\* Of the naturals with a property one is the least.
LEMMA Least ==
    ASSUME NEW B, B \subseteq Nat, B # {}
    PROVE  \E n \in B : n \in Nat /\ \A y \in Nat : y < n => y \notin B
<1>1. PICK n \in B : \A y \in B : ~ (<<y, n>> \in OpToRel(<, Nat))
    BY NatLessThanWellFounded, WFMin
<1>2. ASSUME NEW y \in Nat, y < n PROVE y \notin B
  <2>1. <<y, n>> \in OpToRel(<, Nat)
      BY <1>2, Zenon DEF OpToRel
  <2> QED BY <1>1, <2>1, Zenon
<1> QED BY <1>2

\* The lists u of u[0] and more of the elements of x, N of them in the end.
Grows(N, V, u, x) ==
    /\ N \in Nat /\ u[0] \in Seq(V)
    /\ \A n \in 0 .. N - 1 : u[n + 1] = Append(u[n], x[n])

Grown(N, u, x) ==
    \A n \in 0 .. N : /\ Len(u[n]) = Len(u[0]) + n
                      /\ \A k \in 1 .. Len(u[0]) : u[n][k] = u[0][k]
                      /\ \A k \in 0 .. n - 1 : u[n][Len(u[0]) + k + 1] = x[k]

\* Such a list holds every element it was given, in order.
LEMMA Table ==
    ASSUME NEW N, NEW V, NEW u, NEW x, Grows(N, V, u, x)
    PROVE  Grown(N, u, x)
<1> USE DEF Grows, Grown
<1> DEFINE b == Len(u[0])
           W == V \cup {x[n] : n \in 0 .. N - 1}
           Good(n) == /\ u[n] \in Seq(W) /\ Len(u[n]) = b + n
                      /\ \A k \in 1 .. b : u[n][k] = u[0][k]
                      /\ \A k \in 0 .. n - 1 : u[n][b + k + 1] = x[k]
           B == {n \in 0 .. N : ~ Good(n)}
<1>1. u[0] \in Seq(W) /\ b \in Nat
    OBVIOUS
<1>2. Good(0)
    BY <1>1
<1>3. ASSUME NEW n \in 0 .. N - 1, Good(n) PROVE Good(n + 1)
  <2>1. u[n + 1] = Append(u[n], x[n]) /\ x[n] \in W /\ n \in Nat
      OBVIOUS
  <2> DEFINE s == u[n]
             t == u[n + 1]
             y == x[n]
  <2> HIDE DEF W, b
  <2>2. /\ s \in Seq(W) /\ y \in W /\ t = Append(s, y) /\ Len(s) = b + n
        /\ \A k \in 1 .. b : s[k] = u[0][k]
        /\ \A k \in 0 .. n - 1 : s[b + k + 1] = x[k]
      BY <1>3, <2>1
  <2> HIDE DEF s, t, y
  <2>3. /\ t \in Seq(W) /\ Len(t) = b + (n + 1) /\ t[b + n + 1] = y
        /\ \A k \in 1 .. b + n : t[k] = s[k]
    <3>1. s \in Seq(W) /\ y \in W /\ t = Append(s, y)
        BY <2>2, Zenon
    <3>2. /\ t \in Seq(W) /\ Len(t) = Len(s) + 1 /\ t[Len(s) + 1] = y
          /\ \A k \in 1 .. Len(s) : t[k] = s[k]
        BY <3>1
    <3>3. Len(s) = b + n /\ b \in Nat /\ n \in Nat
        BY <1>1, <2>1, <2>2, Zenon
    <3>4. (b + n) + 1 = b + (n + 1)
        BY <3>3
    <3> QED BY <3>2, <3>3, <3>4, Zenon
  <2>4. \A k \in 1 .. b : t[k] = u[0][k]
    <3>1. \A k \in 1 .. b : k \in 1 .. b + n
        BY <1>1, <2>1
    <3> QED BY <2>2, <2>3, <3>1
  <2>5. ASSUME NEW k \in 0 .. (n + 1) - 1 PROVE t[b + k + 1] = x[k]
    <3>1. CASE k = n
        BY <2>3, <3>1 DEF y
    <3>2. CASE k # n
      <4>1. k \in 0 .. n - 1 /\ b + k + 1 \in 1 .. b + n
          BY <1>1, <2>1, <3>2
      <4> QED BY <2>2, <2>3, <4>1
    <3> QED BY <3>1, <3>2
  <2> QED BY <2>3, <2>4, <2>5 DEF t
<1> HIDE DEF Good
<1>4. B = {}
  <2> SUFFICES ASSUME B # {} PROVE FALSE
      OBVIOUS
  <2>1. PICK n \in B : n \in Nat /\ \A y \in Nat : y < n => y \notin B
    <3>1. B \subseteq Nat
        OBVIOUS
    <3> HIDE DEF B
    <3> QED BY <3>1, Least
  <2>2. n # 0 /\ n \in 0 .. N /\ ~ Good(n)
      BY <1>2, <2>1
  <2>3. n - 1 \in 0 .. N - 1 /\ n - 1 \in Nat /\ n - 1 < n
        /\ (n - 1) + 1 = n /\ n - 1 \in 0 .. N
      BY <2>1, <2>2
  <2>4. Good(n - 1)
      BY <2>1, <2>3
  <2> QED BY <1>3, <2>2, <2>3, <2>4
<1> QED BY <1>4 DEF Good

-----------------------------------------------------------------------------
\* The blocks around each position.

\* The blocks around each position, from those around the one before it.
LEMMA BlocksIs ==
    ASSUME NEW ch, Size(ch) \in Nat
    PROVE  /\ Blocks(ch)[0] = <<>>
           /\ \A ip \in Positions(ch) :
                 Blocks(ch)[ip + 1] = Reopened(ch, ip, Blocks(ch)[ip])
<1> DEFINE P(n, f) == f = [ip \in 0 .. n |->
                              IF ip = 0 THEN <<>>
                              ELSE Reopened(ch, ip - 1, f[ip - 1])]
           B == {n \in Nat : ~ \E f : P(n, f)}
<1>1. \A n \in Nat : n \notin B
  <2> SUFFICES ASSUME B # {} PROVE FALSE
      OBVIOUS
  <2>1. PICK n \in B : n \in Nat /\ \A y \in Nat : y < n => y \notin B
    <3>1. B \subseteq Nat
        BY Zenon
    <3> HIDE DEF B
    <3> QED BY <3>1, Least
  <2>2. n \in Nat /\ ~ \E f : P(n, f)
      BY <2>1, Zenon
  <2>3. n # 0
    <3>1. ASSUME n = 0 PROVE P(n, [ip \in 0 .. n |-> <<>>])
        BY <3>1
    <3> QED BY <2>2, <3>1, Zenon
  <2>4. n - 1 \in Nat /\ n - 1 < n
      BY <2>2, <2>3
  <2>5. n - 1 \notin B
      BY <2>1, <2>4, Zenon
  <2>6. PICK f : P(n - 1, f)
      BY <2>4, <2>5, Zenon
  <2> DEFINE g == [ip \in 0 .. n |->
                      IF ip = n THEN Reopened(ch, n - 1, f[n - 1]) ELSE f[ip]]
  <2>7. \A ip \in 0 .. n - 1 :
           f[ip] = IF ip = 0 THEN <<>> ELSE Reopened(ch, ip - 1, f[ip - 1])
      BY <2>6
  <2>8. \A ip \in 0 .. n :
           g[ip] = IF ip = 0 THEN <<>> ELSE Reopened(ch, ip - 1, g[ip - 1])
    <3> SUFFICES ASSUME NEW ip \in 0 .. n
                 PROVE  g[ip] = IF ip = 0 THEN <<>>
                                ELSE Reopened(ch, ip - 1, g[ip - 1])
        OBVIOUS
    <3>1. ip # 0 => g[ip - 1] = f[ip - 1]
        BY <2>2
    <3>2. CASE ip = n
        BY <2>3, <3>1, <3>2
    <3>3. CASE ip # n
        BY <2>2, <2>7, <3>1, <3>3
    <3> QED BY <3>2, <3>3
  <2>9. P(n, g)
    <3>1. g = [ip \in 0 .. n |-> g[ip]]
        OBVIOUS
    <3> HIDE DEF g
    <3> QED BY <2>8, <3>1
  <2> QED BY <2>2, <2>9, Zenon
<1>2. \E f : P(Size(ch), f)
    BY <1>1, Zenon
<1>3. P(Size(ch), Blocks(ch))
  <2>1. Blocks(ch) = CHOOSE f : P(Size(ch), f)
      BY DEF Blocks
  <2> HIDE DEF P
  <2> QED BY <1>2, <2>1, Zenon
<1>4. \A ip \in 0 .. Size(ch) :
         Blocks(ch)[ip] = IF ip = 0 THEN <<>>
                          ELSE Reopened(ch, ip - 1, Blocks(ch)[ip - 1])
  <2> DEFINE b == Blocks(ch)
  <2>1. P(Size(ch), b)
      BY <1>3
  <2> HIDE DEF b
  <2>2. \A ip \in 0 .. Size(ch) :
           b[ip] = IF ip = 0 THEN <<>> ELSE Reopened(ch, ip - 1, b[ip - 1])
      BY <2>1
  <2> QED BY <2>2 DEF b
<1>5. \A ip \in Positions(ch) : ip + 1 \in 0 .. Size(ch) /\ ip + 1 # 0
                                /\ (ip + 1) - 1 = ip
    BY DEF Positions
<1>6. 0 \in 0 .. Size(ch)
    OBVIOUS
<1> QED BY <1>4, <1>5, <1>6, Zenon

\* The blocks around ip: each opens before ip, and those around the position
\* behind its opener are itself and the ones outside it.
OpenAt(ch, ip) ==
    LET s == Blocks(ch)[ip]
    IN /\ s \in Seq(Nat)
       /\ \A i \in 1 .. Len(s) :
             /\ s[i] < ip /\ At(ch, s[i]).o \in {"If", "Else", "Loop"}
             /\ Len(Blocks(ch)[s[i] + 1]) = i
             /\ \A j \in 1 .. i : Blocks(ch)[s[i] + 1][j] = s[j]

\* A list that is not empty is its front and its last element.
LEMMA FrontIs ==
    ASSUME NEW S, NEW s \in Seq(S), s # <<>>
    PROVE  /\ Front(s) \in Seq(S) /\ Len(Front(s)) = Len(s) - 1
           /\ \A i \in 1 .. Len(s) - 1 : Front(s)[i] = s[i]
           /\ Last(s) = s[Len(s)] /\ Last(s) \in S /\ Len(s) > 0
<1> DEFINE n == Len(s)
<1>1. n \in Nat /\ n > 0 /\ s \in [1 .. n -> S]
    BY EmptySeq
<1>2. Front(s) = SubSeq(s, 1, n - 1) /\ Last(s) = s[n]
    BY Zenon DEF Front, Last
<1> HIDE DEF n
<1>3. n - 1 \in Nat /\ 1 .. n - 1 \subseteq 1 .. n /\ n \in 1 .. n
    BY <1>1
<1>4. SubSeq(s, 1, n - 1) = [i \in 1 .. n - 1 |-> s[i]]
    BY <1>1, <1>3
<1>5. [i \in 1 .. n - 1 |-> s[i]] \in Seq(S)
      /\ Len([i \in 1 .. n - 1 |-> s[i]]) = n - 1
    BY <1>1, <1>3
<1> QED BY <1>1, <1>2, <1>3, <1>4, <1>5 DEF n

\* What the blocks around a position are behind it, by its instruction.
LEMMA ReopenedIs ==
    ASSUME NEW ch, NEW ip \in Nat, NEW s \in Seq(Nat)
    PROVE  LET t == Reopened(ch, ip, s)
           IN \/ t = s /\ (At(ch, ip).o \in {"Else", "EndIf", "EndLoop"} => s = <<>>)
                       /\ At(ch, ip).o \notin {"If", "Loop"}
              \/ t = Append(s, ip) /\ At(ch, ip).o \in {"If", "Loop"}
              \/ /\ t = Append(Front(s), ip) /\ At(ch, ip).o = "Else" /\ s # <<>>
              \/ t = Front(s) /\ At(ch, ip).o \in {"EndIf", "EndLoop"} /\ s # <<>>
BY Zenon DEF Reopened

\* The blocks around a position are openers before it, outermost first.
LEMMA BlocksOpen ==
    ASSUME NEW ch, Size(ch) \in Nat
    PROVE  \A ip \in 0 .. Size(ch) : OpenAt(ch, ip)
<1> DEFINE b == Blocks(ch)
           B == {ip \in 0 .. Size(ch) : ~ OpenAt(ch, ip)}
<1>1. b[0] = <<>> /\ \A ip \in Positions(ch) : b[ip + 1] = Reopened(ch, ip, b[ip])
    BY BlocksIs
<1>2. OpenAt(ch, 0)
    BY <1>1 DEF OpenAt
<1>3. ASSUME NEW ip \in Positions(ch), OpenAt(ch, ip)
      PROVE  OpenAt(ch, ip + 1)
  <2> DEFINE s == b[ip]
             t == b[ip + 1]
             kinds == {"If", "Else", "Loop"}
  <2>1. ip \in Nat /\ s \in Seq(Nat) /\ t = Reopened(ch, ip, s)
      BY <1>1, <1>3 DEF Positions, OpenAt
  <2>2. \A i \in 1 .. Len(s) :
           /\ s[i] < ip /\ At(ch, s[i]).o \in kinds
           /\ Len(b[s[i] + 1]) = i
           /\ \A j \in 1 .. i : b[s[i] + 1][j] = s[j]
      BY <1>3 DEF OpenAt
  <2>3. SUFFICES /\ t \in Seq(Nat)
                 /\ \A i \in 1 .. Len(t) :
                       /\ t[i] < ip + 1 /\ At(ch, t[i]).o \in kinds
                       /\ Len(b[t[i] + 1]) = i
                       /\ \A j \in 1 .. i : b[t[i] + 1][j] = t[j]
      BY DEF OpenAt
  \* The blocks that stay, and the one that opens.
  <2>4. ASSUME NEW n \in Nat, n <= Len(s), t \in Seq(Nat),
               \A i \in 1 .. n : t[i] = s[i],
               \/ Len(t) = n
               \/ Len(t) = n + 1 /\ t[n + 1] = ip /\ At(ch, ip).o \in kinds
        PROVE  /\ t \in Seq(Nat)
               /\ \A i \in 1 .. Len(t) :
                     /\ t[i] < ip + 1 /\ At(ch, t[i]).o \in kinds
                     /\ Len(b[t[i] + 1]) = i
                     /\ \A j \in 1 .. i : b[t[i] + 1][j] = t[j]
    <3>1. ASSUME NEW i \in 1 .. Len(t)
          PROVE  /\ t[i] < ip + 1 /\ At(ch, t[i]).o \in kinds
                 /\ Len(b[t[i] + 1]) = i
                 /\ \A j \in 1 .. i : b[t[i] + 1][j] = t[j]
      <4>0. Len(s) \in Nat /\ Len(t) \in Nat
          BY <2>1, <2>4
      <4>1. CASE i \in 1 .. n
        <5>1. i \in 1 .. Len(s) /\ t[i] = s[i] /\ \A j \in 1 .. i : t[j] = s[j]
            BY <2>4, <4>0, <4>1
        <5>2. s[i] \in Nat /\ s[i] < ip + 1
            BY <2>1, <2>2, <5>1
        <5> HIDE DEF s, t, b
        <5>3. Len(b[s[i] + 1]) = i /\ At(ch, s[i]).o \in kinds
              /\ \A j \in 1 .. i : b[s[i] + 1][j] = t[j]
            BY <2>2, <5>1
        <5> QED BY <5>1, <5>2, <5>3
      <4>2. CASE i \notin 1 .. n
        <5>1. i = n + 1 /\ Len(t) = n + 1 /\ t[i] = ip /\ At(ch, ip).o \in kinds
            BY <2>4, <4>0, <4>2
        <5>2. ip < ip + 1 /\ b[t[i] + 1] = t
            BY <2>1, <5>1
        <5> HIDE DEF t, b
        <5> QED BY <5>1, <5>2
      <4> QED BY <4>1, <4>2
    <3> QED BY <2>4, <3>1
  <2> HIDE DEF t, b
  <2>5. CASE t = s
    <3>1. Len(s) \in Nat /\ Len(s) <= Len(s)
        BY <2>1
    <3> QED BY <2>1, <2>4, <2>5, <3>1, Zenon
  <2>6. CASE t = Append(s, ip) /\ At(ch, ip).o \in {"If", "Loop"}
    <3>1. /\ Len(s) \in Nat /\ Len(s) <= Len(s) /\ t \in Seq(Nat)
          /\ Len(t) = Len(s) + 1 /\ t[Len(s) + 1] = ip
          /\ \A i \in 1 .. Len(s) : t[i] = s[i]
      <4> HIDE DEF s
      <4> QED BY <2>1, <2>6
    <3> QED BY <2>4, <2>6, <3>1
  <2>7. CASE s # <<>> /\ t = Front(s)
    <3> HIDE DEF s
    <3>1. /\ Len(s) - 1 \in Nat /\ Len(s) - 1 <= Len(s) /\ t \in Seq(Nat)
          /\ Len(t) = Len(s) - 1 /\ \A i \in 1 .. Len(s) - 1 : t[i] = s[i]
      <4> DEFINE n == Len(s)
      <4>1. n \in Nat /\ n > 0 /\ t \in Seq(Nat) /\ Len(t) = n - 1
            /\ \A i \in 1 .. n - 1 : t[i] = s[i]
        <5>1. s \in Seq(Nat) /\ s # <<>>
            BY <2>1, <2>7
        <5>2. n \in Nat
            BY <5>1
        <5> QED BY <2>7, <5>1, <5>2, FrontIs, Zenon
      <4> HIDE DEF n
      <4>2. n - 1 \in Nat /\ n - 1 <= n
          BY <4>1
      <4> QED BY <4>1, <4>2 DEF n
    <3> QED BY <2>4, <3>1, Zenon
  <2>8. CASE s # <<>> /\ t = Append(Front(s), ip) /\ At(ch, ip).o = "Else"
    <3> HIDE DEF s
    <3> DEFINE u == Front(s)
    <3>1. /\ Len(s) - 1 \in Nat /\ Len(s) - 1 <= Len(s) /\ u \in Seq(Nat)
          /\ Len(u) = Len(s) - 1 /\ \A i \in 1 .. Len(s) - 1 : u[i] = s[i]
      <4> DEFINE n == Len(s)
      <4>1. n \in Nat /\ n > 0 /\ u \in Seq(Nat) /\ Len(u) = n - 1
            /\ \A i \in 1 .. n - 1 : u[i] = s[i]
        <5>1. s \in Seq(Nat) /\ s # <<>>
            BY <2>1, <2>8
        <5>2. n \in Nat
            BY <5>1
        <5> QED BY <5>1, <5>2, FrontIs, Zenon
      <4> HIDE DEF n, u
      <4>2. n - 1 \in Nat /\ n - 1 <= n
          BY <4>1
      <4> QED BY <4>1, <4>2 DEF n
    <3> HIDE DEF u
    <3>2. t = Append(u, ip)
        BY <2>8 DEF u
    <3>3. /\ t \in Seq(Nat) /\ Len(t) = (Len(s) - 1) + 1
          /\ t[(Len(s) - 1) + 1] = ip
          /\ \A i \in 1 .. Len(s) - 1 : t[i] = s[i]
        BY <2>1, <3>1, <3>2
    <3>4. At(ch, ip).o \in kinds
        BY <2>8
    <3> HIDE DEF kinds
    <3> QED BY <2>4, <3>1, <3>3, <3>4, Zenon
  <2>9. \/ t = s
        \/ t = Append(s, ip) /\ At(ch, ip).o \in {"If", "Loop"}
        \/ s # <<>> /\ t = Front(s)
        \/ s # <<>> /\ t = Append(Front(s), ip) /\ At(ch, ip).o = "Else"
    <3> HIDE DEF s
    <3> QED BY <2>1, ReopenedIs, Zenon
  <2> QED BY <2>5, <2>6, <2>7, <2>8, <2>9, Zenon
<1>4. B = {}
  <2> SUFFICES ASSUME B # {} PROVE FALSE
      OBVIOUS
  <2>1. PICK n \in B : n \in Nat /\ \A y \in Nat : y < n => y \notin B
    <3>1. B \subseteq Nat
        OBVIOUS
    <3> HIDE DEF B
    <3> QED BY <3>1, Least
  <2>2. n # 0 /\ n \in 0 .. Size(ch) /\ ~ OpenAt(ch, n)
      BY <1>2, <2>1
  <2>3. n - 1 \in Positions(ch) /\ n - 1 \in Nat /\ n - 1 < n
        /\ (n - 1) + 1 = n /\ n - 1 \in 0 .. Size(ch)
      BY <2>1, <2>2 DEF Positions
  <2>4. OpenAt(ch, n - 1)
      BY <2>1, <2>3
  <2> QED BY <1>3, <2>2, <2>3, <2>4
<1> QED BY <1>4

\* Appending makes the front and the last element of a list.
LEMMA AppendIs ==
    ASSUME NEW s \in Seq(Nat), NEW x \in Nat
    PROVE  /\ Append(s, x) # <<>> /\ Append(s, x) \in Seq(Nat)
           /\ Last(Append(s, x)) = x /\ Front(Append(s, x)) = s
<1> DEFINE t == Append(s, x)
<1>1. t \in Seq(Nat) /\ Len(t) = Len(s) + 1 /\ Len(s) \in Nat /\ t[Len(s) + 1] = x
      /\ \A i \in 1 .. Len(s) : t[i] = s[i]
    OBVIOUS
<1> HIDE DEF t
<1>2. t # <<>>
    BY <1>1, EmptySeq
<1>3. Front(t) = s
  <2>1. /\ Front(t) \in Seq(Nat) /\ Len(Front(t)) = Len(t) - 1
        /\ \A i \in 1 .. Len(t) - 1 : Front(t)[i] = t[i]
      BY <1>1, <1>2, FrontIs
  <2> DEFINE f == Front(t)
  <2> HIDE DEF f
  <2>2. f \in Seq(Nat) /\ Len(f) = Len(s) /\ \A i \in 1 .. Len(s) : f[i] = s[i]
      BY <1>1, <2>1 DEF f
  <2> QED BY <2>2 DEF f
<1>4. Last(t) = x
    BY <1>1 DEF Last
<1> QED BY <1>1, <1>2, <1>3, <1>4 DEF t

\* The innermost block around a position.
LEMMA Innermost ==
    ASSUME NEW ch, Size(ch) \in Nat, NEW ip \in 0 .. Size(ch),
           Blocks(ch)[ip] # <<>>
    PROVE  LET q == Opener(Blocks(ch), ip)
           IN /\ q \in Positions(ch) /\ q < ip
              /\ At(ch, q).o \in {"If", "Else", "Loop"}
              /\ Blocks(ch)[q + 1] = Blocks(ch)[ip]
<1> DEFINE s == Blocks(ch)[ip]
           q == Last(s)
           n == Len(s)
<1>1. OpenAt(ch, ip)
    BY BlocksOpen
<1>2. /\ s \in Seq(Nat)
      /\ \A i \in 1 .. n :
            /\ s[i] < ip /\ At(ch, s[i]).o \in {"If", "Else", "Loop"}
            /\ Len(Blocks(ch)[s[i] + 1]) = i
            /\ \A j \in 1 .. i : Blocks(ch)[s[i] + 1][j] = s[j]
    BY <1>1, Zenon DEF OpenAt
<1>3. q = s[n] /\ q \in Nat /\ n \in Nat /\ n > 0
  <2>1. s \in Seq(Nat) /\ s # <<>>
      BY <1>2, Zenon
  <2>2. n \in Nat
      BY <2>1
  <2> QED BY <2>1, <2>2, FrontIs, Zenon
<1> HIDE DEF s, q, n
<1>4. n \in 1 .. n
    BY <1>3
<1>5. q < ip /\ At(ch, q).o \in {"If", "Else", "Loop"}
      /\ Len(Blocks(ch)[q + 1]) = n
      /\ \A j \in 1 .. n : Blocks(ch)[q + 1][j] = s[j]
    BY <1>2, <1>3, <1>4, Zenon
<1>6. q \in Positions(ch) /\ q + 1 \in 0 .. Size(ch)
    BY <1>3, <1>5 DEF Positions
<1>7. Blocks(ch)[q + 1] = s
  <2> DEFINE t == Blocks(ch)[q + 1]
  <2>1. t \in Seq(Nat)
      BY <1>6, BlocksOpen DEF OpenAt
  <2> HIDE DEF t
  <2>2. Len(t) = Len(s) /\ \A j \in 1 .. Len(s) : t[j] = s[j]
      BY <1>5 DEF t, n
  <2>3. t = s
    <3>1. s \in Seq(Nat)
        BY <1>2, Zenon
    <3> QED BY <2>1, <2>2, <3>1, SeqEqual, Zenon
  <2> QED BY <2>3 DEF t
<1> QED BY <1>5, <1>6, <1>7, Zenon DEF s, q, Opener

\* What each instruction does to the blocks of a chunk that nests.
Nested(ch, ip) ==
    LET open == Blocks(ch)
        op == At(ch, ip)
        q == Opener(open, ip)
        t == TestOf(ch, open, q)
    IN /\ op.o \in {"If", "Loop"} =>
             open[ip + 1] = Append(open[ip], ip)
       /\ op.o = "Else" =>
             /\ q \in Positions(ch) /\ q < ip
             /\ At(ch, q).o = "If" /\ At(ch, q).a = ip + 1
             /\ open[ip] = Append(open[q], q)
             /\ open[ip + 1] = Append(open[q], ip)
       /\ op.o = "EndIf" =>
             /\ q \in Positions(ch) /\ q < ip
             /\ At(ch, q).o \in {"If", "Else"}
             /\ At(ch, q).o = "If" => At(ch, q).a = ip
             /\ t \in Positions(ch) /\ t < ip /\ At(ch, t).o = "If"
             /\ At(ch, q).o = "Else" => t < q /\ open[q] = Append(open[t], t)
             /\ open[ip] = Append(open[t], q) /\ open[ip + 1] = open[t]
       /\ op.o = "EndLoop" =>
             /\ q \in Positions(ch) /\ q < ip
             /\ At(ch, q).o = "Loop" /\ At(ch, q).a = ip + 1 /\ t = q
             /\ open[ip] = Append(open[q], q) /\ open[ip + 1] = open[q]
       /\ op.o \notin {"If", "Loop", "Else", "EndIf", "EndLoop"} =>
             open[ip + 1] = open[ip]

\* A chunk whose blocks nest has the openers its instructions expect.
LEMMA IsNested ==
    ASSUME NEW ch, Size(ch) \in Nat, verify_nesting(ch), NEW ip \in Positions(ch)
    PROVE  Nested(ch, ip)
<1> DEFINE open == Blocks(ch)
           op == At(ch, ip)
           q == Opener(open, ip)
           t == TestOf(ch, open, q)
<1>1. \A p \in Positions(ch) : /\ open[p + 1] = Reopened(ch, p, open[p])
                               /\ open[p] \in Seq(Nat) /\ Nests(ch, p, open[p])
                               /\ p \in Nat /\ p \in 0 .. Size(ch)
  <2>1. \A p \in Positions(ch) : p \in Nat /\ p \in 0 .. Size(ch)
      BY DEF Positions
  <2> QED BY <2>1, BlocksIs, BlocksOpen, Zenon DEF OpenAt, verify_nesting
<1>2. ASSUME open[ip] # <<>>
      PROVE  q = Last(open[ip]) /\ q \in Positions(ch) /\ q < ip
             /\ open[q + 1] = open[ip]
    BY <1>1, <1>2, Innermost, Zenon DEF Opener
<1>3. \A p \in Positions(ch) : At(ch, p).o \in {"If", "Loop"} =>
         open[p + 1] = Append(open[p], p) /\ Front(open[p + 1]) = open[p]
    BY <1>1, AppendIs, Zenon DEF Reopened
<1> HIDE DEF open, op, q, t
<1>4. ASSUME op.o = "Else"
      PROVE  /\ q \in Positions(ch) /\ q < ip
             /\ At(ch, q).o = "If" /\ At(ch, q).a = ip + 1
             /\ open[ip] = Append(open[q], q)
             /\ open[ip + 1] = Append(open[q], ip)
  <2>1. /\ open[ip] # <<>> /\ At(ch, Last(open[ip])).o = "If"
        /\ At(ch, Last(open[ip])).a = ip + 1
      BY <1>1, <1>4, Zenon DEF Nests, op
  <2>2. open[ip + 1] = Append(Front(open[ip]), ip)
      BY <1>1, <1>4, <2>1, Zenon DEF Reopened, op
  <2> QED BY <1>2, <1>3, <2>1, <2>2, Zenon
<1>5. ASSUME op.o = "EndIf"
      PROVE  /\ q \in Positions(ch) /\ q < ip
             /\ At(ch, q).o \in {"If", "Else"}
             /\ At(ch, q).o = "If" => At(ch, q).a = ip
             /\ t \in Positions(ch) /\ t < ip /\ At(ch, t).o = "If"
             /\ At(ch, q).o = "Else" => t < q /\ open[q] = Append(open[t], t)
             /\ open[ip] = Append(open[t], q) /\ open[ip + 1] = open[t]
  <2>1. /\ open[ip] # <<>> /\ At(ch, Last(open[ip])).o \in {"If", "Else"}
        /\ At(ch, Last(open[ip])).o = "If" => At(ch, Last(open[ip])).a = ip
      BY <1>1, <1>5, Zenon DEF Nests, op
  <2>2. open[ip + 1] = Front(open[ip])
      BY <1>1, <1>5, <2>1, Zenon DEF Reopened, op
  <2>3. CASE At(ch, q).o = "If"
    <3>1. t = q
        BY <2>3, Zenon DEF TestOf, t
    <3> QED BY <1>2, <1>3, <2>1, <2>2, <2>3, <3>1, Zenon
  <2>4. CASE At(ch, q).o = "Else"
    <3>1. /\ q \in Positions(ch) /\ q < ip /\ open[q + 1] = open[ip]
          /\ q = Last(open[ip])
        BY <1>2, <2>1
    <3>2. t = Opener(open, q)
        BY <2>4, Zenon DEF TestOf, t
    <3>3. open[q] # <<>> /\ At(ch, Last(open[q])).o = "If"
        BY <1>1, <2>4, <3>1, Zenon DEF Nests
    <3>4. /\ t = Last(open[q]) /\ t \in Positions(ch) /\ t < q
          /\ open[t + 1] = open[q]
        BY <1>1, <3>1, <3>2, <3>3, Innermost, Zenon DEF Opener, open
    <3>5. open[q] = Append(open[t], t) /\ Front(open[q]) = open[t]
        BY <1>3, <3>3, <3>4, Zenon
    <3>6. open[q + 1] = Append(Front(open[q]), q)
        BY <1>1, <2>4, <3>1, <3>3, Zenon DEF Reopened
    <3>7. Front(Append(open[t], q)) = open[t]
        BY <1>1, <3>1, <3>4, AppendIs, Zenon
    <3>8. t < ip
      <4>1. t \in Nat /\ q \in Nat /\ ip \in Nat
          BY <1>1, <3>1, <3>4
      <4> QED BY <3>1, <3>4, <4>1
    <3> QED BY <2>2, <2>4, <3>1, <3>3, <3>4, <3>5, <3>6, <3>7, <3>8, Zenon
  <2> QED BY <1>2, <2>1, <2>3, <2>4, Zenon
<1>6. ASSUME op.o = "EndLoop"
      PROVE  /\ q \in Positions(ch) /\ q < ip
             /\ At(ch, q).o = "Loop" /\ At(ch, q).a = ip + 1 /\ t = q
             /\ open[ip] = Append(open[q], q) /\ open[ip + 1] = open[q]
  <2>1. /\ open[ip] # <<>> /\ At(ch, Last(open[ip])).o = "Loop"
        /\ At(ch, Last(open[ip])).a = ip + 1
      BY <1>1, <1>6, Zenon DEF Nests, op
  <2>2. open[ip + 1] = Front(open[ip])
      BY <1>1, <1>6, <2>1, Zenon DEF Reopened, op
  <2>3. t = q
    <3>1. At(ch, q).o # "Else"
        BY <1>2, <2>1
    <3> QED BY <3>1, Zenon DEF TestOf, t
  <2> QED BY <1>2, <1>3, <2>1, <2>2, <2>3, Zenon
<1>7. ASSUME op.o \notin {"If", "Loop", "Else", "EndIf", "EndLoop"}
      PROVE  open[ip + 1] = open[ip]
    BY <1>1, <1>7, Zenon DEF Reopened, op
<1> QED BY <1>3, <1>4, <1>5, <1>6, <1>7, Zenon DEF Nested, open, op, q, t

\* Every If and Loop has its end, and its target is there.
LEMMA Closer ==
    ASSUME NEW ch, Size(ch) \in Nat, verify_nesting(ch), NEW q \in Positions(ch),
           At(ch, q).o \in {"If", "Loop"}
    PROVE  \E c \in Positions(ch) :
              /\ q < c /\ Opener(Blocks(ch), c) = q
              /\ Blocks(ch)[c] = Append(Blocks(ch)[q], q)
              /\ \/ At(ch, q).o = "If" /\ At(ch, c).o = "Else" /\ At(ch, q).a = c + 1
                 \/ At(ch, q).o = "If" /\ At(ch, c).o = "EndIf" /\ At(ch, q).a = c
                 \/ At(ch, q).o = "Loop" /\ At(ch, c).o = "EndLoop"
                                        /\ At(ch, q).a = c + 1
<1> DEFINE b == Blocks(ch)
           L == Len(b[q]) + 1
           Hold(x) == Len(b[x]) >= L /\ b[x][L] = q
           B == {x \in Nat : q < x /\ x <= Size(ch) /\ ~ Hold(x)}
<1>1. /\ \A x \in 0 .. Size(ch) : b[x] \in Seq(Nat)
      /\ q \in Nat /\ q + 1 \in 0 .. Size(ch) /\ q < Size(ch) /\ q \in 0 .. Size(ch)
      /\ b[q] \in Seq(Nat) /\ Len(b[q]) \in Nat /\ L \in Nat /\ L > 0
  <2>1. \A x \in 0 .. Size(ch) : b[x] \in Seq(Nat)
      BY BlocksOpen, Zenon DEF OpenAt
  <2>2. q \in Nat /\ q + 1 \in 0 .. Size(ch) /\ q < Size(ch) /\ q \in 0 .. Size(ch)
      BY DEF Positions
  <2>3. b[q] \in Seq(Nat)
      BY <2>1, <2>2, Zenon
  <2> HIDE DEF b
  <2> QED BY <2>1, <2>2, <2>3
<1>2. Size(ch) \in B
  <2>1. b[Size(ch)] = <<>>
      BY Zenon DEF verify_nesting
  <2>2. Len(b[Size(ch)]) = 0
      BY <2>1
  <2> HIDE DEF b
  <2>3. ~ Hold(Size(ch))
      BY <1>1, <2>2
  <2> QED BY <1>1, <2>3
<1>3. PICK x \in B : x \in Nat /\ \A y \in Nat : y < x => y \notin B
  <2>1. B \subseteq Nat
      BY Zenon
  <2> HIDE DEF B
  <2> QED BY <1>2, <2>1, Least
<1>4. q < x /\ x <= Size(ch) /\ ~ Hold(x)
    BY <1>3
<1>5. b[q + 1] = Append(b[q], q)
    BY IsNested, Zenon DEF Nested
<1>6. Hold(q + 1)
  <2> DEFINE s == b[q]
             t == b[q + 1]
  <2>1. s \in Seq(Nat) /\ t = Append(s, q)
      BY <1>1, <1>5
  <2> HIDE DEF s, t, b
  <2>2. Len(t) = Len(s) + 1 /\ t[Len(s) + 1] = q /\ Len(s) \in Nat
      BY <1>1, <2>1
  <2> QED BY <2>2 DEF s, t
<1>7. x # q + 1
    BY <1>4, <1>6, Zenon
<1> DEFINE c == x - 1
<1>8. /\ c \in Positions(ch) /\ q < c /\ c + 1 = x /\ c \in Nat
      /\ c \in 0 .. Size(ch) /\ x \in 0 .. Size(ch)
  <2> HIDE DEF B, Hold, b
  <2> QED BY <1>1, <1>3, <1>4, <1>7 DEF Positions
<1>9. Hold(c)
  <2>1. c < x /\ c <= Size(ch)
      BY <1>3, <1>8
  <2> HIDE DEF c, Hold
  <2> QED BY <1>3, <1>8, <2>1
<1> HIDE DEF c, B
<1> DEFINE s == b[c]
           t == b[x]
<1>10. t = Reopened(ch, c, s) /\ s \in Seq(Nat) /\ t \in Seq(Nat)
    BY <1>1, <1>8, BlocksIs, Zenon
<1>11. /\ Len(s) \in Nat /\ Len(s) >= L /\ s[L] = q /\ ~(Len(t) >= L /\ t[L] = q)
       /\ s # <<>>
  <2>1. Len(s) \in Nat
      BY <1>10
  <2>2. Len(s) >= L /\ s[L] = q /\ ~(Len(t) >= L /\ t[L] = q)
      BY <1>4, <1>9, Zenon
  <2> HIDE DEF s, t, L
  <2>3. s # <<>>
      BY <1>1, <2>1, <2>2
  <2> QED BY <2>1, <2>2, <2>3
<1> HIDE DEF L, Hold, s, t, b
<1>12. /\ At(ch, c).o \in {"Else", "EndIf", "EndLoop"}
       /\ t = Front(s) \/ t = Append(Front(s), c)
  <2>1. t # s
      BY <1>11
  <2>2. t # Append(s, c)
    <3>1. ASSUME t = Append(s, c) PROVE Len(t) >= L /\ t[L] = s[L]
        BY <1>1, <1>8, <1>10, <1>11, <3>1
    <3> QED BY <1>11, <3>1
  <2>3. \/ t = s
        \/ t = Append(s, c)
        \/ t = Append(Front(s), c) /\ At(ch, c).o = "Else"
        \/ t = Front(s) /\ At(ch, c).o \in {"EndIf", "EndLoop"}
      BY <1>8, <1>10, ReopenedIs, Zenon
  <2> QED BY <2>1, <2>2, <2>3
<1>13. Len(s) = L
  <2> SUFFICES ASSUME Len(s) > L PROVE FALSE
      BY <1>1, <1>11
  <2> DEFINE f == Front(s)
  <2>1. /\ f \in Seq(Nat) /\ Len(f) = Len(s) - 1
        /\ \A i \in 1 .. Len(s) - 1 : f[i] = s[i]
      BY <1>10, <1>11, FrontIs, Zenon
  <2> HIDE DEF f
  <2>2. L \in 1 .. Len(s) - 1 /\ Len(f) >= L /\ f[L] = q
      BY <1>1, <1>11, <2>1
  <2>3. t # f
      BY <1>11, <2>2
  <2>4. t # Append(f, c)
    <3>1. ASSUME t = Append(f, c) PROVE Len(t) >= L /\ t[L] = f[L]
        BY <1>1, <1>8, <2>1, <2>2, <3>1
    <3> QED BY <1>11, <2>2, <3>1
  <2> QED BY <1>12, <2>3, <2>4 DEF f
<1>14. Last(s) = q
    BY <1>11, <1>13, Zenon DEF Last
<1>15. Opener(b, c) = q /\ b[c] = Append(b[q], q)
  <2>1. Opener(b, c) = q
      BY <1>14 DEF Opener, s
  <2>2. b[q + 1] = b[c]
      BY <1>8, <1>11, <2>1, Innermost, Zenon DEF b, s
  <2> QED BY <1>5, <2>1, <2>2, Zenon
<1>16. \/ At(ch, q).o = "If" /\ At(ch, c).o = "Else" /\ At(ch, q).a = c + 1
       \/ At(ch, q).o = "If" /\ At(ch, c).o = "EndIf" /\ At(ch, q).a = c
       \/ At(ch, q).o = "Loop" /\ At(ch, c).o = "EndLoop" /\ At(ch, q).a = c + 1
  <2>1. Nested(ch, c)
      BY <1>8, IsNested
  <2>2. CASE At(ch, c).o = "Else"
      BY <1>15, <2>1, <2>2, Zenon DEF Nested, b
  <2>3. CASE At(ch, c).o = "EndIf"
    <3>1. At(ch, q).o \in {"If", "Else"} /\ (At(ch, q).o = "If" => At(ch, q).a = c)
        BY <1>15, <2>1, <2>3, Zenon DEF Nested, b
    <3> QED BY <2>3, <3>1
  <2>4. CASE At(ch, c).o = "EndLoop"
      BY <1>15, <2>1, <2>4, Zenon DEF Nested, b
  <2> QED BY <1>12, <2>2, <2>3, <2>4
<1> QED BY <1>8, <1>15, <1>16, Zenon DEF b

-----------------------------------------------------------------------------
\* The operand heights: an edge from before brings the height of a position.

\* The heights are a list that grows by one position at a time.
LEMMA HeightsGrow ==
    ASSUME NEW ch, Size(ch) \in Nat
    PROVE  \E u : /\ interp_region(ch) = u[Size(ch)] /\ u[0] = <<>>
                  /\ \A n \in 0 .. Size(ch) - 1 :
                        LET from == IF n = 0 THEN {0} ELSE Arrivals(ch, u[n], n)
                        IN u[n + 1] = Append(u[n], IF from = {} THEN Dead
                                                   ELSE Max(from))
<1> DEFINE From(s, n) == IF n = 1 THEN {0} ELSE Arrivals(ch, s, n - 1)
           Longer(s, n) == Append(s, IF From(s, n) = {} THEN Dead ELSE Max(From(s, n)))
           P(n, u) == u = [k \in 0 .. n |->
                              IF k = 0 THEN <<>> ELSE Longer(u[k - 1], k)]
           B == {n \in Nat : ~ \E u : P(n, u)}
<1>1. interp_region(ch) = (CHOOSE u : P(Size(ch), u))[Size(ch)]
    BY DEF interp_region
<1> HIDE DEF Longer
<1>2. \A n \in Nat : n \notin B
  <2> SUFFICES ASSUME B # {} PROVE FALSE
      OBVIOUS
  <2>1. PICK n \in B : n \in Nat /\ \A y \in Nat : y < n => y \notin B
    <3>1. B \subseteq Nat
        BY Zenon
    <3> HIDE DEF B
    <3> QED BY <3>1, Least
  <2>2. n \in Nat /\ ~ \E u : P(n, u)
      BY <2>1, Zenon
  <2>3. n # 0
    <3>1. ASSUME n = 0 PROVE P(n, [k \in 0 .. n |-> <<>>])
        BY <3>1
    <3> QED BY <2>2, <3>1, Zenon
  <2>4. n - 1 \in Nat /\ n - 1 < n
      BY <2>2, <2>3
  <2>5. PICK u : P(n - 1, u)
      BY <2>1, <2>4, Zenon
  <2> DEFINE v == [k \in 0 .. n |-> IF k = n THEN Longer(u[n - 1], n) ELSE u[k]]
  <2>6. \A k \in 0 .. n - 1 : u[k] = IF k = 0 THEN <<>> ELSE Longer(u[k - 1], k)
      BY <2>5
  <2>7. ASSUME NEW k \in 0 .. n
        PROVE  v[k] = IF k = 0 THEN <<>> ELSE Longer(v[k - 1], k)
    <3>1. k # 0 => v[k - 1] = u[k - 1]
        BY <2>2
    <3>2. CASE k = n
        BY <2>3, <3>1, <3>2
    <3>3. CASE k # n
        BY <2>2, <2>6, <3>1, <3>3
    <3> QED BY <3>2, <3>3
  <2>8. P(n, v)
    <3>1. v = [k \in 0 .. n |-> v[k]]
        OBVIOUS
    <3> HIDE DEF v
    <3> QED BY <2>7, <3>1
  <2> QED BY <2>2, <2>8, Zenon
<1> DEFINE N == Size(ch)
           u == CHOOSE u : P(N, u)
<1>3. P(N, u)
  <2>1. \E w : P(N, w)
      BY <1>2, Zenon
  <2> HIDE DEF P
  <2> QED BY <2>1, Zenon
<1> HIDE DEF u
<1>4. \A k \in 0 .. N : u[k] = IF k = 0 THEN <<>> ELSE Longer(u[k - 1], k)
    BY <1>3
<1>5. ASSUME NEW n \in 0 .. N - 1
      PROVE  LET from == IF n = 0 THEN {0} ELSE Arrivals(ch, u[n], n)
             IN u[n + 1] = Append(u[n], IF from = {} THEN Dead ELSE Max(from))
  <2>1. n + 1 \in 0 .. N /\ n + 1 # 0 /\ (n + 1) - 1 = n /\ (n + 1 = 1) = (n = 0)
      OBVIOUS
  <2>2. u[n + 1] = Longer(u[n], n + 1)
      BY <1>4, <2>1
  <2> QED BY <2>1, <2>2 DEF Longer
<1>6. u[0] = <<>>
    BY <1>4
<1> QED BY <1>1, <1>5, <1>6, Zenon DEF u

\* A position that control reaches is entered from one that it reaches.
LEMMA Arrived ==
    ASSUME NEW ch, Size(ch) \in Nat, NEW ip \in Positions(ch), ip > 0,
           interp_region(ch)[ip + 1] # Dead
    PROVE  \E p \in 0 .. ip - 1 :
              interp_region(ch)[p + 1] # Dead /\ ip \in Targets(ch, p)
<1> DEFINE h == interp_region(ch)
           N == Size(ch)
<1>1. PICK u : /\ h = u[N] /\ u[0] = <<>>
               /\ \A n \in 0 .. N - 1 :
                     LET from == IF n = 0 THEN {0} ELSE Arrivals(ch, u[n], n)
                     IN u[n + 1] = Append(u[n], IF from = {} THEN Dead
                                                ELSE Max(from))
    BY HeightsGrow
<1> DEFINE From(n) == IF n = 0 THEN {0} ELSE Arrivals(ch, u[n], n)
           x == [n \in 0 .. N - 1 |-> IF From(n) = {} THEN Dead ELSE Max(From(n))]
<1>2. \A n \in 0 .. N - 1 : u[n + 1] = Append(u[n], x[n])
  <2> TAKE n \in 0 .. N - 1
  <2>1. x[n] = IF From(n) = {} THEN Dead ELSE Max(From(n))
      OBVIOUS
  <2> HIDE DEF x
  <2> QED BY <1>1, <2>1
<1>3. ip \in 0 .. N - 1 /\ ip \in 0 .. N /\ N \in 0 .. N /\ ip \in Nat
    BY DEF Positions
<1>4. u[0] \in Seq(Int) /\ 0 = Len(u[0])
    BY <1>1
<1> HIDE DEF N, h
<1>5. \A n \in 0 .. N : /\ Len(u[n]) = n
                        /\ \A k \in 0 .. n - 1 : u[n][k + 1] = x[k]
  <2> HIDE DEF x
  <2>1. N \in Nat
      BY DEF N
  <2>2. Grows(N, Int, u, x)
      BY <1>2, <1>4, <2>1, Zenon DEF Grows
  <2>3. Grown(N, u, x)
      BY <2>2, Table
  <2>4. ASSUME NEW n \in 0 .. N
        PROVE  Len(u[n]) = n /\ \A k \in 0 .. n - 1 : u[n][k + 1] = x[k]
    <3>1. /\ Len(u[n]) = Len(u[0]) + n
          /\ \A k \in 0 .. n - 1 : u[n][Len(u[0]) + k + 1] = x[k]
        BY <2>3, Zenon DEF Grown
    <3>2. Len(u[0]) + n = n /\ \A k \in 0 .. n - 1 : Len(u[0]) + k + 1 = k + 1
        BY <1>4, <2>1
    <3> QED BY <3>1, <3>2, Zenon
  <2> QED BY <2>4, Zenon
<1>6. h[ip + 1] = x[ip]
  <2> HIDE DEF x
  <2>1. h[ip + 1] = u[N][ip + 1]
      BY <1>1, Zenon
  <2>2. u[N][ip + 1] = x[ip]
      BY <1>3, <1>5, Zenon
  <2> QED BY <2>1, <2>2
<1>7. Arrivals(ch, u[ip], ip) # {}
  <2>1. h[ip + 1] # Dead
      BY DEF h
  <2>2. From(ip) # {}
      BY <1>3, <1>6, <2>1
  <2> QED BY <2>2
<1>8. PICK p \in 0 .. ip - 1 : u[ip][p + 1] # Dead /\ ip \in Targets(ch, p)
    BY <1>7, Zenon DEF Arrivals
<1>9. h[p + 1] = u[ip][p + 1]
  <2> HIDE DEF x
  <2>1. p \in 0 .. N - 1
      BY <1>3
  <2>2. h[p + 1] = u[N][p + 1]
      BY <1>1, Zenon
  <2>3. u[N][p + 1] = x[p] /\ u[ip][p + 1] = x[p]
      BY <1>3, <1>5, <2>1, Zenon
  <2> QED BY <2>2, <2>3
<1> QED BY <1>8, <1>9, Zenon DEF h

-----------------------------------------------------------------------------
\* The walk of the operand slots, position by position.

SlotsAt(ch, from, at, n) ==
    IF n < from THEN Unwalked
    ELSE IF n = from THEN [Unwalked EXCEPT !.live = TRUE]
    ELSE SlotsBehind(ch, Blocks(ch), at, n - 1)

SlotsUpto(ch, from, u) ==
    /\ wcmu_region(ch, from) = u[Size(ch)]
    /\ u[0] = <<[Unwalked EXCEPT !.live = from = 0]>>
    /\ \A n \in 0 .. Size(ch) - 1 :
          u[n + 1] = Append(u[n], SlotsAt(ch, from, u[n], n + 1))

\* The walk of the slots is a list that grows by one position at a time.
LEMMA SlotsGrow ==
    ASSUME NEW ch, Size(ch) \in Nat, NEW from
    PROVE  \E u : SlotsUpto(ch, from, u)
<1> DEFINE Longer(s, n) == Append(s, SlotsAt(ch, from, s, n))
           base == <<[Unwalked EXCEPT !.live = from = 0]>>
           P(n, u) == u = [k \in 0 .. n |->
                              IF k = 0 THEN base ELSE Longer(u[k - 1], k)]
           B == {n \in Nat : ~ \E u : P(n, u)}
<1>1. wcmu_region(ch, from) = (CHOOSE u : P(Size(ch), u))[Size(ch)]
    BY DEF wcmu_region, SlotsAt
<1> HIDE DEF Longer, base
<1>2. \A n \in Nat : n \notin B
  <2> SUFFICES ASSUME B # {} PROVE FALSE
      OBVIOUS
  <2>1. PICK n \in B : n \in Nat /\ \A y \in Nat : y < n => y \notin B
    <3>1. B \subseteq Nat
        BY Zenon
    <3> HIDE DEF B
    <3> QED BY <3>1, Least
  <2>2. n \in Nat /\ ~ \E u : P(n, u)
      BY <2>1, Zenon
  <2>3. n # 0
    <3>1. ASSUME n = 0 PROVE P(n, [k \in 0 .. n |-> base])
        BY <3>1
    <3> QED BY <2>2, <3>1, Zenon
  <2>4. n - 1 \in Nat /\ n - 1 < n
      BY <2>2, <2>3
  <2>5. PICK u : P(n - 1, u)
      BY <2>1, <2>4, Zenon
  <2> DEFINE v == [k \in 0 .. n |-> IF k = n THEN Longer(u[n - 1], n) ELSE u[k]]
  <2>6. \A k \in 0 .. n - 1 : u[k] = IF k = 0 THEN base ELSE Longer(u[k - 1], k)
      BY <2>5
  <2>7. ASSUME NEW k \in 0 .. n
        PROVE  v[k] = IF k = 0 THEN base ELSE Longer(v[k - 1], k)
    <3>1. k # 0 => v[k - 1] = u[k - 1]
        BY <2>2
    <3>2. CASE k = n
        BY <2>3, <3>1, <3>2
    <3>3. CASE k # n
        BY <2>2, <2>6, <3>1, <3>3
    <3> QED BY <3>2, <3>3
  <2>8. P(n, v)
    <3>1. v = [k \in 0 .. n |-> v[k]]
        OBVIOUS
    <3> HIDE DEF v
    <3> QED BY <2>7, <3>1
  <2> QED BY <2>2, <2>8, Zenon
<1> DEFINE N == Size(ch)
           u == CHOOSE u : P(N, u)
<1>3. P(N, u)
  <2>1. \E w : P(N, w)
      BY <1>2, Zenon
  <2> HIDE DEF P
  <2> QED BY <2>1, Zenon
<1> HIDE DEF u
<1>4. \A k \in 0 .. N : u[k] = IF k = 0 THEN base ELSE Longer(u[k - 1], k)
    BY <1>3
<1>5. ASSUME NEW n \in 0 .. N - 1
      PROVE  u[n + 1] = Append(u[n], SlotsAt(ch, from, u[n], n + 1))
  <2>1. n + 1 \in 0 .. N /\ n + 1 # 0 /\ (n + 1) - 1 = n
      OBVIOUS
  <2>2. u[n + 1] = Longer(u[n], n + 1)
      BY <1>4, <2>1
  <2> QED BY <2>2 DEF Longer
<1>6. u[0] = base
    BY <1>4
<1>7. SlotsUpto(ch, from, u)
    BY <1>1, <1>5, <1>6, Zenon DEF SlotsUpto, u, base
<1> QED BY <1>7, Zenon

\* The walk looks back only.
LEMMA SlotsSame ==
    ASSUME NEW ch, Size(ch) \in Nat, verify_nesting(ch), NEW ip \in Positions(ch),
           NEW at, NEW bt, \A p \in 0 .. ip : at[p + 1] = bt[p + 1]
    PROVE  SlotsBehind(ch, Blocks(ch), at, ip) = SlotsBehind(ch, Blocks(ch), bt, ip)
<1> DEFINE open == Blocks(ch)
           op == At(ch, ip)
           opener == Opener(open, ip)
           t == TestOf(ch, open, opener)
<1>1. ip \in Nat /\ at[ip + 1] = bt[ip + 1]
    BY DEF Positions
<1>2. ASSUME op.o \in {"Else", "EndIf", "EndLoop"}
      PROVE  at[opener + 1] = bt[opener + 1] /\ at[t + 1] = bt[t + 1]
  <2>1. opener \in Positions(ch) /\ opener < ip /\ t \in Positions(ch) /\ t < ip
    <3>1. Nested(ch, ip)
        BY IsNested
    <3>2. op.o = "Else" => t = opener
        BY <3>1, Zenon DEF Nested, TestOf
    <3> QED BY <1>2, <3>1, <3>2, Zenon DEF Nested
  <2>2. opener \in 0 .. ip /\ t \in 0 .. ip
    <3> HIDE DEF opener, t
    <3> QED BY <2>1 DEF Positions
  <2> QED BY <2>2
<1>3. {q \in Leaving(ch, opener) : q < ip /\ at[q + 1].live}
        = {q \in Leaving(ch, opener) : q < ip /\ bt[q + 1].live}
  <2>1. \A q \in Leaving(ch, opener) : q \in Nat
      BY DEF Leaving, PositionsOf, Positions
  <2>2. \A q \in Nat : q < ip => q \in 0 .. ip
      BY <1>1
  <2> HIDE DEF opener
  <2> QED BY <2>1, <2>2
<1>4. (\E q \in Leaving(ch, opener) : q < ip /\ at[q + 1].live)
        <=> (\E q \in Leaving(ch, opener) : q < ip /\ bt[q + 1].live)
    BY <1>3
<1> HIDE DEF open, op, opener, t
<1>5. CASE op.o \in {"Break", "Trap", "Return"}
    BY <1>1, <1>5, Zenon DEF SlotsBehind, op
<1>6. CASE op.o \in {"If", "Loop"}
    BY <1>1, <1>6, Zenon DEF SlotsBehind, op
<1>7. CASE op.o = "Else"
    BY <1>2, <1>7, Zenon DEF SlotsBehind, op, open, opener, t
<1>8. CASE op.o = "EndIf"
    BY <1>1, <1>2, <1>8, Zenon DEF SlotsBehind, op, open, opener, t
<1>9. CASE op.o = "EndLoop"
    BY <1>1, <1>2, <1>4, <1>9, Zenon DEF SlotsBehind, op, open, opener, t
<1>10. CASE op.o \notin {"Break", "Trap", "Return", "If", "Loop", "Else",
                         "EndIf", "EndLoop"}
    BY <1>1, <1>10, Zenon DEF SlotsBehind, op
<1> QED BY <1>5, <1>6, <1>7, <1>8, <1>9, <1>10

SlotsStep(ch, from, at) ==
    /\ at[1] = [Unwalked EXCEPT !.live = from = 0]
    /\ \A ip \in Positions(ch) : at[(ip + 1) + 1] = SlotsAt(ch, from, at, ip + 1)

\* The walk at each position, from the walk at those before it.
LEMMA SlotsIs ==
    ASSUME NEW ch, Size(ch) \in Nat, verify_nesting(ch), NEW from
    PROVE  SlotsStep(ch, from, wcmu_region(ch, from))
<1>0. PICK u : SlotsUpto(ch, from, u)
    BY SlotsGrow, Zenon
<1> DEFINE at == wcmu_region(ch, from)
           s0 == [Unwalked EXCEPT !.live = from = 0]
           N == Size(ch)
<1>1. /\ at = u[N] /\ u[0] = <<s0>>
      /\ \A n \in 0 .. N - 1 :
            u[n + 1] = Append(u[n], SlotsAt(ch, from, u[n], n + 1))
    BY <1>0, Zenon DEF SlotsUpto
<1> DEFINE x == [n \in 0 .. N - 1 |-> SlotsAt(ch, from, u[n], n + 1)]
<1>2. \A n \in 0 .. N - 1 : x[n] = SlotsAt(ch, from, u[n], n + 1)
    OBVIOUS
<1> HIDE DEF x, s0, at
<1>3. u[0] \in Seq({s0}) /\ Len(u[0]) = 1 /\ u[0][1] = s0
    BY <1>1
<1>4. Grown(N, u, x)
  <2>1. \A n \in 0 .. N - 1 : u[n + 1] = Append(u[n], x[n])
      BY <1>1, <1>2, Zenon
  <2>2. Grows(N, {s0}, u, x)
      BY <1>3, <2>1, Zenon DEF Grows
  <2> QED BY <2>2, Table
<1>5. ASSUME NEW n \in 0 .. N
      PROVE  u[n][1] = s0 /\ \A k \in 0 .. n - 1 : u[n][(k + 1) + 1] = x[k]
  <2>1. /\ \A k \in 1 .. Len(u[0]) : u[n][k] = u[0][k]
        /\ \A k \in 0 .. n - 1 : u[n][Len(u[0]) + k + 1] = x[k]
      BY <1>4, Zenon DEF Grown
  <2>2. 1 \in 1 .. Len(u[0]) /\ \A k \in 0 .. n - 1 : Len(u[0]) + k + 1 = (k + 1) + 1
      BY <1>3
  <2> QED BY <1>3, <2>1, <2>2, Zenon
<1>6. N \in 0 .. N /\ at[1] = s0
    BY <1>1, <1>5
<1>7. ASSUME NEW ip \in Positions(ch)
      PROVE  at[(ip + 1) + 1] = SlotsAt(ch, from, at, ip + 1)
  <2>1. ip \in 0 .. N - 1 /\ ip \in 0 .. N /\ ip \in Nat /\ (ip + 1) - 1 = ip
      BY DEF Positions
  <2>2. at[(ip + 1) + 1] = SlotsAt(ch, from, u[ip], ip + 1)
      BY <1>1, <1>2, <1>5, <1>6, <2>1, Zenon
  <2>3. ASSUME NEW p \in 0 .. ip PROVE u[ip][p + 1] = at[p + 1]
    <3>1. CASE p = 0
      <4>1. p + 1 = 1
          BY <3>1
      <4> QED BY <1>5, <1>6, <2>1, <4>1, Zenon
    <3>2. CASE p # 0
      <4>1. /\ p - 1 \in 0 .. ip - 1 /\ p - 1 \in 0 .. N - 1
            /\ ((p - 1) + 1) + 1 = p + 1
          BY <2>1, <3>2
      <4> QED BY <1>1, <1>5, <1>6, <2>1, <4>1, Zenon
    <3> QED BY <3>1, <3>2
  <2>4. SlotsBehind(ch, Blocks(ch), u[ip], ip) = SlotsBehind(ch, Blocks(ch), at, ip)
      BY <2>3, SlotsSame
  <2> QED BY <2>1, <2>2, <2>4, Zenon DEF SlotsAt
<1> QED BY <1>6, <1>7, Zenon DEF SlotsStep, at, s0

SlotType == [live : BOOLEAN, off : Int, up : Nat]

\* The peak model's net is what the handler pops and pushes.
LEMMA NetIs ==
    ASSUME NEW op \in Instruction
    PROVE  /\ stack_growth(op) \in Nat /\ stack_shrink(op) \in Nat
           /\ op.o \notin {"Return", "Trap", "Reset"} =>
                 stack_growth(op) - stack_shrink(op) = op_depth_effect(op)[2]
<1>1. op.a \in Nat /\ op.b \in Nat /\ op.o \in Opcodes
    BY DEF Instruction
<1>2. stack_growth(op) \in {0, 1, 2} /\ stack_shrink(op) \in {0, 1, op.a, op.b}
    BY Zenon DEF stack_growth, stack_shrink
<1>3. ASSUME op.o \notin {"Return", "Trap", "Reset"}
      PROVE  stack_growth(op) - stack_shrink(op) = op_depth_effect(op)[2]
    BY <1>1, <1>3 DEF stack_growth, stack_shrink, op_depth_effect, Opcodes,
                      Straight, Natives
<1> QED BY <1>1, <1>2, <1>3

\* The greatest of at most two integers.
LEMMA IntsOf ==
    ASSUME NEW S, \/ S = {}
                  \/ \E a \in Int : S = {a}
                  \/ \E a, b \in Int : S = {a, b}
    PROVE  Ints(S) \in Int /\ \A a \in S : a <= Ints(S)
<1>1. CASE S = {}
    BY <1>1 DEF Ints
<1>2. ASSUME NEW a \in Int, NEW b \in Int, S = {a, b}
      PROVE  Ints(S) \in Int /\ \A x \in S : x <= Ints(S)
  <2>1. \E x \in S : \A y \in S : x >= y
      BY <1>2
  <2>2. Max(S) \in S /\ \A y \in S : Max(S) >= y
      BY <2>1, Zenon DEF Max
  <2>3. Ints(S) = Max(S)
      BY <1>2 DEF Ints
  <2> QED BY <1>2, <2>2, <2>3
<1>3. ASSUME NEW a \in Int, S = {a}
      PROVE  Ints(S) \in Int /\ \A x \in S : x <= Ints(S)
  <2>1. S = {a, a}
      BY <1>3
  <2> QED BY <1>2, <2>1
<1> QED BY <1>1, <1>2, <1>3

\* The offsets with which the arms of a branch leave, two or the one and none.
ArmOffs(two, e, s) ==
    LET arms == IF two THEN {e, s} ELSE {s}
    IN {a.off : a \in {x \in arms : x.live}} \cup (IF two THEN {} ELSE {0})

\* The greatest offset with which an arm leaves is an integer.
LEMMA ArmOffsType ==
    ASSUME NEW e \in SlotType, NEW s \in SlotType, NEW two
    PROVE  LET offs == ArmOffs(two, e, s)
           IN /\ Ints(offs) \in Int /\ \A a \in offs : a <= Ints(offs)
              /\ s.live => s.off \in offs
              /\ two /\ e.live => e.off \in offs
              /\ ~two => 0 \in offs
<1> DEFINE offs == ArmOffs(two, e, s)
<1>0. SUFFICES /\ Ints(offs) \in Int /\ \A a \in offs : a <= Ints(offs)
               /\ s.live => s.off \in offs
               /\ two /\ e.live => e.off \in offs
               /\ ~two => 0 \in offs
    OBVIOUS
<1>1. s.off \in Int /\ e.off \in Int /\ s.live \in BOOLEAN /\ e.live \in BOOLEAN
    BY DEF SlotType
<1>2. CASE two
  <2>1. offs = {a.off : a \in {x \in {e, s} : x.live}}
      BY <1>2 DEF ArmOffs
  <2>2. \/ offs = {} \/ \E a \in Int : offs = {a}
        \/ \E a, b \in Int : offs = {a, b}
    <3>2. CASE e.live /\ s.live
        BY <1>1, <2>1, <3>2
    <3>3. CASE ~e.live /\ s.live
      <4>1. offs = {s.off}
          BY <1>1, <2>1, <3>3
      <4> QED BY <1>1, <4>1
    <3>4. CASE e.live /\ ~s.live
      <4>1. offs = {e.off}
          BY <1>1, <2>1, <3>4
      <4> QED BY <1>1, <4>1
    <3>5. CASE ~e.live /\ ~s.live
        BY <1>1, <2>1, <3>5
    <3> QED BY <1>1, <3>2, <3>3, <3>4, <3>5
  <2>3. (s.live => s.off \in offs) /\ (e.live => e.off \in offs)
      BY <2>1
  <2> HIDE DEF offs
  <2>4. Ints(offs) \in Int /\ \A a \in offs : a <= Ints(offs)
      BY <2>2, IntsOf
  <2> QED BY <1>2, <2>3, <2>4
<1>3. CASE ~two
  <2>1. offs = {a.off : a \in {x \in {s} : x.live}} \cup {0}
      BY <1>3 DEF ArmOffs
  <2>2. (s.live => offs = {s.off, 0}) /\ (~s.live => offs = {0})
      BY <1>1, <2>1
  <2> HIDE DEF offs
  <2>3. \/ \E a \in Int : offs = {a}
        \/ \E a, b \in Int : offs = {a, b}
      BY <1>1, <2>2
  <2>4. Ints(offs) \in Int /\ \A a \in offs : a <= Ints(offs)
      BY <2>3, IntsOf
  <2> QED BY <1>1, <1>3, <2>2, <2>4
<1> QED BY <1>2, <1>3

\* The walk keeps its types.
LEMMA BehindType ==
    ASSUME NEW ch, Size(ch) \in Nat, ch.ops \in Seq(Instruction),
           verify_nesting(ch), NEW ip \in Positions(ch),
           NEW at, \A p \in 0 .. ip : at[p + 1] \in SlotType
    PROVE  SlotsBehind(ch, Blocks(ch), at, ip) \in SlotType
<1> DEFINE open == Blocks(ch)
           op == At(ch, ip)
           s == at[ip + 1]
           opener == Opener(open, ip)
           q == at[TestOf(ch, open, opener) + 1]
           e == at[opener + 1]
           arms == IF At(ch, opener).o = "Else" THEN {e, s} ELSE {s}
           offs == {a.off : a \in {x \in arms : x.live}}
                   \cup (IF At(ch, opener).o = "Else" THEN {} ELSE {0})
           net == s.off + stack_growth(op) - stack_shrink(op)
<1>1. ip \in 0 .. ip /\ op \in Instruction
    BY DEF Positions, At, Size
<1>2. s \in SlotType
    BY <1>1
<1>3. ASSUME op.o \in {"Else", "EndIf", "EndLoop"}
      PROVE  q \in SlotType /\ e \in SlotType
  <2>1. opener \in Positions(ch) /\ opener < ip
        /\ TestOf(ch, open, opener) \in Positions(ch)
        /\ TestOf(ch, open, opener) < ip
    <3>1. Nested(ch, ip)
        BY IsNested
    <3>2. op.o = "Else" => TestOf(ch, open, opener) = opener
        BY <3>1, Zenon DEF Nested, TestOf
    <3> QED BY <1>3, <3>1, <3>2, Zenon DEF Nested
  <2> DEFINE t == TestOf(ch, open, opener)
  <2> HIDE DEF opener, t
  <2>2. opener \in 0 .. ip /\ t \in 0 .. ip
      BY <2>1 DEF Positions, t
  <2> QED BY <2>2 DEF t
<1>4. net \in Int
  <2>1. stack_growth(op) \in Nat /\ stack_shrink(op) \in Nat
      BY <1>1, NetIs
  <2> HIDE DEF op, s
  <2> QED BY <1>2, <2>1 DEF SlotType
<1>5. ASSUME op.o = "EndIf" PROVE Ints(offs) \in Int
  <2>1. s \in SlotType /\ e \in SlotType
      BY <1>2, <1>3, <1>5
  <2>2. offs = ArmOffs(At(ch, opener).o = "Else", e, s)
      BY Zenon DEF ArmOffs
  <2> HIDE DEF offs, s, e
  <2> QED BY <2>1, <2>2, ArmOffsType
<1>6. \A r \in SlotType : \A n \in Int : wcmu_subregion(r, n) \in SlotType
    BY DEF wcmu_subregion, SlotType, Pos
<1>7. \A r \in SlotType : \A n \in Int : r.off - 1 + n \in Int /\ r.off - 1 \in Int
    BY DEF SlotType
<1>8. ASSUME NEW x \in SlotType, NEW b \in BOOLEAN, NEW n \in Int
      PROVE  /\ [x EXCEPT !.live = b] \in SlotType
             /\ [x EXCEPT !.off = n] \in SlotType
             /\ [x EXCEPT !.live = b, !.off = n] \in SlotType
    BY DEF SlotType
<1> DEFINE r == SlotsBehind(ch, open, at, ip)
           leaves == /\ q.live
                     /\ \/ s.live
                        \/ \E b \in Leaving(ch, opener) : b < ip /\ at[b + 1].live
           joins == q.live /\ offs # {}
<1>9. /\ leaves \in BOOLEAN /\ joins \in BOOLEAN /\ FALSE \in BOOLEAN
      /\ 0 \in Int
  <2>1. leaves \in BOOLEAN
      BY Zenon
  <2>2. joins \in BOOLEAN
      BY Zenon
  <2> HIDE DEF leaves, joins
  <2> QED BY <2>1, <2>2
<1>a. SUFFICES r \in SlotType
    OBVIOUS
<1> HIDE DEF open, op, s, opener, q, offs, net
<1>10. CASE op.o \in {"Break", "Trap", "Return"}
  <2>1. r = [s EXCEPT !.live = FALSE]
      BY <1>10, Zenon DEF SlotsBehind, op, s
  <2> QED BY <1>2, <1>8, <1>9, <2>1, Zenon
<1>11. CASE op.o \in {"If", "Loop"}
  <2>1. r = wcmu_subregion(s, net)
      BY <1>11, Zenon DEF SlotsBehind, op, s, net
  <2> QED BY <1>2, <1>4, <1>6, <2>1
<1>12. CASE op.o = "Else"
  <2>1. r = wcmu_subregion(q, q.off - 1)
      BY <1>12, Zenon DEF SlotsBehind, op, s, q, opener
  <2> QED BY <1>3, <1>6, <1>7, <1>12, <2>1
<1>13. CASE op.o = "EndIf"
  <2>1. r = [q EXCEPT !.live = joins, !.off = q.off - 1 + Ints(offs)]
    <3>1. r = [q EXCEPT !.live = @ /\ offs # {}, !.off = @ - 1 + Ints(offs)]
        BY <1>13, Zenon DEF SlotsBehind, op, s, q, opener, offs
    <3> QED BY <3>1
  <2> HIDE DEF joins, r
  <2>2. q \in SlotType /\ q.off - 1 + Ints(offs) \in Int
      BY <1>3, <1>5, <1>7, <1>13, Zenon
  <2> QED BY <1>3, <1>8, <1>9, <1>13, <2>1, <2>2, Zenon
<1>14. CASE op.o = "EndLoop"
  <2>1. r = [q EXCEPT !.live = leaves]
    <3>1. r = [q EXCEPT !.live = /\ @
                                 /\ \/ s.live
                                    \/ \E b \in Leaving(ch, opener) :
                                          b < ip /\ at[b + 1].live]
        BY <1>14, Zenon DEF SlotsBehind, op, s, q, opener
    <3> QED BY <3>1
  <2> HIDE DEF leaves
  <2>2. q \in SlotType
      BY <1>3, <1>14, Zenon
  <2> HIDE DEF r
  <2> QED BY <2>2, <1>3, <1>8, <1>9, <1>14, <2>1, Zenon
<1>15. CASE op.o \notin {"Break", "Trap", "Return", "If", "Loop", "Else",
                         "EndIf", "EndLoop"}
  <2>1. r = [s EXCEPT !.off = net]
      BY <1>15, Zenon DEF SlotsBehind, op, s, net
  <2> QED BY <1>2, <1>4, <1>8, <2>1, Zenon
<1> QED
  <2> HIDE DEF r
  <2> QED BY <1>10, <1>11, <1>12, <1>13, <1>14, <1>15

\* The walk has its type at every position.
LEMMA AtType ==
    ASSUME NEW ch, Size(ch) \in Nat, ch.ops \in Seq(Instruction),
           verify_nesting(ch), NEW from
    PROVE  \A ip \in 0 .. Size(ch) : wcmu_region(ch, from)[ip + 1] \in SlotType
<1> DEFINE at == wcmu_region(ch, from)
           B == {ip \in 0 .. Size(ch) : at[ip + 1] \notin SlotType}
<1>1. /\ at[1] = [Unwalked EXCEPT !.live = from = 0]
      /\ \A ip \in Positions(ch) : at[(ip + 1) + 1] = SlotsAt(ch, from, at, ip + 1)
  <2>1. SlotsStep(ch, from, at)
      BY SlotsIs, Zenon
  <2> HIDE DEF at
  <2> QED BY <2>1, Zenon DEF SlotsStep
<1> HIDE DEF at
<1>2. \A b \in BOOLEAN : [Unwalked EXCEPT !.live = b] \in SlotType
    BY DEF Unwalked, SlotType
<1>3. Unwalked \in SlotType
    BY DEF Unwalked, SlotType
<1>4. B = {}
  <2> SUFFICES ASSUME B # {} PROVE FALSE
      OBVIOUS
  <2>1. PICK n \in B : n \in Nat /\ \A y \in Nat : y < n => y \notin B
    <3>1. B \subseteq Nat
        OBVIOUS
    <3> HIDE DEF B
    <3> QED BY <3>1, Least
  <2>2. n \in 0 .. Size(ch) /\ at[n + 1] \notin SlotType
      BY <2>1
  <2>3. n # 0
    <3>1. (from = 0) \in BOOLEAN
        BY Zenon
    <3>2. at[1] \in SlotType
        BY <1>1, <1>2, <3>1, Zenon
    <3> QED BY <2>2, <3>2
  <2> DEFINE ip == n - 1
  <2>4. ip \in Positions(ch) /\ ip + 1 = n /\ \A p \in 0 .. ip : p \in Nat /\ p < n
        /\ p \in 0 .. Size(ch)
      BY <2>2, <2>3 DEF Positions
  <2>5. \A p \in 0 .. ip : at[p + 1] \in SlotType
      BY <2>1, <2>4
  <2>6. at[n + 1] = SlotsAt(ch, from, at, n)
      BY <1>1, <2>4, Zenon
  <2> HIDE DEF B
  <2>7. SlotsBehind(ch, Blocks(ch), at, ip) \in SlotType
    <3> HIDE DEF ip
    <3> QED BY <2>4, <2>5, BehindType
  <2>8. [Unwalked EXCEPT !.live = TRUE] \in SlotType
      BY <1>2
  <2>9. SlotsAt(ch, from, at, n) \in SlotType
      BY <1>3, <2>7, <2>8, Zenon DEF SlotsAt
  <2> QED BY <2>2, <2>6, <2>9
<1> QED BY <1>4 DEF at

-----------------------------------------------------------------------------
\* The slots of a position are those the walk gives it.

\* The elements of a list that was appended to.
LEMMA RangeIs ==
    ASSUME NEW s \in Seq(Nat), NEW x \in Nat
    PROVE  /\ Range(Append(s, x)) = Range(s) \cup {x}
           /\ Range(s) \subseteq Nat
<1> DEFINE t == Append(s, x)
<1>1. /\ DOMAIN t = 1 .. Len(s) + 1 /\ DOMAIN s = 1 .. Len(s) /\ Len(s) \in Nat
      /\ t[Len(s) + 1] = x /\ \A i \in 1 .. Len(s) : t[i] = s[i]
    OBVIOUS
<1> HIDE DEF t
<1>2. ASSUME NEW y \in Range(t) PROVE y \in Range(s) \cup {x}
  <2>1. PICK i \in 1 .. Len(s) + 1 : y = t[i]
      BY <1>1 DEF Range
  <2>2. i = Len(s) + 1 \/ i \in 1 .. Len(s)
      BY <1>1
  <2> QED BY <1>1, <2>1, <2>2, Zenon DEF Range
<1>3. ASSUME NEW y \in Range(s) \cup {x} PROVE y \in Range(t)
  <2>1. Len(s) + 1 \in 1 .. Len(s) + 1 /\ \A i \in 1 .. Len(s) : i \in 1 .. Len(s) + 1
      BY <1>1
  <2> QED BY <1>1, <2>1, Zenon DEF Range
<1>4. Range(s) \subseteq Nat
    BY DEF Range
<1> QED BY <1>2, <1>3, <1>4, Zenon DEF t

Live(ch, ip) == interp_region(ch)[ip + 1] # Dead
Walk(ch) == wcmu_region(ch, Start(ch))

\* Where the operands of the region around ip begin above the locals.
Base(ch, ip) ==
    LET h == interp_region(ch)
        t == TestOf(ch, Blocks(ch), Opener(Blocks(ch), ip))
    IN IF Blocks(ch)[ip] = <<>> THEN 0
       ELSE IF At(ch, t).o = "If" THEN h[t + 1] - 1 ELSE h[t + 1]

\* A height within its offset stays so when both change alike.
LEMMA SumBound ==
    ASSUME NEW a \in Int, NEW b \in Int, NEW e \in Int, NEW o \in Int,
           NEW u \in Int, NEW y \in Int, a - b <= o, b <= u, o + e <= y
    PROVE  a + e <= u + y
OBVIOUS

\* The walk counts at least the operands there are.
Fits(ch, ip) ==
    LET s == Walk(ch)[ip + 1]
        h == interp_region(ch)[ip + 1]
    IN s.live /\ h - Base(ch, ip) <= s.off /\ Base(ch, ip) <= s.up

\* Control comes to an EndIf also from the branch it closes, which the walk
\* counts where it closes.
Joins(ch, ip) ==
    LET h == interp_region(ch)
        q == Opener(Blocks(ch), ip)
    IN /\ At(ch, ip).o = "EndIf"
       /\ \/ At(ch, q).o = "If" /\ h[ip + 1] = h[q + 1] - 1
          \/ At(ch, q).o = "Else" /\ Live(ch, q) /\ h[ip + 1] = h[q + 1]

\* The blocks around a position that is reached were reached.
TestsLive(ch, ip) ==
    \A q \in Range(Blocks(ch)[ip]) : Live(ch, TestOf(ch, Blocks(ch), q))

Kept(ch, ip) ==
    Live(ch, ip) => (Fits(ch, ip) \/ Joins(ch, ip)) /\ TestsLive(ch, ip)

\* What the verifier and the compiler guarantee of a chunk that is walked.
Walkable(ch) ==
    LET h == interp_region(ch)
    IN /\ Size(ch) \in Nat /\ ch.ops \in Seq(Instruction)
       /\ verify_nesting(ch) /\ BlocksJoin(ch)
       /\ \A ip \in Positions(ch) : Live(ch, ip) =>
             /\ h[ip + 1] \in Nat
             /\ op_depth_effect(At(ch, ip))[1] <= h[ip + 1]
             /\ \A t \in Targets(ch, ip) :
                   /\ t \in Positions(ch)
                   /\ h[t + 1] = h[ip + 1] + op_depth_effect(At(ch, ip))[2]
       /\ h[1] = 0
       /\ \/ ch.kind # "Stream" /\ Start(ch) = 0 /\ Finish(ch) = Size(ch)
          \/ /\ ch.kind = "Stream" /\ Start(ch) = 1 /\ 1 \in Positions(ch)
             /\ At(ch, 0).o = "Stream" /\ h[2] = 0
             /\ Finish(ch) \in Positions(ch) /\ At(ch, Finish(ch)).o = "Reset"
             /\ \A ip \in Positions(ch) : ip > Finish(ch) => ~Live(ch, ip)

\* A height that is not Dead is a natural number.
LEMMA LiveNat ==
    ASSUME NEW m, Admitted(m), NEW c \in DOMAIN m
    PROVE  \A ip \in Positions(m[c]) :
              Live(m[c], ip) => interp_region(m[c])[ip + 1] \in Nat
<1> DEFINE ch == m[c]
           h == interp_region(ch)
           B == {ip \in Positions(ch) : Live(ch, ip) /\ h[ip + 1] \notin Nat}
<1>1. /\ Size(ch) \in Nat
      /\ \A p \in Positions(ch) : At(ch, p) \in Instruction /\ p \in Nat
    BY ModuleType DEF Admitted
<1>2. SUFFICES ASSUME B # {} PROVE FALSE
    OBVIOUS
<1>3. PICK n \in B : n \in Nat /\ \A y \in Nat : y < n => y \notin B
  <2>1. B \subseteq Nat
      BY DEF Positions
  <2> HIDE DEF B
  <2> QED BY <1>2, <2>1, Least
<1>4. n \in Positions(ch) /\ Live(ch, n) /\ h[n + 1] \notin Nat
    BY <1>3
<1>5. n # 0
  <2>1. h[1] = 0
      BY Entry
  <2> HIDE DEF h
  <2> QED BY <1>4, <2>1
<1>6. PICK p \in 0 .. n - 1 : h[p + 1] # Dead /\ n \in Targets(ch, p)
  <2>1. n > 0 /\ h[n + 1] # Dead
      BY <1>3, <1>4, <1>5 DEF Live
  <2> QED BY <1>1, <1>4, <2>1, Arrived, Zenon
<1>7. p \in Positions(ch) /\ p \in Nat /\ p < n
  <2>1. n \in 0 .. Size(ch) - 1 /\ p \in 0 .. n - 1
      BY <1>4 DEF Positions
  <2> HIDE DEF B, ch, h
  <2> QED BY <1>1, <2>1 DEF Positions
<1>8. h[p + 1] \in Nat
  <2>1. p \notin B
      BY <1>3, <1>7
  <2> QED BY <1>6, <1>7, <2>1, Zenon DEF Live
<1>9. /\ op_depth_effect(At(ch, p))[1] <= h[p + 1]
      /\ h[n + 1] = h[p + 1] + op_depth_effect(At(ch, p))[2]
  <2>1. /\ op_depth_effect(At(ch, p))[1] <= h[p + 1]
        /\ \A t \in Targets(ch, p) :
              h[t + 1] = h[p + 1] + op_depth_effect(At(ch, p))[2]
    <3>1. p \in Positions(m[c]) /\ interp_region(m[c])[p + 1] \in Nat
        BY <1>7, <1>8
    <3>2. /\ op_depth_effect(At(m[c], p))[1] <= interp_region(m[c])[p + 1]
          /\ \A t \in Targets(m[c], p) :
                interp_region(m[c])[t + 1]
                    = interp_region(m[c])[p + 1] + op_depth_effect(At(m[c], p))[2]
      <4> HIDE DEF h, ch, B
      <4> QED BY <3>1, HeightStep, Zenon
    <3> QED BY <3>2
  <2> HIDE DEF h, ch, B
  <2> QED BY <1>6, <2>1, Zenon
<1>10. h[n + 1] \in Nat
  <2>1. /\ op_depth_effect(At(ch, p))[1] \in Nat
        /\ op_depth_effect(At(ch, p))[2] \in Int
        /\ op_depth_effect(At(ch, p))[1] + op_depth_effect(At(ch, p))[2] \in Nat
      BY <1>1, <1>7, EffectType
  <2> HIDE DEF h
  <2> QED BY <1>8, <1>9, <2>1
<1> QED BY <1>4, <1>10

\* A stream has one Reset.
LEMMA ResetIs ==
    ASSUME NEW m, Admitted(m), NEW c \in DOMAIN m, m[c].kind = "Stream"
    PROVE  /\ FirstOf(m[c], "Reset") \in Positions(m[c])
           /\ At(m[c], FirstOf(m[c], "Reset")).o = "Reset"
<1> DEFINE S == PositionsOf(m[c], "Reset")
<1>1. Cardinality(S) = 1
    BY FlowChecks DEF verify_block_type
<1>2. S # {}
    BY <1>1, FS_EmptySet
<1>3. S \subseteq Nat /\ S \subseteq Positions(m[c])
      /\ \A ip \in S : At(m[c], ip).o = "Reset"
  <2>1. Size(m[c]) \in Nat
      BY ModuleType DEF Admitted
  <2> QED BY <2>1 DEF PositionsOf, Positions
<1> HIDE DEF S
<1>4. PICK n \in S : n \in Nat /\ \A y \in Nat : y < n => y \notin S
    BY <1>2, <1>3, Least
<1>5. \A y \in S : n <= y
  <2> TAKE y \in S
  <2>1. y \in Nat /\ ~(y < n)
      BY <1>3, <1>4
  <2> QED BY <1>4, <2>1
<1>6. Min(S) \in S
    BY <1>4, <1>5, Zenon DEF Min
<1> QED BY <1>3, <1>6, Zenon DEF FirstOf, S

\* What the verifier admits and the compiler lays out can be walked.
LEMMA IsWalkable ==
    ASSUME NEW m, Admitted(m), NEW c \in DOMAIN m, verify_nesting(m[c]),
           BlocksJoin(m[c])
    PROVE  Walkable(m[c])
<1> DEFINE ch == m[c]
           h == interp_region(ch)
<1>1. Size(ch) \in Nat /\ ch.ops \in Seq(Instruction)
    BY ModuleType DEF Admitted
<1>2. ASSUME NEW ip \in Positions(ch), Live(ch, ip)
      PROVE  /\ h[ip + 1] \in Nat
             /\ op_depth_effect(At(ch, ip))[1] <= h[ip + 1]
             /\ \A t \in Targets(ch, ip) :
                   /\ t \in Positions(ch)
                   /\ h[t + 1] = h[ip + 1] + op_depth_effect(At(ch, ip))[2]
  <2>1. h[ip + 1] \in Nat
      BY <1>2, LiveNat
  <2> QED BY <2>1, HeightStep, Zenon
<1>3. h[1] = 0
    BY Entry
<1>4. CASE ch.kind # "Stream"
  <2>1. Start(ch) = 0 /\ Finish(ch) = Size(ch)
      BY <1>4 DEF Start, Finish
  <2> QED BY <1>1, <1>2, <1>3, <1>4, <2>1, Zenon DEF Walkable
<1>5. CASE ch.kind = "Stream"
  <2>1. /\ Start(ch) = 1 /\ 1 \in Positions(ch) /\ At(ch, 0).o = "Stream"
        /\ h[2] = 0
    <3>1. /\ FirstOf(ch, "Stream") = 0 /\ 1 \in Positions(ch)
          /\ At(ch, 0).o = "Stream" /\ h[2] = 0
        BY <1>5, Entry, Zenon
    <3> QED BY <1>5, <3>1 DEF Start
  <2>2. Finish(ch) = FirstOf(ch, "Reset")
      BY <1>5 DEF Finish
  <2>3. Finish(ch) \in Positions(ch) /\ At(ch, Finish(ch)).o = "Reset"
      BY <1>5, <2>2, ResetIs
  <2>4. \A ip \in Positions(ch) : ip > Finish(ch) => ~Live(ch, ip)
      BY <1>5, <2>2, Zenon DEF BlocksJoin, Live
  <2> QED BY <1>1, <1>2, <1>3, <1>5, <2>1, <2>3, <2>4, Zenon DEF Walkable
<1> QED BY <1>4, <1>5

\* What stands on either side of an edge, as far as the walk is concerned.
LEMMA WalkBehind ==
    ASSUME NEW ch, Walkable(ch), NEW ip \in Positions(ch), ip >= Start(ch)
    PROVE  /\ Walk(ch)[(ip + 1) + 1] = SlotsBehind(ch, Blocks(ch), Walk(ch), ip)
           /\ Start(ch) \in Nat
<1>1. /\ Size(ch) \in Nat /\ verify_nesting(ch) /\ Start(ch) \in {0, 1}
    BY Zenon DEF Walkable
<1>2. Walk(ch)[(ip + 1) + 1] = SlotsAt(ch, Start(ch), Walk(ch), ip + 1)
  <2>1. SlotsStep(ch, Start(ch), wcmu_region(ch, Start(ch)))
      BY <1>1, SlotsIs, Zenon
  <2> QED BY <2>1, Zenon DEF Walk, SlotsStep
<1>3. ~(ip + 1 < Start(ch)) /\ ip + 1 # Start(ch) /\ (ip + 1) - 1 = ip
    BY <1>1 DEF Positions
<1> QED BY <1>1, <1>2, <1>3 DEF SlotsAt

\* The walk of a chunk has its type, and its positions hold instructions.
LEMMA WalkType ==
    ASSUME NEW ch, Walkable(ch), NEW ip \in Positions(ch)
    PROVE  /\ Walk(ch)[ip + 1] \in SlotType
           /\ Walk(ch)[ip + 1].live \in BOOLEAN
           /\ Walk(ch)[ip + 1].off \in Int /\ Walk(ch)[ip + 1].up \in Nat
           /\ ip \in Nat /\ At(ch, ip) \in Instruction
<1>1. /\ Size(ch) \in Nat /\ verify_nesting(ch) /\ ch.ops \in Seq(Instruction)
    BY Zenon DEF Walkable
<1>2. ip \in 0 .. Size(ch) /\ ip \in Nat /\ At(ch, ip) \in Instruction
    BY <1>1 DEF Positions, Size, At
<1>3. Walk(ch)[ip + 1] \in SlotType
    BY <1>1, <1>2, AtType, Zenon DEF Walk
<1> QED BY <1>2, <1>3 DEF SlotType

\* The block that x opens is the innermost around n, and b lies outside it.
Opens(ch, x, b, n) ==
    /\ Size(ch) \in Nat /\ n \in 0 .. Size(ch) /\ b \in 0 .. Size(ch) /\ x \in Nat
    /\ Blocks(ch)[n] = Append(Blocks(ch)[b], x)

Inside(ch, x, b, n) ==
    LET t == TestOf(ch, Blocks(ch), x)
        h == interp_region(ch)
    IN /\ Opener(Blocks(ch), n) = x
       /\ Base(ch, n) = IF At(ch, t).o = "If" THEN h[t + 1] - 1 ELSE h[t + 1]
       /\ TestsLive(ch, n) <=> TestsLive(ch, b) /\ Live(ch, t)

\* The innermost block of a position says what is around it.
LEMMA OpenedBy ==
    ASSUME NEW ch, NEW x, NEW b, NEW n, Opens(ch, x, b, n)
    PROVE  Inside(ch, x, b, n)
<1> USE DEF Opens
<1>1. Blocks(ch)[b] \in Seq(Nat)
    BY BlocksOpen, Zenon DEF OpenAt
<1>2. /\ Blocks(ch)[n] # <<>> /\ Opener(Blocks(ch), n) = x
    BY <1>1, AppendIs, Zenon DEF Opener
<1>3. Range(Blocks(ch)[n]) = Range(Blocks(ch)[b]) \cup {x}
    BY <1>1, RangeIs, Zenon
<1>4. TestsLive(ch, n) <=> TestsLive(ch, b) /\ Live(ch, TestOf(ch, Blocks(ch), x))
    BY <1>3, Zenon DEF TestsLive
<1> QED BY <1>2, <1>4, Zenon DEF Inside, Base

\* What depends on the blocks around a position only.
LEMMA SameBlocks ==
    ASSUME NEW ch, NEW n, NEW b, Blocks(ch)[n] = Blocks(ch)[b]
    PROVE  /\ Base(ch, n) = Base(ch, b) /\ TestsLive(ch, n) <=> TestsLive(ch, b)
           /\ Opener(Blocks(ch), n) = Opener(Blocks(ch), b)
BY Zenon DEF Base, TestsLive, Opener

\* The operands of a region begin at a natural height.
LEMMA BaseType ==
    ASSUME NEW ch, Walkable(ch), NEW ip \in Positions(ch), TestsLive(ch, ip)
    PROVE  Base(ch, ip) \in Nat
<1> DEFINE h == interp_region(ch)
           q == Opener(Blocks(ch), ip)
           t == TestOf(ch, Blocks(ch), q)
<1>1. Size(ch) \in Nat /\ ip \in 0 .. Size(ch) /\ verify_nesting(ch)
  <2>1. Size(ch) \in Nat /\ verify_nesting(ch)
      BY Zenon DEF Walkable
  <2> QED BY <2>1 DEF Positions
<1>2. CASE Blocks(ch)[ip] = <<>>
    BY <1>2 DEF Base
<1>3. CASE Blocks(ch)[ip] # <<>>
  <2>1. q \in Positions(ch) /\ q < ip /\ At(ch, q).o \in {"If", "Else", "Loop"}
      BY <1>1, <1>3, Innermost, Zenon
  <2>2. q \in Range(Blocks(ch)[ip])
    <3>1. Blocks(ch)[ip] \in Seq(Nat)
        BY <1>1, BlocksOpen, Zenon DEF OpenAt
    <3>2. Len(Blocks(ch)[ip]) \in DOMAIN Blocks(ch)[ip]
          /\ Last(Blocks(ch)[ip]) = Blocks(ch)[ip][Len(Blocks(ch)[ip])]
      <4> DEFINE s == Blocks(ch)[ip]
      <4> HIDE DEF s
      <4>1. s \in Seq(Nat) /\ s # <<>>
          BY <1>3, <3>1 DEF s
      <4>2. Last(s) = s[Len(s)] /\ Len(s) > 0
          BY <4>1, FrontIs, Zenon
      <4>3. Len(s) \in DOMAIN s
          BY <4>1, <4>2
      <4> QED BY <4>2, <4>3 DEF s
    <3> QED BY <3>2, Zenon DEF Range, Opener
  <2>3. Live(ch, t)
      BY <2>2, Zenon DEF TestsLive
  <2>4. t \in Positions(ch) /\ (At(ch, t).o = "If" \/ At(ch, t).o = "Loop")
    <3>1. CASE At(ch, q).o = "Else"
      <4>1. /\ t = Opener(Blocks(ch), q) /\ Nested(ch, q)
            /\ t \in Positions(ch) /\ At(ch, t).o = "If"
          BY <1>1, <2>1, <3>1, IsNested, Zenon DEF TestOf, Nested
      <4> QED BY <4>1
    <3>2. CASE At(ch, q).o # "Else"
      <4>1. t = q
          BY <3>2, Zenon DEF TestOf
      <4> QED BY <2>1, <3>2, <4>1
    <3> QED BY <3>1, <3>2
  <2>5. /\ h[t + 1] \in Nat /\ op_depth_effect(At(ch, t))[1] <= h[t + 1]
      BY <2>3, <2>4, Zenon DEF Walkable
  <2>6. At(ch, t) \in Instruction
      BY <2>4, WalkType
  <2>7. At(ch, t).o = "If" => h[t + 1] - 1 \in Nat
    <3>1. At(ch, t).o = "If" => op_depth_effect(At(ch, t))[1] = 1
        BY <2>6, Effects
    <3> HIDE DEF h, t
    <3> QED BY <2>5, <3>1
  <2>8. Base(ch, ip) = IF At(ch, t).o = "If" THEN h[t + 1] - 1 ELSE h[t + 1]
      BY <1>3, Zenon DEF Base
  <2> QED BY <2>5, <2>7, <2>8, Zenon
<1> QED BY <1>2, <1>3

\* What the verifier guarantees of an edge from a position control reaches.
LEMMA EdgeIs ==
    ASSUME NEW ch, Walkable(ch), NEW p \in Positions(ch), Live(ch, p),
           NEW n \in Targets(ch, p)
    PROVE  LET h == interp_region(ch)
           IN /\ n \in Positions(ch) /\ n \in 0 .. Size(ch)
              /\ h[p + 1] \in Nat /\ h[n + 1] \in Int
              /\ h[n + 1] = h[p + 1] + op_depth_effect(At(ch, p))[2]
              /\ op_depth_effect(At(ch, p))[1] <= h[p + 1]
<1> DEFINE h == interp_region(ch)
<1>1. /\ n \in Positions(ch) /\ h[p + 1] \in Nat
      /\ h[n + 1] = h[p + 1] + op_depth_effect(At(ch, p))[2]
      /\ op_depth_effect(At(ch, p))[1] <= h[p + 1]
    BY Zenon DEF Walkable
<1>2. op_depth_effect(At(ch, p))[2] \in Int
    BY WalkType, EffectType
<1>3. Size(ch) \in Nat
    BY Zenon DEF Walkable
<1> HIDE DEF h
<1> QED BY <1>1, <1>2, <1>3 DEF h, Positions

\* Behind an instruction that leaves the blocks alone.
LEMMA FallsKept ==
    ASSUME NEW ch, Walkable(ch), NEW p \in Positions(ch), p >= Start(ch),
           Live(ch, p), Kept(ch, p), p + 1 \in Targets(ch, p),
           At(ch, p).o \notin {"If", "Loop", "Else", "EndIf", "EndLoop", "Break",
                               "Trap", "Return", "Reset"}
    PROVE  Kept(ch, p + 1)
<1> DEFINE h == interp_region(ch)
           op == At(ch, p)
           s == Walk(ch)[p + 1]
           r == Walk(ch)[(p + 1) + 1]
           g == stack_growth(op) - stack_shrink(op)
           b == Base(ch, p)
<1>1. /\ s \in SlotType /\ s.live \in BOOLEAN /\ s.off \in Int /\ s.up \in Nat
      /\ op \in Instruction
    BY WalkType
<1>2. r = [s EXCEPT !.off = s.off + stack_growth(op) - stack_shrink(op)]
  <2>1. r = SlotsBehind(ch, Blocks(ch), Walk(ch), p)
      BY WalkBehind
  <2> HIDE DEF s, r
  <2>2. SlotsBehind(ch, Blocks(ch), Walk(ch), p)
          = [s EXCEPT !.off = s.off + stack_growth(op) - stack_shrink(op)]
      BY Zenon DEF SlotsBehind, s
  <2> QED BY <2>1, <2>2
<1>3. Fits(ch, p) /\ TestsLive(ch, p)
  <2>1. ~Joins(ch, p)
      BY Zenon DEF Joins
  <2> QED BY <2>1, Zenon DEF Kept
<1>4. /\ h[p + 1] \in Nat /\ h[(p + 1) + 1] = h[p + 1] + op_depth_effect(op)[2]
    BY EdgeIs, Zenon
<1>5. /\ stack_growth(op) \in Nat /\ stack_shrink(op) \in Nat
      /\ op_depth_effect(op)[2] = stack_growth(op) - stack_shrink(op)
    BY <1>1, NetIs
<1>6. b \in Nat
    BY <1>3, BaseType
<1>7. Base(ch, p + 1) = b /\ TestsLive(ch, p + 1)
  <2>1. Size(ch) \in Nat /\ verify_nesting(ch)
      BY Zenon DEF Walkable
  <2>2. Nested(ch, p)
      BY <2>1, IsNested
  <2>3. At(ch, p).o \notin {"If", "Loop", "Else", "EndIf", "EndLoop"}
      OBVIOUS
  <2>4. Blocks(ch)[p + 1] = Blocks(ch)[p]
      BY <2>2, <2>3, Zenon DEF Nested
  <2> QED BY <1>3, <2>4, SameBlocks, Zenon
<1>8. s.live /\ h[p + 1] - b <= s.off /\ b <= s.up
    BY <1>3, Zenon DEF Fits
<1>9. r.live = s.live /\ r.up = s.up
      /\ r.off = s.off + stack_growth(op) - stack_shrink(op)
    BY <1>1, <1>2 DEF SlotType
<1> HIDE DEF h, op, s, r, b
<1>10. r.live /\ h[(p + 1) + 1] - b <= r.off /\ b <= r.up
    BY <1>1, <1>4, <1>5, <1>6, <1>8, <1>9
<1>11. Fits(ch, p + 1)
    BY <1>7, <1>10, Zenon DEF Fits, r, h
<1> QED BY <1>7, <1>11, Zenon DEF Kept

\* The region behind an If or an Else, and that behind a Loop.
LEMMA RegionKept ==
    ASSUME NEW ch, Walkable(ch), NEW p \in Positions(ch), Live(ch, p), Kept(ch, p),
           At(ch, p).o \in {"If", "Loop"}, NEW n \in Targets(ch, p), NEW x \in Nat,
           Blocks(ch)[n] = Append(Blocks(ch)[p], x),
           TestOf(ch, Blocks(ch), x) = p,
           Walk(ch)[n + 1] =
               wcmu_subregion(Walk(ch)[p + 1],
                              Walk(ch)[p + 1].off
                              + op_depth_effect(At(ch, p))[2])
    PROVE  Kept(ch, n)
<1> DEFINE h == interp_region(ch)
           op == At(ch, p)
           s == Walk(ch)[p + 1]
           r == Walk(ch)[n + 1]
           e == op_depth_effect(op)[2]
           b == Base(ch, p)
<1>1. /\ s \in SlotType /\ s.live \in BOOLEAN /\ s.off \in Int /\ s.up \in Nat
      /\ op \in Instruction /\ e \in {0, -1}
      /\ op.o = "If" => e = -1
      /\ op.o = "Loop" => e = 0
  <2>1. /\ s \in SlotType /\ s.live \in BOOLEAN /\ s.off \in Int /\ s.up \in Nat
        /\ op \in Instruction
      BY WalkType
  <2>2. op.o = "If" => e = -1
      BY <2>1, Effects
  <2>3. op.o = "Loop" => e = 0
      BY <2>1, Effects
  <2> QED BY <2>1, <2>2, <2>3
<1>2. Fits(ch, p) /\ TestsLive(ch, p)
  <2>1. ~Joins(ch, p)
      BY Zenon DEF Joins
  <2> QED BY <2>1, Zenon DEF Kept
<1>3. /\ h[p + 1] \in Nat /\ h[n + 1] = h[p + 1] + e /\ n \in 0 .. Size(ch)
    BY EdgeIs, Zenon
<1>4. b \in Nat
    BY <1>2, BaseType
<1>5. s.live /\ h[p + 1] - b <= s.off /\ b <= s.up
    BY <1>2, Zenon DEF Fits
<1>6. r = [live |-> s.live, off |-> 0, up |-> s.up + Pos(s.off + e)]
    BY Zenon DEF wcmu_subregion
<1>7. Base(ch, n) = h[p + 1] + e /\ TestsLive(ch, n)
  <2>1. /\ Base(ch, n) = IF At(ch, p).o = "If" THEN h[p + 1] - 1 ELSE h[p + 1]
        /\ TestsLive(ch, n) <=> TestsLive(ch, p) /\ Live(ch, p)
    <3>1. Size(ch) \in Nat /\ p \in 0 .. Size(ch)
      <4>1. Size(ch) \in Nat
          BY Zenon DEF Walkable
      <4> QED BY <4>1 DEF Positions
    <3> DEFINE t == TestOf(ch, Blocks(ch), x)
    <3>2. /\ Base(ch, n) = IF At(ch, t).o = "If" THEN h[t + 1] - 1 ELSE h[t + 1]
          /\ TestsLive(ch, n) <=> TestsLive(ch, p) /\ Live(ch, t)
      <4>1. Opens(ch, x, p, n)
          BY <1>3, <3>1, Zenon DEF Opens
      <4> QED BY <4>1, OpenedBy, Zenon DEF Inside
    <3>3. t = p
        OBVIOUS
    <3> HIDE DEF t, h
    <3> QED BY <3>2, <3>3
  <2>2. TestsLive(ch, n)
      BY <1>2, <2>1, Zenon
  <2> HIDE DEF h, e
  <2>3. Base(ch, n) = h[p + 1] + e
      BY <1>1, <1>3, <2>1
  <2> QED BY <2>2, <2>3
<1>8. r.live = s.live /\ r.off = 0 /\ r.up = s.up + Pos(s.off + e)
    BY <1>6
<1>9. s.off + e <= Pos(s.off + e) /\ Pos(s.off + e) \in Nat
    BY <1>1 DEF Pos
<1> DEFINE y == Pos(s.off + e)
<1> HIDE DEF h, op, s, r, b, e, y
<1>10. r.live /\ h[n + 1] - Base(ch, n) <= r.off /\ Base(ch, n) <= r.up
  <2>1. h[p + 1] + e <= s.up + y
    <3>1. y \in Int /\ s.off + e <= y
        BY <1>9 DEF y
    <3>2. h[p + 1] \in Int /\ e \in Int /\ s.off \in Int /\ s.up \in Int
        BY <1>1, <1>3
    <3>3. b \in Int /\ h[p + 1] - b <= s.off /\ b <= s.up
        BY <1>4, <1>5
    <3> QED BY <3>1, <3>2, <3>3, SumBound, Zenon
  <2> QED BY <1>1, <1>3, <1>5, <1>7, <1>8, <2>1 DEF y
<1>11. Fits(ch, n)
    BY <1>10, Zenon DEF Fits, r, h
<1> QED BY <1>7, <1>11, Zenon DEF Kept

\* At the start of a branch or of a loop.
LEMMA EnterKept ==
    ASSUME NEW ch, Walkable(ch), NEW p \in Positions(ch), p >= Start(ch),
           Live(ch, p), Kept(ch, p), At(ch, p).o \in {"If", "Loop"}
    PROVE  Kept(ch, p + 1)
<1> DEFINE op == At(ch, p)
           s == Walk(ch)[p + 1]
<1>1. /\ s.off \in Int /\ op \in Instruction /\ p \in Nat
      /\ Size(ch) \in Nat /\ verify_nesting(ch)
    BY WalkType, Zenon DEF Walkable
<1>2. p + 1 \in Targets(ch, p)
    BY DEF Targets
<1>3. Blocks(ch)[p + 1] = Append(Blocks(ch)[p], p)
    BY <1>1, IsNested, Zenon DEF Nested
<1>4. TestOf(ch, Blocks(ch), p) = p
  <2>1. At(ch, p).o # "Else"
      OBVIOUS
  <2> QED BY <2>1, Zenon DEF TestOf
<1>5. Walk(ch)[(p + 1) + 1] = wcmu_subregion(s, s.off + op_depth_effect(op)[2])
  <2>1. Walk(ch)[(p + 1) + 1] = SlotsBehind(ch, Blocks(ch), Walk(ch), p)
      BY WalkBehind
  <2>2. SlotsBehind(ch, Blocks(ch), Walk(ch), p)
          = wcmu_subregion(s, s.off + stack_growth(op) - stack_shrink(op))
      BY Zenon DEF SlotsBehind
  <2>3. /\ stack_growth(op) \in Nat /\ stack_shrink(op) \in Nat
        /\ op_depth_effect(op)[2] = stack_growth(op) - stack_shrink(op)
    <3>1. op.o \notin {"Return", "Trap", "Reset"}
        OBVIOUS
    <3> QED BY <1>1, <3>1, NetIs, Zenon
  <2> HIDE DEF s, op
  <2>4. s.off + stack_growth(op) - stack_shrink(op) = s.off + op_depth_effect(op)[2]
      BY <1>1, <2>3
  <2> QED BY <2>1, <2>2, <2>4 DEF s, op
<1> QED BY <1>1, <1>2, <1>3, <1>4, <1>5, RegionKept, Zenon

\* Where an If goes when its condition fails.
LEMMA BranchKept ==
    ASSUME NEW ch, Walkable(ch), NEW p \in Positions(ch), p >= Start(ch),
           Live(ch, p), Kept(ch, p), At(ch, p).o = "If"
    PROVE  Kept(ch, At(ch, p).a)
<1> DEFINE op == At(ch, p)
           s == Walk(ch)[p + 1]
           n == op.a
<1>1. /\ s.off \in Int /\ op \in Instruction /\ p \in Nat
      /\ Size(ch) \in Nat /\ verify_nesting(ch) /\ Start(ch) \in {0, 1}
      /\ op_depth_effect(op)[2] = -1
  <2>1. op \in Instruction
      BY WalkType
  <2>2. op_depth_effect(op)[2] = -1
      BY <2>1, Effects
  <2> QED BY <2>2, WalkType, Zenon DEF Walkable
<1>2. n \in Targets(ch, p)
    BY DEF Targets
<1>3. TestOf(ch, Blocks(ch), p) = p
  <2>1. At(ch, p).o # "Else"
      OBVIOUS
  <2> QED BY <2>1, Zenon DEF TestOf
<1>4. PICK c \in Positions(ch) :
              /\ p < c /\ Opener(Blocks(ch), c) = p
              /\ Blocks(ch)[c] = Append(Blocks(ch)[p], p)
              /\ \/ At(ch, c).o = "Else" /\ n = c + 1
                 \/ At(ch, c).o = "EndIf" /\ n = c
    BY <1>1, Closer
<1>5. Nested(ch, c)
    BY <1>1, IsNested
<1>6. CASE At(ch, c).o = "Else" /\ n = c + 1
  <2>1. Blocks(ch)[n] = Append(Blocks(ch)[p], c) /\ c \in Nat
    <3>1. c \in Nat
        BY DEF Positions
    <3> QED BY <1>4, <1>5, <1>6, <3>1, Zenon DEF Nested
  <2>2. TestOf(ch, Blocks(ch), c) = p
      BY <1>4, <1>6, Zenon DEF TestOf
  <2>3. Walk(ch)[n + 1] = wcmu_subregion(s, s.off + op_depth_effect(op)[2])
    <3>1. c >= Start(ch)
        BY <1>1, <1>4 DEF Positions
    <3>2. Walk(ch)[(c + 1) + 1] = SlotsBehind(ch, Blocks(ch), Walk(ch), c)
        BY <3>1, WalkBehind
    <3>3. SlotsBehind(ch, Blocks(ch), Walk(ch), c) = wcmu_subregion(s, s.off - 1)
        BY <1>3, <1>4, <1>6, Zenon DEF SlotsBehind
    <3> HIDE DEF s, op
    <3>4. s.off + op_depth_effect(op)[2] = s.off - 1
        BY <1>1
    <3> QED BY <1>6, <3>2, <3>3, <3>4 DEF n, s
  <2> QED BY <1>2, <2>1, <2>2, <2>3, RegionKept, Zenon
<1>7. CASE At(ch, c).o = "EndIf" /\ n = c
  <2>1. interp_region(ch)[n + 1] = interp_region(ch)[p + 1] - 1
    <3>1. /\ interp_region(ch)[p + 1] \in Nat
          /\ interp_region(ch)[n + 1] = interp_region(ch)[p + 1]
                                        + op_depth_effect(op)[2]
        BY <1>2, EdgeIs, Zenon
    <3> HIDE DEF op, n
    <3> QED BY <1>1, <3>1
  <2>2. Joins(ch, n)
      BY <1>4, <1>7, <2>1, Zenon DEF Joins
  <2>3. Inside(ch, p, p, c)
    <3>1. p \in 0 .. Size(ch) /\ c \in 0 .. Size(ch)
        BY <1>1 DEF Positions
    <3>2. Opens(ch, p, p, c)
        BY <1>1, <1>4, <3>1, Zenon DEF Opens
    <3> QED BY <3>2, OpenedBy, Zenon
  <2>4. TestsLive(ch, p)
      BY Zenon DEF Kept
  <2>5. TestsLive(ch, n)
      BY <1>3, <1>7, <2>3, <2>4, Zenon DEF Inside
  <2> QED BY <2>2, <2>5, Zenon DEF Kept
<1> QED BY <1>4, <1>6, <1>7

\* Behind the first arm.
LEMMA ElseKept ==
    ASSUME NEW ch, Walkable(ch), NEW p \in Positions(ch),
           Live(ch, p), Kept(ch, p), At(ch, p).o = "Else"
    PROVE  Kept(ch, At(ch, p).a)
<1> DEFINE op == At(ch, p)
           n == op.a
           t == Opener(Blocks(ch), n)
           h == interp_region(ch)
<1>1. /\ op \in Instruction /\ Size(ch) \in Nat /\ verify_nesting(ch)
      /\ op_depth_effect(op)[2] = 0
  <2>1. op \in Instruction
      BY WalkType
  <2>2. op_depth_effect(op)[2] = 0
      BY <2>1, Effects
  <2> QED BY <2>1, <2>2, Zenon DEF Walkable
<1>2. n \in Targets(ch, p)
    BY DEF Targets
<1>3. n \in Positions(ch) /\ Opener(Blocks(ch), n) = p
  <2>1. p \in PositionsOf(ch, "Else") /\ BlocksJoin(ch)
      BY Zenon DEF Walkable, PositionsOf
  <2> QED BY <2>1, Zenon DEF BlocksJoin
<1>4. At(ch, n).o = "EndIf"
  <2>1. Nests(ch, p, Blocks(ch)[p])
      BY <1>1, Zenon DEF verify_nesting
  <2> QED BY <2>1 DEF Nests
<1>5. h[n + 1] = h[p + 1]
  <2>1. h[p + 1] \in Nat /\ h[n + 1] = h[p + 1] + op_depth_effect(op)[2]
      BY <1>2, EdgeIs, Zenon
  <2> HIDE DEF op, n, h
  <2> QED BY <1>1, <2>1
<1>6. Joins(ch, n)
    BY <1>3, <1>4, <1>5, Zenon DEF Joins
<1> DEFINE u == TestOf(ch, Blocks(ch), p)
<1>7. /\ u \in Positions(ch) /\ At(ch, u).o = "If"
      /\ Blocks(ch)[p] = Append(Blocks(ch)[u], u)
      /\ Blocks(ch)[n] = Append(Blocks(ch)[u], p)
  <2>1. Nested(ch, n)
      BY <1>1, <1>3, IsNested
  <2> QED BY <1>3, <1>4, <2>1, Zenon DEF Nested
<1>8. p \in 0 .. Size(ch) /\ n \in 0 .. Size(ch) /\ u \in 0 .. Size(ch)
      /\ u \in Nat /\ p \in Nat
  <2> HIDE DEF n, u
  <2> QED BY <1>1, <1>3, <1>7 DEF Positions
<1>9. Inside(ch, u, u, p) /\ Inside(ch, p, u, n)
  <2>1. Opens(ch, u, u, p) /\ Opens(ch, p, u, n)
      BY <1>1, <1>7, <1>8, Zenon DEF Opens
  <2> QED BY <2>1, OpenedBy, Zenon
<1>10. TestOf(ch, Blocks(ch), u) = u
  <2>1. At(ch, u).o # "Else"
      BY <1>7
  <2> HIDE DEF u
  <2> QED BY <2>1, Zenon DEF TestOf
<1>11. TestsLive(ch, p)
    BY Zenon DEF Kept
<1>12. TestsLive(ch, n)
  <2> HIDE DEF n, h
  <2>1. TestsLive(ch, u) /\ Live(ch, u)
      BY <1>9, <1>10, <1>11, Zenon DEF Inside
  <2> QED BY <1>9, <2>1, Zenon DEF Inside
<1> QED BY <1>6, <1>12, Zenon DEF Kept

\* Only a Stream stands before the start of the walk.
LEMMA NotBefore ==
    ASSUME NEW ch, Walkable(ch), NEW y \in Positions(ch), At(ch, y).o # "Stream"
    PROVE  y >= Start(ch)
<1>1. y \in Nat /\ \/ Start(ch) = 0
                   \/ Start(ch) = 1 /\ At(ch, 0).o = "Stream"
    BY WalkType, Zenon DEF Walkable
<1> QED BY <1>1

\* Behind the end of a branch.
LEMMA EndIfKept ==
    ASSUME NEW ch, Walkable(ch), NEW p \in Positions(ch), p >= Start(ch),
           Live(ch, p), Kept(ch, p), At(ch, p).o = "EndIf",
           \A y \in Positions(ch) : y >= Start(ch) /\ y < p => Kept(ch, y)
    PROVE  Kept(ch, p + 1)
<1> DEFINE open == Blocks(ch)
           h == interp_region(ch)
           op == At(ch, p)
           q == Opener(open, p)
           t == TestOf(ch, open, q)
           at == Walk(ch)
           two == At(ch, q).o = "Else"
           offs == ArmOffs(two, at[q + 1], at[p + 1])
           r == at[(p + 1) + 1]
<1>1. Size(ch) \in Nat /\ verify_nesting(ch) /\ p \in Nat /\ p + 1 \in Targets(ch, p)
  <2>1. p + 1 \in Targets(ch, p)
      BY DEF Targets
  <2> QED BY <2>1, WalkType, Zenon DEF Walkable
<1>2. /\ q \in Positions(ch) /\ q < p /\ At(ch, q).o \in {"If", "Else"}
      /\ t \in Positions(ch) /\ t < p /\ At(ch, t).o = "If"
      /\ two => open[q] = Append(open[t], t)
      /\ open[p] = Append(open[t], q) /\ open[p + 1] = open[t]
      /\ ~two => t = q
  <2>1. Nested(ch, p)
      BY <1>1, IsNested
  <2>2. ~two => t = q
      BY Zenon DEF TestOf
  <2> QED BY <2>1, <2>2, Zenon DEF Nested
<1>3. /\ q \in Nat /\ t \in Nat /\ q \in 0 .. Size(ch) /\ t \in 0 .. Size(ch)
      /\ p \in 0 .. Size(ch)
  <2> HIDE DEF q, t
  <2> QED BY <1>1, <1>2 DEF Positions
<1>4. TestOf(ch, open, t) = t
  <2>1. At(ch, t).o # "Else"
      BY <1>2
  <2> HIDE DEF t
  <2> QED BY <2>1, Zenon DEF TestOf
<1>5. Inside(ch, q, t, p) /\ (two => Inside(ch, t, t, q))
  <2>1. Opens(ch, q, t, p) /\ (two => Opens(ch, t, t, q))
      BY <1>1, <1>2, <1>3, Zenon DEF Opens
  <2> QED BY <2>1, OpenedBy, Zenon
<1>6. /\ Base(ch, p) = h[t + 1] - 1 /\ TestsLive(ch, t) /\ Live(ch, t)
      /\ two => Base(ch, q) = h[t + 1] - 1
  <2>1. TestsLive(ch, p)
      BY Zenon DEF Kept
  <2>2. Base(ch, p) = h[t + 1] - 1 /\ TestsLive(ch, t) /\ Live(ch, t)
      BY <1>2, <1>5, <2>1, Zenon DEF Inside
  <2>3. two => Base(ch, q) = h[t + 1] - 1
      BY <1>2, <1>4, <1>5, Zenon DEF Inside
  <2> QED BY <2>2, <2>3
<1>7. t >= Start(ch) /\ q >= Start(ch)
  <2>1. At(ch, t).o # "Stream" /\ At(ch, q).o # "Stream"
      BY <1>2
  <2> HIDE DEF t, q
  <2> QED BY <1>2, <2>1, NotBefore
<1>8. Fits(ch, t)
  <2>1. Kept(ch, t)
      BY <1>2, <1>7, Zenon
  <2>2. ~Joins(ch, t)
    <3>1. At(ch, t).o # "EndIf"
        BY <1>2
    <3> QED BY <3>1, Zenon DEF Joins
  <2> QED BY <1>6, <2>1, <2>2, Zenon DEF Kept
<1>9. two /\ Live(ch, q) => Fits(ch, q)
  <2>1. Kept(ch, q)
      BY <1>2, <1>7, Zenon
  <2>2. two => ~Joins(ch, q)
    <3>1. two => At(ch, q).o # "EndIf"
        OBVIOUS
    <3> QED BY <3>1, Zenon DEF Joins
  <2> QED BY <2>1, <2>2, Zenon DEF Kept
<1>10. /\ at[p + 1] \in SlotType /\ at[q + 1] \in SlotType /\ at[t + 1] \in SlotType
       /\ h[p + 1] \in Nat /\ h[t + 1] \in Nat
  <2>1. /\ at[p + 1] \in SlotType /\ at[q + 1] \in SlotType /\ at[t + 1] \in SlotType
      BY <1>2, WalkType, Zenon
  <2>2. h[p + 1] \in Nat /\ h[t + 1] \in Nat
      BY <1>2, <1>6, Zenon DEF Walkable
  <2> QED BY <2>1, <2>2
<1>11. /\ Ints(offs) \in Int /\ \A a \in offs : a <= Ints(offs)
       /\ at[p + 1].live => at[p + 1].off \in offs
       /\ two /\ at[q + 1].live => at[q + 1].off \in offs
       /\ ~two => 0 \in offs
  <2> HIDE DEF two, at, q
  <2> QED BY <1>10, ArmOffsType, Zenon
<1> DEFINE z == Ints(offs)
           b == h[t + 1] - 1
           H == h[p + 1]
\* One of the arms brings what control has at the EndIf.
<1>12. offs # {} /\ H - b <= z
  <2> SUFFICES \E a \in offs : a \in Int /\ H - b <= a
    <3> HIDE DEF offs, z, b, H
    <3>1. z \in Int /\ \A a \in offs : a <= z
        BY <1>11 DEF z
    <3>2. H \in Int /\ b \in Int
        BY <1>10 DEF H, b
    <3> QED BY <3>1, <3>2
  <2>1. CASE Fits(ch, p)
    <3>1. at[p + 1].live /\ H - b <= at[p + 1].off
        BY <1>6, <2>1, Zenon DEF Fits
    <3>2. at[p + 1].off \in Int
        BY <1>10 DEF SlotType
    <3> QED BY <1>11, <3>1, <3>2, Zenon
  <2>2. CASE Joins(ch, p) /\ At(ch, q).o = "If"
    <3>1. ~two /\ h[p + 1] = h[q + 1] - 1 /\ t = q
      <4>1. ~two
          BY <2>2
      <4>2. At(ch, q).o # "Else"
          BY <2>2
      <4> QED BY <1>2, <2>2, <4>1, <4>2, Zenon DEF Joins
    <3> HIDE DEF offs, two, h, t, q
    <3>2. H - b = 0
        BY <1>10, <3>1
    <3> QED BY <1>11, <3>1, <3>2
  <2>3. CASE Joins(ch, p) /\ At(ch, q).o # "If"
    <3>1. two /\ Live(ch, q) /\ h[p + 1] = h[q + 1]
      <4>1. two
          BY <1>2, <2>3
      <4> QED BY <2>3, <4>1, Zenon DEF Joins
    <3>2. at[q + 1].live /\ h[q + 1] - b <= at[q + 1].off
        BY <1>6, <1>9, <3>1, Zenon DEF Fits
    <3>3. at[q + 1].off \in Int
        BY <1>10 DEF SlotType
    <3> QED BY <1>11, <3>1, <3>2, <3>3, Zenon
  <2> QED BY <2>1, <2>2, <2>3, Zenon DEF Kept
<1>13. r = [at[t + 1] EXCEPT !.live = @ /\ offs # {}, !.off = @ - 1 + z]
  <2>1. r = SlotsBehind(ch, open, at, p)
      BY WalkBehind
  <2>2. SlotsBehind(ch, open, at, p)
          = [at[t + 1] EXCEPT !.live = @ /\ offs # {}, !.off = @ - 1 + z]
      BY Zenon DEF SlotsBehind, ArmOffs
  <2> HIDE DEF r
  <2> QED BY <2>1, <2>2
<1>14. h[(p + 1) + 1] = H
  <2>1. /\ h[(p + 1) + 1] = h[p + 1] + op_depth_effect(op)[2]
      BY <1>1, EdgeIs, Zenon
  <2>2. op_depth_effect(op) = <<0, 0>>
      BY WalkType, Effects
  <2> HIDE DEF h, op
  <2> QED BY <1>10, <2>1, <2>2
<1>15. Base(ch, p + 1) = Base(ch, t) /\ TestsLive(ch, p + 1)
    BY <1>2, <1>6, SameBlocks, Zenon
<1> DEFINE s == at[t + 1]
<1>16. /\ s.live /\ h[t + 1] - Base(ch, t) <= s.off /\ Base(ch, t) <= s.up
       /\ Base(ch, t) \in Nat
    BY <1>2, <1>6, <1>8, BaseType, Zenon DEF Fits
<1>17. r.live /\ r.off = s.off - 1 + z /\ r.up = s.up
  <2> HIDE DEF z, r, s
  <2>1. r = [s EXCEPT !.live = @ /\ offs # {}, !.off = @ - 1 + z] /\ s \in SlotType
      BY <1>10, <1>13 DEF s
  <2> HIDE DEF offs
  <2> QED BY <1>12, <1>16, <2>1 DEF SlotType
<1>18. s.off \in Int /\ s.up \in Nat
    BY <1>10 DEF SlotType
<1>19. r.live /\ h[(p + 1) + 1] - Base(ch, p + 1) <= r.off /\ Base(ch, p + 1) <= r.up
  <2> HIDE DEF r, s, z, h, at, open, offs, q, t
  <2>1. z \in Int
      BY <1>11 DEF z
  <2> QED BY <1>10, <1>12, <1>14, <1>15, <1>16, <1>17, <1>18, <2>1
<1>20. Fits(ch, p + 1)
    BY <1>19, Zenon DEF Fits
<1> QED BY <1>15, <1>20, Zenon DEF Kept

\* The loop a break leaves is the innermost around it.
LEMMA LeavesIs ==
    ASSUME NEW ch, Walkable(ch), NEW p \in Positions(ch),
           At(ch, p).o \in {"Break", "BreakIf"}
    PROVE  \E l \in Positions(ch) :
              /\ l \in Range(Blocks(ch)[p]) /\ l < p /\ At(ch, l).o = "Loop"
              /\ At(ch, p).a = At(ch, l).a
<1> DEFINE s == Blocks(ch)[p]
           L == EnclosingLoop(ch, s)
<1>1. Size(ch) \in Nat /\ verify_nesting(ch) /\ p \in Nat
    BY WalkType, Zenon DEF Walkable
<1>2. L # {} /\ At(ch, p).a = At(ch, Max(L)).a
  <2>1. Nests(ch, p, s)
      BY <1>1, Zenon DEF verify_nesting
  <2> QED BY <2>1, Zenon DEF Nests
<1>3. s \in Seq(Nat) /\ \A i \in 1 .. Len(s) : s[i] < p
  <2>1. p \in 0 .. Size(ch)
      BY <1>1 DEF Positions
  <2> QED BY <1>1, <2>1, BlocksOpen, Zenon DEF OpenAt
<1>4. \A q \in Range(s) : q \in Nat /\ q < p
  <2> HIDE DEF s
  <2> QED BY <1>3 DEF Range
<1>5. L \subseteq Range(s) /\ \A q \in L : At(ch, q).o = "Loop"
    BY Zenon DEF EnclosingLoop
<1> HIDE DEF L, s
<1>6. L \subseteq Nat /\ \A q \in L : q <= p
    BY <1>1, <1>4, <1>5
<1>7. Max(L) \in L
    BY <1>1, <1>2, <1>6, GreatestExists, Zenon
<1> DEFINE l == Max(L)
<1>8. l \in Range(s) /\ At(ch, l).o = "Loop" /\ l \in Nat /\ l < p
    BY <1>4, <1>5, <1>7, Zenon
<1> HIDE DEF l
<1>9. l \in Positions(ch)
    BY <1>1, <1>8 DEF Positions
<1> QED BY <1>2, <1>8, <1>9, Zenon DEF l, s

\* Where a Break leads.
LEMMA LeaveKept ==
    ASSUME NEW ch, Walkable(ch), NEW p \in Positions(ch), p >= Start(ch),
           Live(ch, p), Kept(ch, p), At(ch, p).o \in {"Break", "BreakIf"},
           p < At(ch, p).a, Live(ch, At(ch, p).a),
           \A y \in Positions(ch) : y >= Start(ch) /\ y < p => Kept(ch, y)
    PROVE  Kept(ch, At(ch, p).a)
<1> DEFINE open == Blocks(ch)
           h == interp_region(ch)
           op == At(ch, p)
           n == op.a
           at == Walk(ch)
<1>1. /\ Size(ch) \in Nat /\ verify_nesting(ch) /\ p \in Nat /\ n \in Targets(ch, p)
      /\ Start(ch) \in {0, 1} /\ BlocksJoin(ch)
  <2>1. n \in Targets(ch, p)
      BY DEF Targets
  <2> QED BY <2>1, WalkType, Zenon DEF Walkable
<1>2. PICK l \in Positions(ch) :
              /\ l \in Range(open[p]) /\ l < p /\ At(ch, l).o = "Loop"
              /\ n = At(ch, l).a
    BY LeavesIs
<1>3. TestOf(ch, open, l) = l
  <2>1. At(ch, l).o # "Else"
      BY <1>2
  <2> QED BY <2>1, Zenon DEF TestOf
<1>4. Live(ch, l)
  <2>1. TestsLive(ch, p)
      BY Zenon DEF Kept
  <2> QED BY <1>2, <1>3, <2>1, Zenon DEF TestsLive
<1>5. l >= Start(ch)
  <2>1. At(ch, l).o # "Stream"
      BY <1>2
  <2> QED BY <2>1, NotBefore
<1>6. Fits(ch, l) /\ TestsLive(ch, l)
  <2>1. Kept(ch, l)
      BY <1>2, <1>5, Zenon
  <2>2. ~Joins(ch, l)
    <3>1. At(ch, l).o # "EndIf"
        BY <1>2
    <3> QED BY <3>1, Zenon DEF Joins
  <2> QED BY <1>4, <2>1, <2>2, Zenon DEF Kept
<1>7. Fits(ch, p)
  <2>1. ~Joins(ch, p)
    <3>1. At(ch, p).o # "EndIf"
        OBVIOUS
    <3> QED BY <3>1, Zenon DEF Joins
  <2> QED BY <2>1, Zenon DEF Kept
<1>8. PICK c \in Positions(ch) :
              /\ l < c /\ Opener(open, c) = l /\ At(ch, c).o = "EndLoop"
              /\ n = c + 1
  <2>1. At(ch, l).o \in {"If", "Loop"} /\ At(ch, l).o # "If"
      BY <1>2
  <2> QED BY <1>1, <1>2, <2>1, Closer
<1>9. open[n] = open[l]
  <2>1. Nested(ch, c)
      BY <1>1, IsNested
  <2> QED BY <1>8, <2>1, Zenon DEF Nested
<1>10. p < c /\ c >= Start(ch)
  <2>1. c # p
      BY <1>8
  <2>2. p < c + 1
      BY <1>8
  <2>3. c \in Nat /\ l \in Nat
      BY <1>1 DEF Positions
  <2> QED BY <1>1, <1>5, <1>8, <2>1, <2>2, <2>3
<1>11. h[n + 1] = h[l + 1]
  <2>1. l \in PositionsOf(ch, "Loop")
      BY <1>2 DEF PositionsOf
  <2>2. Dead \notin {h[l + 1], h[n + 1]}
    <3>1. h[l + 1] # Dead /\ h[n + 1] # Dead
        BY <1>4 DEF Live
    <3> QED BY <3>1
  <2> QED BY <1>1, <1>2, <2>1, <2>2, Zenon DEF BlocksJoin
<1>12. p \in Leaving(ch, l)
  <2>1. p > l
      BY <1>2
  <2>2. p \in PositionsOf(ch, "Break") \cup PositionsOf(ch, "BreakIf")
      BY DEF PositionsOf
  <2> QED BY <1>2, <2>1, <2>2, Zenon DEF Leaving
<1> DEFINE s == at[l + 1]
           r == at[n + 1]
           leaves == /\ s.live
                     /\ \/ at[c + 1].live
                        \/ \E b \in Leaving(ch, l) : b < c /\ at[b + 1].live
<1>13. r = [s EXCEPT !.live = leaves]
  <2>1. at[(c + 1) + 1] = SlotsBehind(ch, open, at, c)
      BY <1>10, WalkBehind
  <2>2. SlotsBehind(ch, open, at, c)
          = [s EXCEPT !.live = /\ @
                               /\ \/ at[c + 1].live
                                  \/ \E b \in Leaving(ch, l) : b < c /\ at[b + 1].live]
      BY <1>3, <1>8, Zenon DEF SlotsBehind
  <2>3. n + 1 = (c + 1) + 1
      BY <1>8
  <2> HIDE DEF n
  <2> QED BY <2>1, <2>2, <2>3
<1>14. s \in SlotType
    BY WalkType
<1>15. leaves
    BY <1>6, <1>7, <1>10, <1>12, Zenon DEF Fits
<1>16. r.live /\ r.off = s.off /\ r.up = s.up
  <2> HIDE DEF leaves, s, r
  <2> QED BY <1>13, <1>14, <1>15 DEF SlotType
<1>17. Base(ch, n) = Base(ch, l) /\ TestsLive(ch, n)
    BY <1>6, <1>9, SameBlocks, Zenon
<1>18. Fits(ch, n)
    BY <1>6, <1>11, <1>16, <1>17, Zenon DEF Fits
<1> QED BY <1>17, <1>18, Zenon DEF Kept

\* Every position that control can reach is one that the walk gets to.
LEMMA AllKept ==
    ASSUME NEW ch, Walkable(ch), NEW ip \in Positions(ch), ip >= Start(ch)
    PROVE  Kept(ch, ip)
<1> DEFINE B == {n \in Positions(ch) : n >= Start(ch) /\ ~Kept(ch, n)}
           h == interp_region(ch)
<1>1. SUFFICES ASSUME B # {} PROVE FALSE
    BY Zenon
<1>2. Size(ch) \in Nat /\ Start(ch) \in {0, 1} /\ verify_nesting(ch) /\ h[1] = 0
    BY Zenon DEF Walkable
<1>3. PICK n \in B : n \in Nat /\ \A y \in Nat : y < n => y \notin B
  <2>1. B \subseteq Nat
      BY <1>2 DEF Positions
  <2> HIDE DEF B
  <2> QED BY <1>1, <2>1, Least
<1>4. n \in Positions(ch) /\ n >= Start(ch) /\ ~Kept(ch, n) /\ n \in Nat
    BY <1>3, Zenon
<1>5. \A y \in Positions(ch) : y >= Start(ch) /\ y < n => Kept(ch, y)
  <2>1. \A y \in Positions(ch) : y \in Nat
      BY <1>2 DEF Positions
  <2> QED BY <1>3, <2>1, Zenon
<1> HIDE DEF B
<1>6. Live(ch, n)
    BY <1>4, Zenon DEF Kept
\* The start of the walk.
<1>7. n # Start(ch)
  <2> SUFFICES ASSUME n = Start(ch) PROVE Kept(ch, n)
      BY <1>4, Zenon
  <2>1. Blocks(ch)[n] = <<>> /\ h[n + 1] = 0
    <3>1. Blocks(ch)[0] = <<>>
        BY <1>2, BlocksIs, Zenon
    <3>2. CASE Start(ch) = 0
        BY <1>2, <3>1, <3>2
    <3>3. CASE Start(ch) # 0
      <4>1. Start(ch) = 1 /\ At(ch, 0).o = "Stream" /\ h[2] = 0
          BY <1>2, <3>3, Zenon DEF Walkable
      <4>2. 0 \in Positions(ch)
          BY <1>2, <1>4, <4>1 DEF Positions
      <4>3. Nested(ch, 0)
          BY <1>2, <4>2, IsNested, Zenon
      <4>4. At(ch, 0).o \notin {"If", "Loop", "Else", "EndIf", "EndLoop"}
          BY <4>1
      <4>5. Blocks(ch)[0 + 1] = Blocks(ch)[0]
          BY <4>3, <4>4, Zenon DEF Nested
      <4> QED BY <3>1, <4>1, <4>5
    <3> QED BY <3>2, <3>3
  <2>2. Base(ch, n) = 0
      BY <2>1 DEF Base
  <2>3. TestsLive(ch, n)
      BY <2>1 DEF TestsLive, Range
  <2>4. Walk(ch)[n + 1] = [Unwalked EXCEPT !.live = TRUE]
    <3>1. SlotsStep(ch, Start(ch), wcmu_region(ch, Start(ch)))
        BY <1>2, SlotsIs, Zenon
    <3> DEFINE at == wcmu_region(ch, Start(ch))
    <3>2. /\ at[1] = [Unwalked EXCEPT !.live = Start(ch) = 0]
          /\ \A p \in Positions(ch) :
                at[(p + 1) + 1] = SlotsAt(ch, Start(ch), at, p + 1)
      <4> HIDE DEF at
      <4>1. SlotsStep(ch, Start(ch), at)
          BY <3>1 DEF at
      <4> QED BY <4>1, Zenon DEF SlotsStep
    <3> HIDE DEF at
    <3>3. CASE Start(ch) = 0
      <4>1. n + 1 = 1 /\ (Start(ch) = 0) = TRUE
          BY <3>3
      <4>2. at[n + 1] = [Unwalked EXCEPT !.live = TRUE]
          BY <3>2, <4>1, Zenon
      <4> QED BY <4>2, Zenon DEF Walk, at
    <3>4. CASE Start(ch) # 0
      <4>1. Start(ch) = 1 /\ 0 \in Positions(ch) /\ n = 1
          BY <1>2, <1>4, <3>4 DEF Positions
      <4>2. at[(0 + 1) + 1] = SlotsAt(ch, 1, at, 0 + 1)
          BY <3>2, <4>1, Zenon
      <4>3. at[n + 1] = [Unwalked EXCEPT !.live = TRUE]
          BY <4>1, <4>2 DEF SlotsAt
      <4> QED BY <4>3 DEF Walk, at
    <3> QED BY <3>3, <3>4
  <2>5. Fits(ch, n)
    <3>1. /\ Walk(ch)[n + 1].live /\ Walk(ch)[n + 1].off = 0
          /\ Walk(ch)[n + 1].up = 0
        BY <2>4 DEF Unwalked
    <3>2. 0 - 0 <= 0 /\ 0 <= 0
        OBVIOUS
    <3> QED BY <2>1, <2>2, <3>1, <3>2, Zenon DEF Fits
  <2> QED BY <2>3, <2>5, Zenon DEF Kept
<1>8. PICK p \in 0 .. n - 1 : Live(ch, p) /\ n \in Targets(ch, p)
  <2>1. n > 0 /\ h[n + 1] # Dead
      BY <1>2, <1>4, <1>6, <1>7 DEF Live
  <2> QED BY <1>2, <1>4, <2>1, Arrived, Zenon DEF Live
<1>9. p \in Positions(ch) /\ p \in Nat /\ p < n
  <2>1. n \in 0 .. Size(ch) - 1
      BY <1>4 DEF Positions
  <2> QED BY <1>2, <2>1 DEF Positions
<1>10. p >= Start(ch)
  <2> SUFFICES ASSUME ~(p >= Start(ch)) PROVE FALSE
      OBVIOUS
  <2>1. p = 0 /\ Start(ch) = 1
      BY <1>2, <1>9
  <2>5. Start(ch) # 0
      BY <2>1
  <2>2. At(ch, 0).o = "Stream"
      BY <1>2, <2>5, Zenon DEF Walkable
  <2>3. Targets(ch, p) = {1}
      BY <2>1, <2>2 DEF Targets
  <2> QED BY <1>7, <1>8, <2>1, <2>3
<1>11. Kept(ch, p) /\ \A y \in Positions(ch) : y >= Start(ch) /\ y < p => Kept(ch, y)
  <2>1. \A y \in Positions(ch) : y < p => y < n
      BY <1>2, <1>4, <1>9 DEF Positions
  <2> QED BY <1>5, <1>9, <1>10, <2>1, Zenon
<1> DEFINE op == At(ch, p)
<1>12. CASE op.o = "If"
  <2>1. n \in {p + 1, op.a}
      BY <1>8, <1>12 DEF Targets
  <2>2. Kept(ch, p + 1) /\ Kept(ch, op.a)
      BY <1>8, <1>9, <1>10, <1>11, <1>12, EnterKept, BranchKept
  <2> QED BY <1>4, <2>1, <2>2
<1>13. CASE op.o = "Loop"
  <2>1. n = p + 1
      BY <1>8, <1>13 DEF Targets
  <2>2. Kept(ch, p + 1)
      BY <1>8, <1>9, <1>10, <1>11, <1>13, EnterKept
  <2> QED BY <1>4, <2>1, <2>2
<1>14. CASE op.o = "Else"
  <2>1. n = op.a
      BY <1>8, <1>14 DEF Targets
  <2>2. Kept(ch, op.a)
      BY <1>8, <1>9, <1>11, <1>14, ElseKept
  <2> QED BY <1>4, <2>1, <2>2
<1>15. CASE op.o = "EndIf"
  <2>1. n = p + 1
      BY <1>8, <1>15 DEF Targets
  <2>2. Kept(ch, p + 1)
      BY <1>8, <1>9, <1>10, <1>11, <1>15, EndIfKept
  <2> QED BY <1>4, <2>1, <2>2
<1>16. CASE op.o = "EndLoop"
  <2>1. n = op.a
      BY <1>8, <1>16 DEF Targets
  <2>2. Nests(ch, p, Blocks(ch)[p]) /\ Nested(ch, p)
      BY <1>2, <1>9, IsNested, Zenon DEF verify_nesting
  <2>3. op.a = Opener(Blocks(ch), p) + 1 /\ Opener(Blocks(ch), p) < p
        /\ Opener(Blocks(ch), p) \in Positions(ch)
      BY <1>16, <2>2, Zenon DEF Nests, Nested, Opener
  <2>4. ~(op.a > p)
    <3> DEFINE q == Opener(Blocks(ch), p)
    <3>1. q \in Nat
        BY <1>2, <2>3 DEF Positions
    <3> HIDE DEF q
    <3> QED BY <1>9, <2>3, <3>1 DEF q
  <2> QED BY <1>9, <2>1, <2>4
<1>17. CASE op.o \in {"Break", "BreakIf"} /\ n = op.a
    BY <1>4, <1>6, <1>8, <1>9, <1>10, <1>11, <1>17, LeaveKept
<1>18. CASE op.o \notin {"If", "Loop", "Else", "EndIf", "EndLoop", "Break"}
            /\ ~(op.o = "BreakIf" /\ n = op.a)
  <2>1. n = p + 1 /\ op.o \notin {"Return", "Trap", "Reset"}
      BY <1>8, <1>18 DEF Targets
  <2>2. Kept(ch, p + 1)
      BY <1>8, <1>9, <1>10, <1>11, <1>18, <2>1, FallsKept
  <2> QED BY <1>4, <2>1, <2>2
<1>19. op.o = "Break" => n = op.a
    BY <1>8 DEF Targets
<1> QED BY <1>12, <1>13, <1>14, <1>15, <1>16, <1>17, <1>18, <1>19

-----------------------------------------------------------------------------
\* The peak of a chunk: what the walk counts at each position, and its maximum.
WalkedAt(ch) == {ip \in Start(ch) .. Finish(ch) - 1 : Walk(ch)[ip + 1].live}
Reach(ch, callee, ip) ==
    Walk(ch)[ip + 1].up + DuringPeak(At(ch, ip), Walk(ch)[ip + 1].off, callee)
Peaks(ch, callee) == {Reach(ch, callee, ip) : ip \in WalkedAt(ch)}
Callable(ch, callee) == \A e \in Callees(ch) : callee[e].stack \in Nat

\* What is attested for a chunk is its locals and its peak.
LEMMA StackIs ==
    ASSUME NEW ch, NEW callee
    PROVE  compute_chunk_wcmu(ch, callee).stack = ch.locals + Ints(Peaks(ch, callee))
<1>1. Peaks(ch, callee) =
        {wcmu_region(ch, Start(ch))[ip + 1].up
            + DuringPeak(At(ch, ip), wcmu_region(ch, Start(ch))[ip + 1].off, callee) :
           ip \in {x \in Start(ch) .. Finish(ch) - 1 :
                     wcmu_region(ch, Start(ch))[x + 1].live}}
    BY Zenon DEF Peaks, WalkedAt, Reach, Walk
<1> QED BY <1>1 DEF compute_chunk_wcmu

\* The walk stays in the chunk and starts at or before every live position but
\* the Stream that opens it.
LEMMA WalkedRange ==
    ASSUME NEW ch, Walkable(ch)
    PROVE  /\ Start(ch) \in {0, 1} /\ Finish(ch) \in Nat /\ Size(ch) \in Nat
           /\ Start(ch) .. Finish(ch) - 1 \subseteq Positions(ch)
           /\ \A ip \in Positions(ch) : Live(ch, ip) =>
                 \/ ip \in Start(ch) .. Finish(ch) - 1
                 \/ ip = 0 /\ Start(ch) = 1 /\ At(ch, 0).o = "Stream"
                 \/ /\ ip = Finish(ch) /\ ip > 0 /\ Start(ch) = 1
                    /\ At(ch, ip).o = "Reset"
<1>1. /\ Size(ch) \in Nat
      /\ \/ Start(ch) = 0 /\ Finish(ch) = Size(ch)
         \/ /\ Start(ch) = 1 /\ At(ch, 0).o = "Stream"
            /\ Finish(ch) \in Positions(ch) /\ At(ch, Finish(ch)).o = "Reset"
            /\ \A ip \in Positions(ch) : ip > Finish(ch) => ~Live(ch, ip)
    BY Zenon DEF Walkable
<1>2. CASE Start(ch) = 0 /\ Finish(ch) = Size(ch)
    BY <1>1, <1>2 DEF Positions
<1>3. CASE /\ Start(ch) = 1 /\ At(ch, 0).o = "Stream"
           /\ Finish(ch) \in Positions(ch) /\ At(ch, Finish(ch)).o = "Reset"
           /\ \A ip \in Positions(ch) : ip > Finish(ch) => ~Live(ch, ip)
  <2> DEFINE f == Finish(ch)
             N == Size(ch)
  <2>1. /\ f \in 0 .. N - 1 /\ N \in Nat
        /\ \A ip \in 0 .. N - 1 : ip > f => ~Live(ch, ip)
      BY <1>1, <1>3, Zenon DEF Positions
  <2>2. f # 0
      BY <1>3
  <2> HIDE DEF f, N
  <2>3. \A ip \in 0 .. N - 1 : Live(ch, ip) =>
           ip \in 1 .. f - 1 \/ ip = 0 \/ (ip = f /\ ip > 0)
      BY <2>1, <2>2
  <2>4. f \in Nat /\ 1 .. f - 1 \subseteq 0 .. N - 1
      BY <2>1
  <2> QED BY <1>1, <1>3, <2>3, <2>4, Zenon DEF f, N, Positions
<1> QED BY <1>1, <1>2, <1>3, Zenon

\* What an instruction counts at its peak.
LEMMA DuringIs ==
    ASSUME NEW ch, NEW callee, Callable(ch, callee), NEW ip \in Positions(ch),
           At(ch, ip) \in Instruction, NEW off \in Int
    PROVE  LET op == At(ch, ip)
               d == DuringPeak(op, off, callee)
           IN /\ d \in Nat /\ off <= d
              /\ op.o \notin {"Return", "Trap", "Reset"} =>
                    off + op_depth_effect(op)[2] <= d
              /\ op.o = "Call" => off - op.b + callee[op.a].stack <= d
<1> DEFINE op == At(ch, ip)
           d == DuringPeak(op, off, callee)
           g == stack_growth(op)
           s == stack_shrink(op)
           e == op_depth_effect(op)[2]
           x == callee[op.a].stack
<1>1. g \in Nat /\ s \in Nat /\ (op.o \notin {"Return", "Trap", "Reset"} => g - s = e)
    BY NetIs, Zenon
<1>2. op.b \in Nat /\ (op.o = "Call" => x \in Nat)
  <2>1. op.b \in Nat
      BY DEF Instruction
  <2>2. op.o = "Call" => op.a \in Callees(ch)
      BY Zenon DEF Callees, PositionsOf
  <2> QED BY <2>1, <2>2, Zenon DEF Callable
<1>3. op.o = "Call" => e = 1 - op.b
    BY Effects
<1> SUFFICES /\ d \in Nat /\ off <= d
             /\ op.o \notin {"Return", "Trap", "Reset"} => off + e <= d
             /\ op.o = "Call" => off - op.b + x <= d
    BY Zenon
<1> HIDE DEF op, g, s, e, x
<1>4. CASE op.o = "Call"
  <2>1. d = Pos(Larger(off + x - op.b, off + 1))
      BY <1>4, Zenon DEF DuringPeak, d, x
  <2> HIDE DEF d
  <2>2. d \in Nat /\ d >= off + x - op.b /\ d >= off + 1
      BY <1>2, <1>4, <2>1 DEF Pos, Larger
  <2> QED BY <1>2, <1>3, <1>4, <2>2
<1>5. CASE op.o # "Call"
  <2>1. d = Pos(off + g)
      BY <1>5, Zenon DEF DuringPeak, d, g
  <2> HIDE DEF d
  <2>2. d \in Nat /\ d >= off + g
      BY <1>1, <2>1 DEF Pos
  <2>3. op.o \notin {"Return", "Trap", "Reset"} => off + e <= d
    <3> SUFFICES ASSUME g - s = e PROVE off + e <= d
        BY <1>1, Zenon
    <3> QED BY <1>1, <2>2
  <2> QED BY <1>1, <1>5, <2>2, <2>3
<1> QED BY <1>4, <1>5

\* No position the walk gets to counts more than the peak.
LEMMA PeaksBound ==
    ASSUME NEW ch, NEW callee, Walkable(ch), Callable(ch, callee)
    PROVE  /\ Ints(Peaks(ch, callee)) \in Nat
           /\ \A ip \in WalkedAt(ch) : /\ Reach(ch, callee, ip) \in Nat
                                       /\ Reach(ch, callee, ip) <= Ints(Peaks(ch, callee))
<1> DEFINE S == Peaks(ch, callee)
           N == Size(ch)
           W == WalkedAt(ch)
           R(ip) == Reach(ch, callee, ip)
           d == [i \in 1 .. N |-> IF i - 1 \in W THEN R(i - 1) ELSE 0]
<1>1. N \in Nat /\ W \subseteq Positions(ch)
    BY WalkedRange, Zenon DEF WalkedAt
<1>2. ASSUME NEW ip \in W PROVE R(ip) \in Nat
  <2>1. ip \in Positions(ch)
      BY <1>1
  <2>2. /\ Walk(ch)[ip + 1].off \in Int /\ Walk(ch)[ip + 1].up \in Nat
        /\ At(ch, ip) \in Instruction
      BY <2>1, WalkType, Zenon
  <2>3. DuringPeak(At(ch, ip), Walk(ch)[ip + 1].off, callee) \in Nat
      BY <2>1, <2>2, DuringIs, Zenon
  <2> DEFINE x == DuringPeak(At(ch, ip), Walk(ch)[ip + 1].off, callee)
             y == Walk(ch)[ip + 1].up
  <2> HIDE DEF x, y
  <2>4. y + x \in Nat
      BY <2>2, <2>3 DEF x, y
  <2> QED BY <2>4 DEF Reach, x, y
<1> HIDE DEF R, W
<1>3. \A i \in 1 .. N : d[i] \in Nat
    BY <1>2
<1>4. PICK u \in Nat : \A i \in 1 .. N : d[i] <= u
  <2> HIDE DEF d, N
  <2> QED BY <1>1, <1>3, ListBounded
<1>5. ASSUME NEW ip \in W PROVE R(ip) <= u
  <2>1. ip \in 0 .. N - 1
      BY <1>1 DEF Positions
  <2>2. ip + 1 \in 1 .. N /\ (ip + 1) - 1 = ip
      BY <1>1, <2>1
  <2>3. d[ip + 1] = R(ip)
      BY <2>2
  <2> QED BY <1>4, <2>2, <2>3, Zenon
<1>6. S = {R(ip) : ip \in W}
    BY Zenon DEF Peaks, R, W
<1>7. S \subseteq Nat /\ \A x \in S : x <= u
    BY <1>2, <1>5, <1>6
<1>8. \A ip \in W : R(ip) \in S
    BY <1>6
<1> HIDE DEF S
<1>9. CASE S = {}
    BY <1>8, <1>9, Zenon DEF Ints, R, W, S
<1>10. CASE S # {}
  <2>1. Max(S) \in S /\ \A y \in S : y <= Max(S)
      BY <1>7, <1>10, GreatestExists
  <2>2. Ints(S) = Max(S)
      BY <1>10, Zenon DEF Ints
  <2> QED BY <1>7, <1>8, <2>1, <2>2, Zenon DEF R, W, S
<1> QED BY <1>9, <1>10

\* The operands of a position that fits are within the peak, during and behind it.
LEMMA FitsBelow ==
    ASSUME NEW ch, NEW callee, Walkable(ch), Callable(ch, callee),
           NEW ip \in Start(ch) .. Finish(ch) - 1, Live(ch, ip), Fits(ch, ip),
           TestsLive(ch, ip)
    PROVE  LET h == interp_region(ch)[ip + 1]
               op == At(ch, ip)
               peak == Ints(Peaks(ch, callee))
           IN /\ h \in Nat /\ h <= peak
              /\ op.o \notin {"Return", "Trap", "Reset"} =>
                    h + op_depth_effect(op)[2] <= peak
              /\ op.o = "Call" => h - op.b + callee[op.a].stack <= peak
<1> DEFINE h == interp_region(ch)[ip + 1]
           op == At(ch, ip)
           peak == Ints(Peaks(ch, callee))
           off == Walk(ch)[ip + 1].off
           up == Walk(ch)[ip + 1].up
           d == DuringPeak(op, off, callee)
           b == Base(ch, ip)
           e == op_depth_effect(op)[2]
           x == callee[op.a].stack
<1>1. ip \in Positions(ch)
    BY WalkedRange
<1>2. h \in Nat
    BY <1>1, Zenon DEF Walkable
<1>3. off \in Int /\ up \in Nat /\ op \in Instruction
    BY <1>1, WalkType, Zenon
<1>4. b \in Nat
    BY <1>1, BaseType, Zenon
<1>5. Walk(ch)[ip + 1].live /\ h - b <= off /\ b <= up
    BY Zenon DEF Fits
<1>6. ip \in WalkedAt(ch)
    BY <1>5, Zenon DEF WalkedAt
<1>7. peak \in Nat /\ up + d <= peak
    BY <1>6, PeaksBound, Zenon DEF Reach
<1>8. /\ d \in Nat /\ off <= d
      /\ op.o \notin {"Return", "Trap", "Reset"} => off + e <= d
      /\ op.o = "Call" => off - op.b + x <= d
    BY <1>1, <1>3, DuringIs, Zenon
<1>9. op.b \in Nat /\ e \in Int /\ (op.o = "Call" => x \in Nat)
  <2>1. op.b \in Nat
      BY <1>3 DEF Instruction
  <2>2. op.o = "Call" => op.a \in Callees(ch)
      BY <1>1, Zenon DEF Callees, PositionsOf
  <2>3. e \in Int
      BY <1>3, EffectType, Zenon
  <2> QED BY <2>1, <2>2, <2>3, Zenon DEF Callable
<1> SUFFICES /\ h \in Nat /\ h <= peak
             /\ op.o \notin {"Return", "Trap", "Reset"} => h + e <= peak
             /\ op.o = "Call" => h - op.b + x <= peak
    BY Zenon
<1> DEFINE o == op.o
           ob == op.b
<1> HIDE DEF h, peak, off, up, d, b, e, x, o, ob
<1>10. h <= peak
    BY <1>2, <1>3, <1>4, <1>5, <1>7, <1>8
<1>11. ASSUME off + e <= d PROVE h + e <= peak
    BY <1>2, <1>3, <1>4, <1>5, <1>7, <1>8, <1>9, <1>11
<1>12. ASSUME o = "Call" PROVE h - ob + x <= peak
  <2>1. x \in Nat /\ off - ob + x <= d /\ ob \in Nat
      BY <1>8, <1>9, <1>12 DEF o, ob
  <2> HIDE DEF op
  <2> QED BY <1>2, <1>3, <1>4, <1>5, <1>7, <1>8, <2>1
<1> QED BY <1>2, <1>8, <1>10, <1>11, <1>12, Zenon DEF o, ob

\* The innermost block around a position is one of those around it.
LEMMA InnermostIn ==
    ASSUME NEW ch, Size(ch) \in Nat, NEW ip \in 0 .. Size(ch), Blocks(ch)[ip] # <<>>
    PROVE  Opener(Blocks(ch), ip) \in Range(Blocks(ch)[ip])
<1> DEFINE s == Blocks(ch)[ip]
<1>1. s \in Seq(Nat)
    BY BlocksOpen, Zenon DEF OpenAt
<1> HIDE DEF s
<1>2. Last(s) = s[Len(s)] /\ Len(s) > 0
    BY <1>1, FrontIs, Zenon DEF s
<1>3. Len(s) \in DOMAIN s
    BY <1>1, <1>2
<1> QED BY <1>2, <1>3, Zenon DEF Range, Opener, s

\* An EndIf closes a block.
LEMMA OpenBefore ==
    ASSUME NEW ch, Size(ch) \in Nat, verify_nesting(ch), NEW ip \in Positions(ch),
           At(ch, ip).o = "EndIf"
    PROVE  Blocks(ch)[ip] # <<>>
<1> DEFINE open == Blocks(ch)
           q == Opener(open, ip)
           t == TestOf(ch, open, q)
<1>1. Nested(ch, ip)
    BY IsNested
<1>2. t \in Positions(ch) /\ open[ip] = Append(open[t], q)
    BY <1>1, Zenon DEF Nested
<1>6. q \in Positions(ch)
    BY <1>1, Zenon DEF Nested
<1>3. t \in 0 .. Size(ch) /\ q \in Nat
    BY <1>2, <1>6 DEF Positions
<1>4. open[t] \in Seq(Nat)
    BY <1>3, BlocksOpen, Zenon DEF OpenAt
<1> DEFINE s == open[t]
<1> HIDE DEF s, q, open, t
<1>5. Append(s, q) # <<>>
    BY <1>3, <1>4, AppendIs DEF s
<1> QED BY <1>2, <1>5, Zenon DEF s, open

\* Those of an EndIf that another branch comes to are within it too.
LEMMA JoinsBelow ==
    ASSUME NEW ch, NEW callee, Walkable(ch), Callable(ch, callee),
           NEW ip \in Start(ch) .. Finish(ch) - 1, Live(ch, ip), Joins(ch, ip),
           TestsLive(ch, ip)
    PROVE  /\ interp_region(ch)[ip + 1] \in Nat
           /\ interp_region(ch)[ip + 1] <= Ints(Peaks(ch, callee))
           /\ At(ch, ip).o = "EndIf" /\ op_depth_effect(At(ch, ip))[2] = 0
<1> DEFINE h == interp_region(ch)
           q == Opener(Blocks(ch), ip)
           peak == Ints(Peaks(ch, callee))
<1>1. ip \in Positions(ch) /\ Size(ch) \in Nat /\ verify_nesting(ch)
      /\ At(ch, ip).o = "EndIf"
    BY WalkedRange, Zenon DEF Walkable, Joins
<1>2. h[ip + 1] \in Nat
    BY <1>1, Zenon DEF Walkable
<1>3. op_depth_effect(At(ch, ip))[2] = 0
    BY <1>1, WalkType, Effects
<1>4. q \in Positions(ch) /\ q < ip /\ At(ch, q).o \in {"If", "Else"}
    BY <1>1, IsNested, Zenon DEF Nested
<1>5. q \in Start(ch) .. Finish(ch) - 1
  <2>1. q \in Nat /\ ip \in Nat /\ Start(ch) \in {0, 1} /\ Finish(ch) \in Nat
      BY <1>1, <1>4, WalkedRange, WalkType
  <2>2. Start(ch) = 1 => At(ch, 0).o = "Stream"
    <3>1. \/ Start(ch) = 0
          \/ At(ch, 0).o = "Stream"
        BY Zenon DEF Walkable
    <3> QED BY <3>1
  <2>3. Start(ch) = 1 => q # 0
      BY <1>4, <2>2
  <2> HIDE DEF q
  <2> QED BY <1>4, <2>1, <2>3
<1>6. Live(ch, q) /\ (h[ip + 1] = h[q + 1] - 1 \/ h[ip + 1] = h[q + 1])
  <2>1. CASE At(ch, q).o = "Else"
      BY <2>1, Zenon DEF Joins
  <2>2. CASE At(ch, q).o = "If"
    <3>1. TestOf(ch, Blocks(ch), q) = q
        BY <2>2, Zenon DEF TestOf
    <3>2. q \in Range(Blocks(ch)[ip])
      <4>1. Blocks(ch)[ip] # <<>>
          BY <1>1, OpenBefore
      <4>2. ip \in 0 .. Size(ch)
          BY <1>1 DEF Positions
      <4> QED BY <1>1, <4>1, <4>2, InnermostIn, Zenon
    <3>3. Live(ch, q)
        BY <3>1, <3>2, Zenon DEF TestsLive
    <3> QED BY <2>2, <3>3, Zenon DEF Joins
  <2> QED BY <1>4, <2>1, <2>2
<1>7. Fits(ch, q) /\ TestsLive(ch, q)
  <2>1. Kept(ch, q)
    <3>1. q >= Start(ch)
        BY <1>4, <1>5, WalkType
    <3> QED BY <1>4, <3>1, AllKept
  <2>2. ~Joins(ch, q)
      BY <1>4, Zenon DEF Joins
  <2> QED BY <1>6, <2>1, <2>2, Zenon DEF Kept
<1>8. h[q + 1] \in Nat /\ h[q + 1] <= peak
    BY <1>5, <1>6, <1>7, FitsBelow, Zenon
<1>9. peak \in Nat
    BY PeaksBound, Zenon
<1>10. h[ip + 1] <= peak
  <2> HIDE DEF h, peak, q
  <2> QED BY <1>2, <1>6, <1>8, <1>9
<1> QED BY <1>1, <1>2, <1>3, <1>10, Zenon

(***************************************************************************)
(* What the peak of a chunk bounds: the operands at each position control  *)
(* can reach, and at a call those below the arguments with all that the    *)
(* callee uses.                                                            *)
(***************************************************************************)
Covers(ch, callee, peak) ==
    \A ip \in Positions(ch) : Live(ch, ip) =>
        LET h == interp_region(ch)[ip + 1]
            op == At(ch, ip)
        IN h <= peak /\ (op.o = "Call" => h - op.b + callee[op.a].stack <= peak)

\* Every position the walk gets to is within the peak.
LEMMA WithinPeak ==
    ASSUME NEW ch, NEW callee, Walkable(ch), Callable(ch, callee),
           NEW ip \in Start(ch) .. Finish(ch) - 1, Live(ch, ip)
    PROVE  LET h == interp_region(ch)[ip + 1]
               op == At(ch, ip)
               peak == Ints(Peaks(ch, callee))
           IN /\ h \in Nat /\ h <= peak
              /\ op.o \notin {"Return", "Trap", "Reset"} =>
                    h + op_depth_effect(op)[2] <= peak
              /\ op.o = "Call" => h - op.b + callee[op.a].stack <= peak
<1> DEFINE h == interp_region(ch)[ip + 1]
           op == At(ch, ip)
           peak == Ints(Peaks(ch, callee))
<1>1. ip \in Positions(ch) /\ ip >= Start(ch)
    BY WalkedRange, WalkType
<1>2. (Fits(ch, ip) \/ Joins(ch, ip)) /\ TestsLive(ch, ip)
  <2>1. Kept(ch, ip)
      BY <1>1, AllKept
  <2> QED BY <2>1, Zenon DEF Kept
<1>3. CASE Fits(ch, ip)
    BY <1>2, <1>3, FitsBelow, Zenon
<1>4. CASE Joins(ch, ip)
  <2>1. h \in Nat /\ h <= peak /\ op.o = "EndIf" /\ op_depth_effect(op)[2] = 0
      BY <1>2, <1>4, JoinsBelow, Zenon
  <2>2. op.o # "Call"
      BY <2>1
  <2>3. h + op_depth_effect(op)[2] = h
    <3> HIDE DEF h
    <3> QED BY <2>1
  <2> QED BY <2>1, <2>2, <2>3, Zenon
<1> QED BY <1>2, <1>3, <1>4, Zenon

\* The peak of a chunk bounds its operands at every position.
LEMMA PeakCovers ==
    ASSUME NEW ch, NEW callee, Walkable(ch), Callable(ch, callee)
    PROVE  Covers(ch, callee, Ints(Peaks(ch, callee)))
<1> DEFINE h == interp_region(ch)
           peak == Ints(Peaks(ch, callee))
<1> SUFFICES ASSUME NEW ip \in Positions(ch), Live(ch, ip)
             PROVE  /\ h[ip + 1] <= peak
                    /\ At(ch, ip).o = "Call" =>
                          h[ip + 1] - At(ch, ip).b + callee[At(ch, ip).a].stack <= peak
    BY Zenon DEF Covers
<1>1. peak \in Nat /\ Size(ch) \in Nat /\ Start(ch) \in {0, 1} /\ Finish(ch) \in Nat
    BY PeaksBound, WalkedRange, Zenon
<1>2. CASE ip \in Start(ch) .. Finish(ch) - 1
    BY <1>2, WithinPeak, Zenon
<1>3. CASE ip = 0 /\ Start(ch) = 1 /\ At(ch, 0).o = "Stream"
  <2>1. h[ip + 1] = 0 /\ At(ch, ip).o # "Call"
    <3>1. h[1] = 0
        BY Zenon DEF Walkable
    <3>2. ip + 1 = 1
        BY <1>3
    <3> QED BY <1>3, <3>1, <3>2
  <2> HIDE DEF h, peak
  <2> QED BY <1>1, <2>1
<1>4. CASE /\ ip = Finish(ch) /\ ip > 0 /\ Start(ch) = 1 /\ At(ch, ip).o = "Reset"
  <2>1. At(ch, ip).o # "Call"
      BY <1>4
  <2>2. PICK p \in 0 .. ip - 1 : Live(ch, p) /\ ip \in Targets(ch, p)
      BY <1>1, <1>4, Arrived, Zenon DEF Live
  <2>3. p \in Positions(ch)
      BY <1>1, <1>4 DEF Positions
  <2>4. h[ip + 1] = h[p + 1] + op_depth_effect(At(ch, p))[2]
      BY <2>2, <2>3, Zenon DEF Walkable
  <2>5. CASE p = 0
    <3>1. At(ch, 0).o = "Stream" /\ h[1] = 0
      <4>1. \/ Start(ch) = 0
            \/ At(ch, 0).o = "Stream"
          BY Zenon DEF Walkable
      <4>2. h[1] = 0
          BY Zenon DEF Walkable
      <4> QED BY <1>4, <4>1, <4>2
    <3>2. op_depth_effect(At(ch, p))[2] = 0
        BY <2>3, <2>5, <3>1, WalkType, Effects
    <3>3. p + 1 = 1
        BY <2>5
    <3>4. h[ip + 1] = 0
      <4>1. h[p + 1] = 0
          BY <3>1, <3>3, Zenon
      <4> HIDE DEF h
      <4> QED BY <2>4, <3>2, <4>1
    <3> HIDE DEF h, peak
    <3> QED BY <1>1, <2>1, <3>4
  <2>6. CASE p # 0
    <3>1. p \in Start(ch) .. Finish(ch) - 1
        BY <1>4, <2>6
    <3>2. At(ch, p).o \notin {"Return", "Trap", "Reset"}
        BY <2>2 DEF Targets
    <3>3. h[p + 1] + op_depth_effect(At(ch, p))[2] <= peak
        BY <2>2, <3>1, <3>2, WithinPeak, Zenon
    <3> QED BY <2>1, <2>4, <3>3, Zenon
  <2> QED BY <2>5, <2>6
<1> QED BY <1>2, <1>3, <1>4, WalkedRange, Zenon

-----------------------------------------------------------------------------
\* The rounds of the module's bounds.
Round(m, callee) == [c \in DOMAIN m |-> compute_chunk_wcmu(m[c], callee)]
NoneYet(m) == [c \in DOMAIN m |-> [ok |-> TRUE, stack |-> 0, heap |-> 0]]

Rounds(m, r) ==
    /\ module_wcmu_with_bounds(m) = r[module_call_depth(m)]
    /\ r[0] = NoneYet(m)
    /\ \A n \in 0 .. module_call_depth(m) - 1 : r[n + 1] = Round(m, r[n])

\* The rounds are there, each made from the one before it.
LEMMA RoundsExist ==
    ASSUME NEW m, module_call_depth(m) \in Nat
    PROVE  \E r : Rounds(m, r)
<1> DEFINE base == NoneYet(m)
           P(n, u) == u = [k \in 0 .. n |-> IF k = 0 THEN base ELSE Round(m, u[k - 1])]
           B == {n \in Nat : ~ \E u : P(n, u)}
           N == module_call_depth(m)
<1>1. module_wcmu_with_bounds(m) = (CHOOSE u : P(N, u))[N]
    BY DEF module_wcmu_with_bounds, Round, NoneYet
<1> HIDE DEF base, N
<1>2. \A n \in Nat : n \notin B
  <2> SUFFICES ASSUME B # {} PROVE FALSE
      OBVIOUS
  <2>1. PICK n \in B : n \in Nat /\ \A y \in Nat : y < n => y \notin B
    <3>1. B \subseteq Nat
        BY Zenon
    <3> HIDE DEF B
    <3> QED BY <3>1, Least
  <2>2. n \in Nat /\ ~ \E u : P(n, u)
      BY <2>1, Zenon
  <2>3. n # 0
    <3>1. ASSUME n = 0 PROVE P(n, [k \in 0 .. n |-> base])
        BY <3>1
    <3> QED BY <2>2, <3>1, Zenon
  <2>4. n - 1 \in Nat /\ n - 1 < n
      BY <2>2, <2>3
  <2>5. PICK u : P(n - 1, u)
      BY <2>1, <2>4, Zenon
  <2> DEFINE v == [k \in 0 .. n |-> IF k = n THEN Round(m, u[n - 1]) ELSE u[k]]
  <2>6. \A k \in 0 .. n - 1 : u[k] = IF k = 0 THEN base ELSE Round(m, u[k - 1])
      BY <2>5
  <2>7. ASSUME NEW k \in 0 .. n
        PROVE  v[k] = IF k = 0 THEN base ELSE Round(m, v[k - 1])
    <3>1. k # 0 => v[k - 1] = u[k - 1]
        BY <2>2
    <3>2. CASE k = n
        BY <2>3, <3>1, <3>2
    <3>3. CASE k # n
        BY <2>2, <2>6, <3>1, <3>3
    <3> QED BY <3>2, <3>3
  <2>8. P(n, v)
    <3>1. v = [k \in 0 .. n |-> v[k]]
        OBVIOUS
    <3> HIDE DEF v
    <3> QED BY <2>7, <3>1
  <2> QED BY <2>2, <2>8, Zenon
<1> DEFINE u == CHOOSE u : P(N, u)
<1>3. P(N, u)
  <2>1. \E w : P(N, w)
      BY <1>2, Zenon DEF N
  <2> HIDE DEF P
  <2> QED BY <2>1, Zenon
<1> HIDE DEF u
<1>4. \A k \in 0 .. N : u[k] = IF k = 0 THEN base ELSE Round(m, u[k - 1])
    BY <1>3
<1>7. N \in Nat
    BY DEF N
<1>5. ASSUME NEW n \in 0 .. N - 1
      PROVE  u[n + 1] = Round(m, u[n])
  <2>1. n + 1 \in 0 .. N /\ n + 1 # 0 /\ (n + 1) - 1 = n
      BY <1>7
  <2> QED BY <1>4, <2>1
<1>6. u[0] = base
  <2>1. 0 \in 0 .. N
      BY <1>7
  <2> QED BY <1>4, <2>1
<1>8. Rounds(m, u)
    BY <1>1, <1>5, <1>6, Zenon DEF Rounds, u, base, N
<1> QED BY <1>8, Zenon

\* Bounds that agree on the slots of a chunk's callees.
SameCallees(ch, r, s) ==
    /\ Start(ch) .. Finish(ch) - 1 \subseteq Positions(ch)
    /\ \A e \in Callees(ch) : r[e].stack = s[e].stack

\* What its callees count is all that a chunk's count takes from the others.
LEMMA SameStack ==
    ASSUME NEW ch, NEW r, NEW s, SameCallees(ch, r, s)
    PROVE  compute_chunk_wcmu(ch, r).stack = compute_chunk_wcmu(ch, s).stack
<1>0. /\ Start(ch) .. Finish(ch) - 1 \subseteq Positions(ch)
      /\ \A e \in Callees(ch) : r[e].stack = s[e].stack
    BY Zenon DEF SameCallees
<1>1. ASSUME NEW ip \in WalkedAt(ch) PROVE Reach(ch, r, ip) = Reach(ch, s, ip)
  <2>1. ip \in Positions(ch)
      BY <1>0, Zenon DEF WalkedAt
  <2>2. CASE At(ch, ip).o = "Call"
    <3>1. At(ch, ip).a \in Callees(ch)
        BY <2>1, <2>2, Zenon DEF Callees, PositionsOf
    <3>2. r[At(ch, ip).a].stack = s[At(ch, ip).a].stack
        BY <1>0, <3>1
    <3> QED BY <2>2, <3>2, Zenon DEF Reach, DuringPeak
  <2>3. CASE At(ch, ip).o # "Call"
      BY <2>3, Zenon DEF Reach, DuringPeak
  <2> QED BY <2>2, <2>3
<1>2. Peaks(ch, r) = Peaks(ch, s)
    BY <1>1, Zenon DEF Peaks
<1> QED BY <1>2, StackIs, Zenon

\* A chunk calls chunks of its module.
LEMMA CalleesThere ==
    ASSUME NEW m, Admitted(m), NEW c \in DOMAIN m
    PROVE  Callees(m[c]) \subseteq DOMAIN m
<1>1. verify_operands(m[c], m)
    BY Zenon DEF Admitted, verify_flow
<1> SUFFICES ASSUME NEW ip \in PositionsOf(m[c], "Call")
             PROVE  At(m[c], ip).a \in DOMAIN m
    BY Zenon DEF Callees
<1>2. ip \in Positions(m[c]) /\ At(m[c], ip).o = "Call"
    BY DEF PositionsOf
<1>3. InRange(m[c], m, At(m[c], ip))
    BY <1>1, <1>2, Zenon DEF verify_operands
<1> DEFINE op == At(m[c], ip)
<1> HIDE DEF op
<1>4. op.o = "Call" /\ op.o \notin {"GetLocal", "SetLocal"}
    BY <1>2 DEF op
<1>5. InRange(m[c], m, op)
    BY <1>3 DEF op
<1>6. op.a \in DOMAIN m
    BY <1>4, <1>5 DEF InRange, Natives
<1> QED BY <1>6 DEF op

\* Each chunk's bound is what its own walk counts with its callees' bounds.
LEMMA Fixpoint ==
    ASSUME NEW m, Admitted(m),
           \A c \in DOMAIN m : Walkable(m[c]) /\ m[c].locals \in Nat
    PROVE  LET w == module_wcmu_with_bounds(m)
           IN \A c \in DOMAIN m :
                 /\ w[c].stack \in Nat /\ Callable(m[c], w)
                 /\ w[c].stack = compute_chunk_wcmu(m[c], w).stack
<1> DEFINE D == module_call_depth(m)
           d(c) == CallDepths(m)[c]
<1>1. /\ D \in Nat
      /\ \A c \in DOMAIN m : /\ d(c) \in Nat \ {0} /\ d(c) <= D
                             /\ \A e \in Callees(m[c]) : d(e) < d(c)
    BY DepthIsGreatest, Zenon
<1>2. PICK r : Rounds(m, r)
    BY <1>1, RoundsExist, Zenon
<1>3. \A c \in DOMAIN m : Callees(m[c]) \subseteq DOMAIN m
    BY CalleesThere, Zenon
<1>4. /\ module_wcmu_with_bounds(m) = r[D]
      /\ r[0] = NoneYet(m) /\ \A n \in 0 .. D - 1 : r[n + 1] = Round(m, r[n])
    BY <1>2, Zenon DEF Rounds
<1>5. ASSUME NEW n \in 0 .. D - 1, NEW c \in DOMAIN m
      PROVE  r[n + 1][c] = compute_chunk_wcmu(m[c], r[n])
  <2>1. r[n + 1] = Round(m, r[n])
      BY <1>4, Zenon
  <2> QED BY <2>1, Zenon DEF Round
<1> DEFINE Typed(n) == \A c \in DOMAIN m : r[n][c].stack \in Nat
<1>6. ASSUME NEW n, Typed(n), NEW c \in DOMAIN m
      PROVE  /\ Callable(m[c], r[n])
             /\ compute_chunk_wcmu(m[c], r[n]).stack \in Nat
  <2>1. Callable(m[c], r[n])
      BY <1>3, <1>6, Zenon DEF Callable
  <2>2. Ints(Peaks(m[c], r[n])) \in Nat
      BY <2>1, PeaksBound, Zenon
  <2> DEFINE x == Ints(Peaks(m[c], r[n]))
             l == m[c].locals
  <2>3. compute_chunk_wcmu(m[c], r[n]).stack = l + x
      BY StackIs, Zenon
  <2> HIDE DEF x, l
  <2>4. l + x \in Nat
      BY <2>2 DEF x, l
  <2> QED BY <2>1, <2>3, <2>4, Zenon
<1>7. Typed(0)
  <2>1. \A c \in DOMAIN m : r[0][c].stack = 0
      BY <1>4 DEF NoneYet
  <2> QED BY <2>1
<1> HIDE DEF d, Typed, D
<1>8. \A n \in 0 .. D : Typed(n)
  <2> DEFINE B == {n \in 0 .. D : ~Typed(n)}
  <2> SUFFICES ASSUME B # {} PROVE FALSE
      OBVIOUS
  <2>1. PICK n \in B : n \in Nat /\ \A y \in Nat : y < n => y \notin B
    <3>1. B \subseteq Nat
        BY <1>1
    <3> HIDE DEF B
    <3> QED BY <3>1, Least
  <2>2. n \in 0 .. D /\ ~Typed(n) /\ n # 0
      BY <1>7, <2>1
  <2>3. n - 1 \in 0 .. D - 1 /\ n - 1 \in 0 .. D /\ n - 1 \in Nat /\ n - 1 < n /\ (n - 1) + 1 = n
      BY <1>1, <2>2
  <2>4. Typed(n - 1)
      BY <2>1, <2>3, Zenon
  <2>5. ASSUME NEW c \in DOMAIN m PROVE r[n][c].stack \in Nat
    <3>1. r[n][c] = compute_chunk_wcmu(m[c], r[n - 1])
      <4>1. r[(n - 1) + 1][c] = compute_chunk_wcmu(m[c], r[n - 1])
          BY <1>5, <2>3, Zenon
      <4> QED BY <2>3, <4>1
    <3> QED BY <1>6, <2>4, <3>1, Zenon
  <2> QED BY <2>2, <2>5, Zenon DEF Typed
<1> DEFINE Settled_at(n) == \A c \in DOMAIN m : d(c) <= n =>
               compute_chunk_wcmu(m[c], r[n]).stack = r[n][c].stack
<1>9. \A n \in 0 .. D : Settled_at(n)
  <2> DEFINE B == {n \in 0 .. D : ~Settled_at(n)}
  <2> SUFFICES ASSUME B # {} PROVE FALSE
      OBVIOUS
  <2>1. PICK n \in B : n \in Nat /\ \A y \in Nat : y < n => y \notin B
    <3>1. B \subseteq Nat
        BY <1>1
    <3> HIDE DEF B
    <3> QED BY <3>1, Least
  <2>2. PICK c \in DOMAIN m : d(c) <= n /\ compute_chunk_wcmu(m[c], r[n]).stack # r[n][c].stack
      BY <2>1, Zenon
  <2>3. n \in 0 .. D /\ n # 0
    <3>1. n \in 0 .. D
        BY <2>1
    <3>2. d(c) \in Nat \ {0}
        BY <1>1, Zenon
    <3> QED BY <2>2, <3>1, <3>2
  <2>4. n - 1 \in 0 .. D - 1 /\ n - 1 \in 0 .. D /\ n - 1 \in Nat /\ n - 1 < n /\ (n - 1) + 1 = n
      BY <1>1, <2>3
  <2>5. Settled_at(n - 1)
      BY <2>1, <2>4, Zenon
  <2>6. \A x \in DOMAIN m : r[n][x] = compute_chunk_wcmu(m[x], r[n - 1])
    <3>1. \A x \in DOMAIN m : r[(n - 1) + 1][x] = compute_chunk_wcmu(m[x], r[n - 1])
        BY <1>5, <2>4, Zenon
    <3> QED BY <2>4, <3>1
  <2>7. ASSUME NEW e \in Callees(m[c]) PROVE r[n][e].stack = r[n - 1][e].stack
    <3>1. e \in DOMAIN m
        BY <1>3
    <3>2. d(e) < d(c) /\ d(e) \in Nat /\ d(c) \in Nat
        BY <1>1, <3>1, Zenon
    <3>3. d(e) <= n - 1
        BY <2>2, <2>3, <3>2
    <3> QED BY <2>5, <2>6, <3>1, <3>3, Zenon
  <2>8. compute_chunk_wcmu(m[c], r[n]).stack = compute_chunk_wcmu(m[c], r[n - 1]).stack
    <3>1. Walkable(m[c])
        BY Zenon
    <3>2. SameCallees(m[c], r[n], r[n - 1])
        BY <2>7, <3>1, WalkedRange, Zenon DEF SameCallees
    <3> QED BY <3>2, SameStack, Zenon
  <2> QED BY <2>2, <2>6, <2>8, Zenon
<1> HIDE DEF Settled_at
<1>10. D \in 0 .. D
    BY <1>1 DEF D
<1>11. ASSUME NEW c \in DOMAIN m
       PROVE  /\ r[D][c].stack \in Nat /\ Callable(m[c], r[D])
              /\ r[D][c].stack = compute_chunk_wcmu(m[c], r[D]).stack
  <2>1. Typed(D) /\ Settled_at(D)
      BY <1>8, <1>9, <1>10, Zenon
  <2>2. d(c) <= D
      BY <1>1 DEF d, D
  <2>3. r[D][c].stack = compute_chunk_wcmu(m[c], r[D]).stack
      BY <2>1, <2>2, Zenon DEF Settled_at
  <2> QED BY <1>6, <2>1, <2>3, Zenon DEF Typed
<1> QED BY <1>4, <1>11, Zenon DEF D

-----------------------------------------------------------------------------
\* What the attested bounds say of a module's chunks.
Sized(m, w) ==
    \A c \in DOMAIN m : /\ w[c].stack \in Nat
                        /\ Covers(m[c], w, w[c].stack - m[c].locals)

\* Every frame below the top has come from the Call of the one above it.
CallsInto(m, f, g) ==
    LET ch == m[f.chunk]
        p == f.ip - 1
    IN /\ p \in Positions(ch) /\ Live(ch, p)
       /\ At(ch, p).o = "Call" /\ At(ch, p).a = g.chunk

Nesting(m, fs) == \A k \in 1 .. Len(fs) - 1 : CallsInto(m, fs[k], fs[k + 1])

Within(fs, st, w) ==
    \A k \in 1 .. Len(fs) : Len(st) - fs[k].base <= w[fs[k].chunk].stack

SlotInv ==
    /\ \A c \in DOMAIN mod : Walkable(mod[c])
    /\ Sized(mod, attested.wcmu)
    /\ Nesting(mod, frames)
    /\ Within(frames, stack, attested.wcmu)

\* The locals of a chunk are counted by a natural number.
LEMMA LocalsType ==
    ASSUME NEW m, Admitted(m), NEW c \in DOMAIN m
    PROVE  m[c].locals \in Nat
<1> DEFINE ch == m[c]
<1>1. m \in Seq(Chunks)
    BY Zenon DEF Admitted
<1>2. ch \in Chunks
    BY <1>1
<1> HIDE DEF ch
<1>3. ch.locals \in Nat
    BY <1>2 DEF Chunks
<1> QED BY <1>3 DEF ch

\* The bounds of a module cover every chunk of it.
LEMMA SlotsSized ==
    ASSUME NEW m, Admitted(m),
           \A c \in DOMAIN m : verify_nesting(m[c]) /\ BlocksJoin(m[c])
    PROVE  Sized(m, module_wcmu_with_bounds(m))
<1> DEFINE w == module_wcmu_with_bounds(m)
<1>1. \A c \in DOMAIN m : Walkable(m[c])
    BY IsWalkable, Zenon
<1>3. \A c \in DOMAIN m : m[c].locals \in Nat
    BY LocalsType, Zenon
<1>4. \A c \in DOMAIN m : /\ w[c].stack \in Nat /\ Callable(m[c], w)
                          /\ w[c].stack = compute_chunk_wcmu(m[c], w).stack
    BY <1>1, <1>3, Fixpoint, Zenon
<1>5. ASSUME NEW c \in DOMAIN m
      PROVE  Covers(m[c], w, w[c].stack - m[c].locals)
  <2> DEFINE ch == m[c]
             peak == Ints(Peaks(ch, w))
  <2>1. Walkable(ch) /\ Callable(ch, w)
      BY <1>1, <1>4, Zenon
  <2>2. peak \in Nat /\ Covers(ch, w, peak)
      BY <2>1, PeaksBound, PeakCovers, Zenon
  <2>3. w[c].stack = ch.locals + peak
      BY <1>4, StackIs, Zenon
  <2> DEFINE x == w[c].stack
             l == ch.locals
  <2>4. l \in Nat
      BY <1>3
  <2> HIDE DEF peak, x, l
  <2>5. x - l = peak
      BY <2>2, <2>3, <2>4 DEF x, l
  <2> QED BY <2>2, <2>5, Zenon DEF x, l
<1> QED BY <1>4, <1>5, Zenon DEF Sized

\* A frame that waits for a call begins below its callee by its locals and the
\* operands the call leaves it.
LEMMA BelowCallee ==
    ASSUME NEW m, NEW w, NEW f, NEW g, Admitted(m), Sized(m, w),
           \A c \in DOMAIN m : Walkable(m[c]), f \in FrameTypes(m),
           g \in FrameTypes(m), CallsInto(m, f, g), Placed(m, f, g.base, 1)
    PROVE  g.base - f.base + w[g.chunk].stack <= w[f.chunk].stack
<1> DEFINE ch == m[f.chunk]
           p == f.ip - 1
           h == interp_region(ch)[p + 1]
           op == At(ch, p)
           s == w[f.chunk].stack
           x == w[g.chunk].stack
           l == ch.locals
           y == Height(m, f)
<1>1. /\ f.chunk \in DOMAIN m /\ g.chunk \in DOMAIN m /\ f.ip \in Nat
      /\ f.base \in Nat /\ g.base \in Nat
    BY DEF FrameTypes
<1>2. p \in Positions(ch) /\ Live(ch, p) /\ op.o = "Call" /\ op.a = g.chunk
    BY Zenon DEF CallsInto
<1>3. s \in Nat /\ x \in Nat /\ Covers(ch, w, s - l)
    BY <1>1, Zenon DEF Sized
<1>4. h - op.b + x <= s - l
  <2>1. h - op.b + w[op.a].stack <= s - l
      BY <1>2, <1>3, Zenon DEF Covers
  <2> QED BY <1>2, <2>1, Zenon
<1>5. Walkable(ch)
    BY <1>1, Zenon
<1>6. op \in Instruction /\ p + 1 = f.ip /\ op.b \in Nat
  <2>1. op \in Instruction
      BY <1>2, <1>5, WalkType, Zenon
  <2>2. op.b \in Nat
      BY <2>1 DEF Instruction
  <2> QED BY <1>1, <2>1, <2>2
<1>7. h \in Nat /\ y = h + (1 - op.b)
  <2>1. p + 1 \in Targets(ch, p)
      BY <1>2 DEF Targets
  <2>2. interp_region(ch)[(p + 1) + 1] = h + op_depth_effect(op)[2] /\ h \in Nat
      BY <1>2, <1>5, <2>1, Zenon DEF Walkable
  <2>3. op_depth_effect(op)[2] = 1 - op.b
      BY <1>2, <1>6, Effects
  <2> QED BY <1>6, <2>2, <2>3, Zenon DEF Height
<1>8. (f.base + l) + y - 1 = g.base
    BY Zenon DEF Placed, Rim
<1>9. l \in Nat
    BY <1>1, LocalsType, Zenon
<1> DEFINE bf == f.base
           bg == g.base
           ob == op.b
<1>10. /\ bf \in Nat /\ bg \in Nat /\ ob \in Nat /\ h - ob + x <= s - l
       /\ y = h + (1 - ob) /\ (bf + l) + y - 1 = bg
    BY <1>1, <1>4, <1>6, <1>7, <1>8, Zenon
<1> HIDE DEF h, s, x, l, y, bf, bg, ob
<1>11. bg - bf + x <= s
    BY <1>3, <1>7, <1>9, <1>10
<1> QED BY <1>11 DEF bf, bg, x, s

\* The machine's operands lie where the verifier counts them, so they are
\* within what it attests.
LEMMA SoundWithin ==
    ASSUME NEW m, NEW fs, NEW st, NEW s, NEW w, Admitted(m),
           \A c \in DOMAIN m : Walkable(m[c]), Sized(m, w), Nesting(m, fs),
           Machine(m, fs, st, s), s # "Error"
    PROVE  Within(fs, st, w)
<1> DEFINE n == Len(fs)
           l == Len(st)
           S(k) == w[fs[k].chunk].stack
           b(k) == fs[k].base
           Fine(k) == l - b(k) <= S(k)
<1>1. /\ fs \in Seq(FrameTypes(m)) /\ st \in Seq(Value) /\ Sound(m, fs, st, s)
    BY Zenon DEF Machine
<1>2. n \in Nat /\ l \in Nat /\ \A k \in 1 .. n : fs[k] \in FrameTypes(m)
    BY <1>1, SequenceFacts
<1>3. ASSUME NEW k \in 1 .. n
      PROVE  /\ Placed(m, fs[k], Ceiling(fs, st, k), Due(fs, s, k))
             /\ S(k) \in Nat /\ b(k) \in Nat
  <2>1. FrameOK(m, fs[k], st, Ceiling(fs, st, k), Due(fs, s, k), Mode(fs, s, k))
      BY <1>1, Zenon DEF Sound
  <2>2. fs[k].chunk \in DOMAIN m /\ fs[k].base \in Nat
      BY <1>2 DEF FrameTypes
  <2>3. w[fs[k].chunk].stack \in Nat
      BY <2>2, Zenon DEF Sized
  <2> QED BY <2>1, <2>2, <2>3, Zenon DEF FrameOK
<1>4. ASSUME NEW k \in 1 .. n, k = n PROVE Fine(k)
  <2> DEFINE f == fs[k]
             ch == m[f.chunk]
             h == interp_region(ch)[f.ip + 1]
             d == Due(fs, s, k)
             x == S(k)
             y == b(k)
             v == ch.locals
  <2>1. Placed(m, f, l, d)
    <3>1. Ceiling(fs, st, k) = l
        BY <1>4 DEF Ceiling
    <3> QED BY <1>3, <3>1
  <2>2. /\ f.ip \in Positions(ch) /\ h \in Nat /\ (y + v) + h - d = l
      BY <2>1, Zenon DEF Placed, Rim, Height
  <2>3. d \in {0, 1}
      BY DEF Due
  <2>4. f.chunk \in DOMAIN m
      BY <1>2 DEF FrameTypes
  <2>5. v \in Nat
      BY <2>4, LocalsType, Zenon
  <2>6. Live(ch, f.ip)
    <3>1. h # Dead
      <4> HIDE DEF h
      <4> QED BY <2>2 DEF Dead
    <3> QED BY <3>1, Zenon DEF Live
  <2>7. h <= x - v
      BY <2>2, <2>4, <2>6, Zenon DEF Sized, Covers
  <2>8. x \in Nat /\ y \in Nat
      BY <1>3
  <2> HIDE DEF h, d, x, y, v, l
  <2>9. l - y <= x
      BY <2>2, <2>3, <2>5, <2>7, <2>8
  <2> QED BY <2>9 DEF x, y
<1>5. ASSUME NEW k \in 1 .. n, k < n, Fine(k + 1) PROVE Fine(k)
  <2>1. k + 1 \in 1 .. n /\ k \in 1 .. n - 1
      BY <1>2, <1>5
  <2>2. Ceiling(fs, st, k) = fs[k + 1].base /\ Due(fs, s, k) = 1
      BY <1>2, <1>5 DEF Ceiling, Due
  <2>3. Placed(m, fs[k], fs[k + 1].base, 1)
      BY <1>3, <2>2
  <2>4. CallsInto(m, fs[k], fs[k + 1])
      BY <2>1, Zenon DEF Nesting
  <2>5. b(k + 1) - b(k) + S(k + 1) <= S(k)
      BY <1>2, <2>1, <2>3, <2>4, BelowCallee, Zenon
  <2> DEFINE x == S(k)
             y == b(k)
             x1 == S(k + 1)
             y1 == b(k + 1)
  <2>6. x \in Nat /\ y \in Nat /\ x1 \in Nat /\ y1 \in Nat
      BY <1>3, <2>1, Zenon
  <2>7. y1 - y + x1 <= x /\ l - y1 <= x1
      BY <1>5, <2>5, Zenon
  <2> HIDE DEF x, y, x1, y1, l
  <2>8. l - y <= x
      BY <1>2, <2>6, <2>7
  <2> QED BY <2>8 DEF x, y
<1> HIDE DEF Fine
<1> DEFINE B == {j \in 0 .. n - 1 : ~Fine(n - j)}
<1>6. B = {}
  <2> SUFFICES ASSUME B # {} PROVE FALSE
      OBVIOUS
  <2>1. PICK j \in B : j \in Nat /\ \A y \in Nat : y < j => y \notin B
    <3>1. B \subseteq Nat
        BY <1>2
    <3> HIDE DEF B
    <3> QED BY <3>1, Least
  <2>2. j \in 0 .. n - 1 /\ ~Fine(n - j)
      BY <2>1
  <2>3. n - j \in 1 .. n
      BY <1>2, <2>2
  <2>4. CASE j = 0
      BY <1>2, <1>4, <2>2, <2>3, <2>4
  <2>5. CASE j # 0
    <3>1. j - 1 \in 0 .. n - 1 /\ j - 1 \in Nat /\ j - 1 < j /\ n - (j - 1) = (n - j) + 1
          /\ n - j < n
        BY <1>2, <2>2, <2>5
    <3>2. Fine(n - (j - 1))
        BY <2>1, <3>1, Zenon
    <3> QED BY <1>5, <2>2, <2>3, <3>1, <3>2
  <2> QED BY <2>4, <2>5
<1>7. ASSUME NEW k \in 1 .. n PROVE Fine(k)
  <2>1. n - k \in 0 .. n - 1 /\ n - (n - k) = k
      BY <1>2
  <2>2. n - k \notin B
      BY <1>6
  <2> QED BY <2>1, <2>2
<1> QED BY <1>7, Zenon DEF Within, Fine, S, b, n, l

\* Moving the top frame leaves the frames below it behind their calls.
LEMMA NestingKept ==
    ASSUME NEW m, NEW fs, NEW gs, NEW t, fs \in Seq(FrameTypes(m)),
           Advanced(m, fs, gs, t), Nesting(m, fs)
    PROVE  Nesting(m, gs)
<1> DEFINE n == Len(fs)
<1>1. n \in Nat /\ Len(gs) = n
    BY SequenceFacts DEF Advanced
<1>2. ASSUME NEW k \in 1 .. n - 1 PROVE CallsInto(m, gs[k], gs[k + 1])
  <2>1. k \in 1 .. n /\ k + 1 \in 1 .. n /\ k # n
      BY <1>1
  <2>2. gs[k].chunk = fs[k].chunk /\ gs[k].ip = fs[k].ip
        /\ gs[k + 1].chunk = fs[k + 1].chunk
      BY <2>1, Zenon DEF Advanced
  <2>3. CallsInto(m, fs[k], fs[k + 1])
      BY Zenon DEF Nesting
  <2> QED BY <2>2, <2>3, Zenon DEF CallsInto
<1> QED BY <1>1, <1>2, Zenon DEF Nesting

\* Every step leaves the frames below the top behind their calls.
LEMMA NextNesting ==
    ASSUME IInv, Nesting(mod, frames), [Next]_vars
    PROVE  Nesting(mod, frames')
<1> DEFINE n == Len(frames)
<1>1. frames \in Seq(FrameTypes(mod)) /\ n \in Nat
    BY SequenceFacts DEF IInv, Machine
<1>2. ASSUME NEW t, Advanced(mod, frames, frames', t)
      PROVE  Nesting(mod, frames')
    BY <1>1, <1>2, NestingKept, Zenon
<1>3. CASE frames' = <<>>
    BY <1>3 DEF Nesting
<1>4. CASE CallOp /\ \E gs, nf : /\ Advanced(mod, frames, gs, Frame.ip + 1)
                                 /\ frames' = Append(gs, nf)
                                 /\ nf.chunk = Next_ip.a /\ nf.ip = 0
  <2>1. PICK gs, nf : /\ Advanced(mod, frames, gs, Frame.ip + 1)
                      /\ frames' = Append(gs, nf) /\ nf.chunk = Next_ip.a
      BY <1>4
  <2>2. status = "Running" /\ Next_ip.o = "Call"
      BY <1>4 DEF CallOp, Dispatching
  <2>3. gs \in Seq(FrameTypes(mod)) /\ Len(gs) = n
      BY <2>1 DEF Advanced
  <2>4. /\ Len(frames') = n + 1 /\ frames'[n + 1] = nf
        /\ \A k \in 1 .. n : frames'[k] = gs[k]
      BY <2>1, <2>3, AppendIsThere
  <2>5. Nesting(mod, gs)
      BY <1>1, <2>1, NestingKept, Zenon
  <2>6. /\ n > 0 /\ Frame = frames[n] /\ Frame.ip \in Nat
        /\ Next_ip = At(mod[Frame.chunk], Frame.ip)
        /\ Frame.ip \in Positions(mod[Frame.chunk])
        /\ Live(mod[Frame.chunk], Frame.ip)
    <3>1. /\ n > 0 /\ Frame = frames[n] /\ Code = mod[Frame.chunk]
          /\ Frame.ip \in Nat /\ Machine(mod, frames, stack, "Running")
          /\ Next_ip = At(Code, Frame.ip)
        BY <2>2, Dispatched, Zenon
    <3>2. n \in 1 .. n
        BY <1>1, <3>1
    <3>3. Sound(mod, frames, stack, "Running")
      <4>1. "Running" # "Error"
          OBVIOUS
      <4> QED BY <3>1, <4>1, Zenon DEF Machine
    <3>4. Frame.ip \in Positions(mod[Frame.chunk]) /\ Height(mod, Frame) \in Nat
        BY <3>1, <3>2, <3>3, Zenon DEF Sound, FrameOK, Placed
    <3> DEFINE h == Height(mod, Frame)
    <3>5. h # Dead
      <4>1. h \in Nat
          BY <3>4
      <4> HIDE DEF h
      <4> QED BY <4>1 DEF Dead
    <3> QED BY <3>1, <3>4, <3>5, Zenon DEF Live, Height
  <2>7. CallsInto(mod, gs[n], nf)
    <3>1. n \in 1 .. n
        BY <1>1, <2>6
    <3>2. gs[n].ip = Frame.ip + 1 /\ gs[n].chunk = Frame.chunk
        BY <2>1, <2>6, <3>1, Zenon DEF Advanced
    <3>3. gs[n].ip - 1 = Frame.ip
        BY <2>6, <3>2
    <3> QED BY <2>1, <2>2, <2>6, <3>2, <3>3, Zenon DEF CallsInto
  <2>8. ASSUME NEW k \in 1 .. Len(frames') - 1
        PROVE  CallsInto(mod, frames'[k], frames'[k + 1])
    <3>1. k \in 1 .. n
        BY <1>1, <2>4
    <3>2. CASE k = n
        BY <2>4, <2>7, <3>1, <3>2
    <3>3. CASE k # n
      <4>1. k \in 1 .. n - 1 /\ k + 1 \in 1 .. n
          BY <1>1, <3>1, <3>3
      <4>2. CallsInto(mod, gs[k], gs[k + 1])
          BY <2>3, <2>5, <4>1, Zenon DEF Nesting
      <4> QED BY <2>4, <3>1, <4>1, <4>2, Zenon
    <3> QED BY <3>2, <3>3
  <2> QED BY <2>8, Zenon DEF Nesting
<1>5. CASE n > 1 /\ frames' = SubSeq(frames, 1, n - 1)
  <2>1. Len(frames') = n - 1 /\ \A k \in 1 .. n - 1 : frames'[k] = frames[k]
    <3>1. n > 0
        BY <1>5
    <3> QED BY <1>1, <1>5, <3>1, DropTop
  <2>2. ASSUME NEW k \in 1 .. Len(frames') - 1
        PROVE  CallsInto(mod, frames'[k], frames'[k + 1])
    <3>1. k \in 1 .. n - 1 /\ k + 1 \in 1 .. n - 1
        BY <1>1, <2>1
    <3>2. CallsInto(mod, frames[k], frames[k + 1])
        BY <3>1, Zenon DEF Nesting
    <3> QED BY <2>1, <3>1, <3>2, Zenon
  <2> QED BY <2>2, Zenon DEF Nesting
<1>6. CASE \E c \in DOMAIN mod : frames' = <<NewFrame(c, 0)>>
  <2>1. Len(frames') = 1
      BY <1>6
  <2>2. ASSUME NEW k \in 1 .. Len(frames') - 1 PROVE FALSE
      BY <2>1
  <2> QED BY <2>2, Zenon DEF Nesting
<1>7. CASE UNCHANGED vars
  <2>1. frames' = frames
      BY <1>7 DEF vars
  <2> QED BY <2>1, Zenon
<1> QED BY <1>2, <1>3, <1>4, <1>5, <1>6, <1>7, Movement, Zenon

\* No step changes what was attested.
LEMMA AttestedStays ==
    ASSUME [Next]_vars
    PROVE  attested' = attested
<1>1. ASSUME NEW c \in DOMAIN mod, call_function(c) PROVE attested' = attested
    BY <1>1 DEF call_function
<1>2. CASE resume \/ reset_after_error \/ UNCHANGED vars
    BY <1>2 DEF resume, reset_after_error, vars
<1>3. CASE StraightOp \/ BranchOp \/ JumpOp \/ MarkerOp \/ CallOp
    BY <1>3, Zenon DEF StraightOp, BranchOp, JumpOp, MarkerOp, CallOp
<1>4. CASE NativeOp \/ ReturnOp \/ YieldOp \/ ResetOp \/ TrapOp
    BY <1>4, Zenon DEF NativeOp, ReturnOp, YieldOp, ResetOp, TrapOp
<1> QED BY <1>1, <1>2, <1>3, <1>4, Zenon DEF Next, run

\* An error comes of a trap alone, which pops but keeps the frames.
LEMMA ErrorStep ==
    ASSUME IInv, [Next]_vars, status' = "Error"
    PROVE  \/ UNCHANGED vars
           \/ TrapOp /\ Advanced(mod, frames, frames', Frame.ip + 1)
<1>1. ASSUME NEW c \in DOMAIN mod, call_function(c) PROVE FALSE
    BY <1>1 DEF call_function
<1>2. CASE resume \/ reset_after_error
    BY <1>2 DEF resume, reset_after_error
<1>3. CASE EdgeOp
    BY <1>3, EdgeMoves
<1>4. CASE CallOp \/ ReturnOp \/ YieldOp \/ ResetOp
    BY <1>4 DEF CallOp, ReturnOp, YieldOp, ResetOp, Dispatching
<1>5. ASSUME TrapOp
      PROVE  TrapOp /\ Advanced(mod, frames, frames', Frame.ip + 1)
  <2>3. status = "Running"
      BY <1>5 DEF TrapOp, Dispatching
  <2>1. Frame.ip + 1 \in Nat
      BY <2>3, Dispatched
  <2>2. frames' = Stepped(Frame.ip + 1)
      BY <1>5 DEF TrapOp
  <2> QED BY <1>5, <2>1, <2>2, <2>3, SteppedAdvances
<1> QED BY <1>1, <1>2, <1>3, <1>4, <1>5, Zenon DEF Next, run, EdgeOp

\* A trap leaves every frame within its bound.
LEMMA TrapWithin ==
    ASSUME IInv, SlotInv, TrapOp, Advanced(mod, frames, frames', Frame.ip + 1)
    PROVE  Within(frames', stack', attested.wcmu)
<1> DEFINE w == attested.wcmu
           p == op_depth_effect(Next_ip)[1]
           l == Len(stack)
<1>1. /\ status = "Running" /\ stack' = SubSeq(stack, 1, l - p)
    BY DEF TrapOp, Dispatching, Pop
<1>2. /\ stack \in Seq(Value) /\ l \in Nat /\ Len(frames) \in Nat
      /\ frames \in Seq(FrameTypes(mod)) /\ Next_ip \in Instruction
    BY <1>1, Dispatched
<1>3. p \in 0 .. l
    BY <1>1, Dispatched, Zenon
<1>4. Len(stack') \in Nat /\ Len(stack') <= l
  <2> HIDE DEF p
  <2> QED BY <1>1, <1>2, <1>3
<1>5. Len(frames') = Len(frames)
    BY DEF Advanced
<1>6. ASSUME NEW k \in 1 .. Len(frames)
      PROVE  Len(stack') - frames'[k].base <= w[frames'[k].chunk].stack
  <2>1. frames'[k].base = frames[k].base /\ frames'[k].chunk = frames[k].chunk
      BY DEF Advanced
  <2>2. l - frames[k].base <= w[frames[k].chunk].stack
      BY Zenon DEF SlotInv, Within
  <2>3. frames[k] \in FrameTypes(mod)
      BY <1>2, SequenceFacts
  <2>4. frames[k].base \in Nat /\ frames[k].chunk \in DOMAIN mod
      BY <2>3 DEF FrameTypes
  <2>5. w[frames[k].chunk].stack \in Nat
      BY <2>4, Zenon DEF SlotInv, Sized
  <2> DEFINE x == w[frames[k].chunk].stack
             y == frames[k].base
             u == Len(stack')
  <2>6. x \in Nat /\ y \in Nat /\ u \in Nat /\ l - y <= x /\ u <= l
      BY <1>4, <2>2, <2>4, <2>5, Zenon
  <2> HIDE DEF x, y, u, l
  <2>7. u - y <= x
      BY <1>2, <2>6
  <2> QED BY <2>1, <2>7 DEF x, y, u
<1> QED BY <1>5, <1>6, Zenon DEF Within

\* A fresh machine is within the bounds of its module.
LEMMA InitSlotInv ==
    ASSUME AttestedInit, IInv, \A c \in DOMAIN mod : BlocksJoin(mod[c])
    PROVE  SlotInv
<1>1. Admitted(mod)
    BY DEF IInv
<1>2. attested.wcmu = module_wcmu_with_bounds(mod) /\ frames = <<>>
    BY DEF AttestedInit, Attestation, Fresh
<1>3. \A c \in DOMAIN mod : verify_nesting(mod[c]) /\ BlocksJoin(mod[c])
    BY DEF AttestedInit, verify
<1>4. \A c \in DOMAIN mod : Walkable(mod[c])
    BY <1>1, <1>3, IsWalkable, Zenon
<1>5. Sized(mod, attested.wcmu)
  <2>1. Sized(mod, module_wcmu_with_bounds(mod))
      BY <1>1, <1>3, SlotsSized, Zenon
  <2> QED BY <1>2, <2>1, Zenon
<1>6. Nesting(mod, frames) /\ Within(frames, stack, attested.wcmu)
    BY <1>2 DEF Nesting, Within
<1> QED BY <1>4, <1>5, <1>6, Zenon DEF SlotInv

\* Every step keeps the machine within the bounds of its module.
LEMMA NextSlotInv ==
    ASSUME IInv, SlotInv, [Next]_vars
    PROVE  SlotInv'
<1>1. mod' = mod /\ attested' = attested /\ IInv'
    BY Movement, AttestedStays, NextIInv
<1>2. /\ \A c \in DOMAIN mod : Walkable(mod[c])
      /\ Sized(mod, attested.wcmu) /\ Nesting(mod, frames)
      /\ Within(frames, stack, attested.wcmu)
    BY Zenon DEF SlotInv
<1>3. Nesting(mod, frames')
    BY <1>2, NextNesting, Zenon
<1>4. Within(frames', stack', attested.wcmu)
  <2>1. CASE status' # "Error"
    <3>1. Admitted(mod) /\ Machine(mod, frames', stack', status')
        BY <1>1 DEF IInv
    <3> QED BY <1>2, <1>3, <2>1, <3>1, SoundWithin, Zenon
  <2>2. CASE status' = "Error"
    <3>1. CASE UNCHANGED vars
      <4>1. frames' = frames /\ stack' = stack
          BY <3>1 DEF vars
      <4> QED BY <1>2, <4>1, Zenon
    <3>2. CASE TrapOp /\ Advanced(mod, frames, frames', Frame.ip + 1)
        BY <3>2, TrapWithin
    <3> QED BY <2>2, <3>1, <3>2, ErrorStep
  <2> QED BY <2>1, <2>2
<1> QED BY <1>1, <1>2, <1>3, <1>4 DEF SlotInv

\* The invariant implies the bound.
LEMMA SlotInvWithin ==
    ASSUME IInv, SlotInv
    PROVE  SlotsWithinBound
<1>1. DOMAIN frames = 1 .. Len(frames)
    BY DEF IInv, Machine
<1>2. Within(frames, stack, attested.wcmu)
    BY DEF SlotInv
<1> QED BY <1>1, <1>2, Zenon DEF Within, SlotsWithinBound

\* A frame and everything it has called never use more operand slots than the
\* verifier attests for its chunk, so a stack sized by the attestation never
\* refuses a push: the walk of the operand slots is sound for every module
\* whose blocks join as the compiler lays them out, whatever loops, branches
\* and calls it has.
THEOREM SlotsTheorem ==
    AttestedSpec /\ Lowered(mod) /\ (\A c \in DOMAIN mod : BlocksJoin(mod[c]))
        => []SlotsWithinBound
<1>1. AttestedInit => Init
    BY DEF AttestedInit, Init, verify, verify_resource_bounds, Attestation
<1>2. AttestedInit /\ Lowered(mod) /\ (\A c \in DOMAIN mod : BlocksJoin(mod[c]))
        => IInv /\ SlotInv
    BY <1>1, InitIInv, InitSlotInv
<1>3. IInv /\ SlotInv /\ [Next]_vars => (IInv /\ SlotInv)'
    BY NextIInv, NextSlotInv
<1>4. IInv /\ SlotInv => SlotsWithinBound
    BY SlotInvWithin
<1> QED BY <1>2, <1>3, <1>4, PTL DEF AttestedSpec

\* The same for the modules the runs compile, those with a match left out of
\* the slot count: every other module's blocks join.
THEOREM SlotsSoundTheorem ==
    AttestedSpec /\ Lowered(mod)
        /\ (HasMatch(mod) \/ \A c \in DOMAIN mod : BlocksJoin(mod[c]))
        => []SlotsSound
<1>1. Init /\ Lowered(mod) => IInv
    BY InitIInv
<1>2. IInv /\ [Next]_vars => IInv'
    BY NextIInv
<1>3. IInv /\ HasMatch(mod) /\ [Next]_vars => HasMatch(mod)'
  <2> SUFFICES ASSUME IInv, HasMatch(mod), [Next]_vars PROVE HasMatch(mod)'
      OBVIOUS
  <2>1. mod' = mod
      BY Movement
  <2> QED BY <2>1
<1>4. HasMatch(mod) => SlotsSound
    BY DEF SlotsSound
<1>5. SlotsWithinBound => SlotsSound
    BY DEF SlotsSound
<1>6. AttestedSpec /\ Lowered(mod) /\ HasMatch(mod) => []HasMatch(mod)
    BY <1>1, <1>2, <1>3, AttestedRefines, PTL DEF Spec
<1> QED BY <1>4, <1>5, <1>6, SlotsTheorem, PTL
=============================================================================
